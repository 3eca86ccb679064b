---------------------------- MODULE StoreProofs -----------------------------
(***************************************************************************)
(* Machine-checked proofs about what the editor keeps of its documents.    *)
(*                                                                         *)
(* In memory (DocumentHistory), for every limit and every set of values:   *)
(* the two stacks share the limit, what is edited is recorded and marked,  *)
(* and the stacks are a timeline, whatever comes in the middle of a drag   *)
(* or of typing.                                                           *)
(*                                                                         *)
(* On disk (UserFiles), for any items, projects, graphs and number of      *)
(* commands and mishaps: saved projects load, the list of recent ones is   *)
(* in order, copies of items are new, and the library implements Shelf.    *)
(***************************************************************************)
EXTENDS DocumentHistory, UserFiles, SequenceTheorems, FiniteSetTheorems, TLAPS

\* The line of documents the stacks p and f make with d between them.
Lay(p, d, f) == p \o <<d>> \o Reverse(f)

-----------------------------------------------------------------------------
(* Stacks, as sequences. *)

LEMMA NullIsNoDocument == Null \notin Documents
<1> SUFFICES ASSUME NEW d \in Documents, d = Null PROVE FALSE
  OBVIOUS
<1>1. "none" \notin DOMAIN d
  BY DEF Documents
<1>2. "none" \in DOMAIN Null
  BY DEF Null
<1> QED
  BY <1>1, <1>2

\* The cap holds whatever is pushed.
LEMMA PushKeepsTheLimit ==
  ASSUME NEW D, NEW s \in Seq(D), NEW d \in D
  PROVE  PushPast(s, d) \in Seq(D) /\ Len(PushPast(s, d)) <= HISTORY_LIMIT
<1> DEFINE grown == Append(s, d)
           over  == Len(grown) - HISTORY_LIMIT
<1>1. grown \in Seq(D) /\ Len(grown) = Len(s) + 1 /\ Len(s) \in Nat /\ HISTORY_LIMIT \in Nat
  BY AppendProperties, LenProperties, LimitAssumption
<1>2. CASE over > 0
  <2>1. /\ SubSeq(grown, over + 1, Len(grown)) \in Seq(D)
        /\ Len(SubSeq(grown, over + 1, Len(grown))) = HISTORY_LIMIT
    BY <1>1, <1>2, SubSeqProperties, LimitAssumption
  <2> QED
    BY <1>1, <1>2, <2>1 DEF PushPast
<1>3. CASE ~(over > 0)
  BY <1>1, <1>3 DEF PushPast
<1> QED
  BY <1>2, <1>3

\* Cutting old entries off and adding one commute.
LEMMA CutThenAppend ==
  ASSUME NEW D, NEW s \in Seq(D), NEW x \in D, NEW m \in 1..Len(s) + 1
  PROVE  Append(SubSeq(s, m, Len(s)), x) = SubSeq(Append(s, x), m, Len(s) + 1)
<1> DEFINE n     == Len(s)
           cut   == SubSeq(s, m, Len(s))
           whole == Append(s, x)
           tail  == SubSeq(whole, m, Len(s) + 1)
           grown == Append(cut, x)
<1>1. n \in Nat /\ m \in 1..n + 1
  BY LenProperties
<1>2. /\ whole \in Seq(D) /\ Len(whole) = n + 1 /\ whole[n + 1] = x
      /\ \A i \in 1..n : whole[i] = s[i]
  BY AppendProperties
<1>3. /\ cut \in Seq(D) /\ Len(cut) = n - m + 1
      /\ \A i \in 1..n - m + 1 : cut[i] = s[m + i - 1]
  <2>1. \A i \in m..n : s[i] \in D
    BY <1>1, ElementOfSeq
  <2> QED
    BY <1>1, <2>1, SubSeqProperties
<1> HIDE DEF cut
<1>4. /\ grown \in Seq(D) /\ Len(grown) = Len(cut) + 1 /\ grown[Len(cut) + 1] = x
      /\ \A i \in 1..Len(cut) : grown[i] = cut[i]
  BY <1>3, AppendProperties
<1> HIDE DEF whole
<1>5. /\ tail \in Seq(D) /\ Len(tail) = n - m + 2
      /\ \A i \in 1..n - m + 2 : tail[i] = whole[m + i - 1]
  <2>1. \A i \in m..n + 1 : whole[i] \in D
    BY <1>1, <1>2, ElementOfSeq
  <2> QED
    BY <1>1, <2>1, SubSeqProperties
<1> HIDE DEF grown, tail, n
<1>6. ASSUME NEW i \in 1..Len(grown)
      PROVE  grown[i] = tail[i]
  <2>1. CASE i <= n - m + 1
    <3>1. i \in 1..n - m + 1 /\ i \in 1..n - m + 2 /\ m + i - 1 \in 1..n
      BY <1>1, <1>3, <1>4, <2>1
    <3>2. grown[i] = s[m + i - 1]
      BY <1>3, <1>4, <3>1
    <3>3. tail[i] = s[m + i - 1]
      BY <1>2, <1>5, <3>1
    <3> QED
      BY <3>2, <3>3
  <2>2. CASE i = n - m + 2
    <3>1. grown[i] = x
      BY <1>1, <1>3, <1>4, <2>2
    <3>2. m + i - 1 = n + 1 /\ i \in 1..n - m + 2
      BY <1>1, <2>2
    <3> QED
      BY <1>2, <1>5, <3>1, <3>2
  <2> QED
    BY <1>1, <1>3, <1>4, <2>1, <2>2
<1>7. Len(grown) = Len(tail)
  BY <1>1, <1>3, <1>4, <1>5
<1>8. grown = tail
  BY <1>4, <1>5, <1>6, <1>7, SeqEqual
<1> QED
  BY <1>8 DEF grown, tail, cut, whole, n

\* What pushPast keeps below the present is what the timeline keeps.
LEMMA PushIsRecent ==
  ASSUME NEW D, NEW s \in Seq(D), NEW b \in D, NEW x \in D
  PROVE  Append(PushPast(s, b), x) = Line!Recent(Append(Append(s, b), x))
<1> DEFINE grown == Append(s, b)
           whole == Append(grown, x)
<1>1. HISTORY_LIMIT \in Nat /\ grown \in Seq(D) /\ Len(grown) \in Nat
  BY AppendProperties, LenProperties, LimitAssumption
<1> HIDE DEF grown
<1>2. whole \in Seq(D) /\ Len(whole) = Len(grown) + 1
  BY <1>1, AppendProperties
<1>3. CASE Len(grown) > HISTORY_LIMIT
  <2> DEFINE m == Len(grown) - HISTORY_LIMIT + 1
  <2>1. PushPast(s, b) = SubSeq(grown, m, Len(grown))
    BY <1>1, <1>3 DEF PushPast, grown
  <2>2. Len(whole) > HISTORY_LIMIT + 1 /\ Len(whole) - HISTORY_LIMIT = m
        /\ m \in 1..Len(grown) + 1
    BY <1>1, <1>2, <1>3
  <2>3. Line!Recent(whole) = SubSeq(whole, m, Len(grown) + 1)
    BY <1>2, <2>2 DEF Line!Recent
  <2>4. Append(SubSeq(grown, m, Len(grown)), x) = SubSeq(whole, m, Len(grown) + 1)
    <3> HIDE DEF m
    <3> QED
      BY <1>1, <2>2, CutThenAppend
  <2> QED
    BY <2>1, <2>3, <2>4 DEF grown
<1>4. CASE ~(Len(grown) > HISTORY_LIMIT)
  <2>1. PushPast(s, b) = grown
    BY <1>1, <1>4 DEF PushPast, grown
  <2>2. Line!Recent(whole) = SubSeq(whole, 1, Len(whole))
    <3>1. ~(Len(whole) > HISTORY_LIMIT + 1)
      BY <1>1, <1>2, <1>4
    <3> QED
      BY <3>1 DEF Line!Recent
  <2>3. SubSeq(whole, 1, Len(whole)) = whole
    BY <1>2, SubSeqFull
  <2> QED
    BY <2>1, <2>2, <2>3 DEF grown
<1> QED
  BY <1>3, <1>4

-----------------------------------------------------------------------------
(* The line the stacks make. *)

LEMMA ReverseShape ==
  ASSUME NEW D, NEW f \in Seq(D)
  PROVE  /\ Reverse(f) \in Seq(D) /\ Len(Reverse(f)) = Len(f)
         /\ \A i \in 1..Len(f) : Reverse(f)[i] = f[Len(f) - i + 1]
<1>1. Len(f) \in Nat
  BY LenProperties
<1>2. Reverse(f) = [i \in 1..Len(f) |-> f[(Len(f) - i) + 1]]
  BY DEF Reverse
<1>3. \A i \in 1..Len(f) : f[(Len(f) - i) + 1] \in D
  BY <1>1, ElementOfSeq
<1> QED
  BY <1>1, <1>2, <1>3, IsASeq

LEMMA ReverseOfAppend ==
  ASSUME NEW D, NEW f \in Seq(D), NEW d \in D
  PROVE  Reverse(Append(f, d)) = <<d>> \o Reverse(f)
<1> DEFINE g == Append(f, d)
           r == Reverse(f)
           a == Reverse(g)
           b == <<d>> \o r
<1>1. Len(f) \in Nat
  BY LenProperties
<1>2. /\ g \in Seq(D) /\ Len(g) = Len(f) + 1 /\ g[Len(f) + 1] = d
      /\ \A i \in 1..Len(f) : g[i] = f[i]
  BY AppendProperties
<1>3. /\ r \in Seq(D) /\ Len(r) = Len(f)
      /\ \A i \in 1..Len(f) : r[i] = f[Len(f) - i + 1]
  BY ReverseShape
<1> HIDE DEF g, r
<1>4. /\ a \in Seq(D) /\ Len(a) = Len(f) + 1
      /\ \A i \in 1..Len(f) + 1 : a[i] = g[Len(f) + 1 - i + 1]
  BY <1>2, ReverseShape
<1>5. /\ b \in Seq(D) /\ Len(b) = Len(f) + 1 /\ b[1] = d
      /\ \A i \in 2..Len(f) + 1 : b[i] = r[i - 1]
  <2> DEFINE one == <<d>>
  <2>1. one \in Seq(D) /\ Len(one) = 1 /\ one[1] = d
    OBVIOUS
  <2> HIDE DEF one
  <2>2. /\ one \o r \in Seq(D) /\ Len(one \o r) = Len(one) + Len(r)
        /\ \A i \in 1..Len(one) + Len(r) :
             (one \o r)[i] = IF i <= Len(one) THEN one[i] ELSE r[i - Len(one)]
    <3>1. one \in Seq(D) /\ r \in Seq(D)
      BY <1>3, <2>1
    <3> QED
      BY <3>1, ConcatProperties
  <2>3. b = one \o r
    BY DEF one
  <2> HIDE DEF b
  <2> QED
    BY <1>1, <1>3, <2>1, <2>2, <2>3
<1> HIDE DEF a, b
<1>6. ASSUME NEW i \in 1..Len(f) + 1
      PROVE  a[i] = b[i]
  <2>1. CASE i = 1
    <3>1. Len(f) + 1 - i + 1 = Len(f) + 1
      BY <1>1, <2>1
    <3> QED
      BY <1>1, <1>2, <1>4, <1>5, <2>1, <3>1
  <2>2. CASE i > 1
    <3>1. /\ i \in 2..Len(f) + 1 /\ i - 1 \in 1..Len(f)
          /\ Len(f) - (i - 1) + 1 = Len(f) + 1 - i + 1
          /\ Len(f) + 1 - i + 1 \in 1..Len(f)
      BY <1>1, <2>2
    <3>2. b[i] = f[Len(f) + 1 - i + 1]
      BY <1>3, <1>5, <3>1
    <3>3. a[i] = f[Len(f) + 1 - i + 1]
      BY <1>2, <1>4, <3>1
    <3> QED
      BY <3>2, <3>3
  <2> QED
    BY <1>1, <2>1, <2>2
<1>7. a = b
  BY <1>4, <1>5, <1>6, SeqEqual
<1> QED
  BY <1>7 DEF a, b, g, r

\* The present stands behind the undo stack, the undone in front of it.
LEMMA LineShape ==
  ASSUME NEW D, NEW p \in Seq(D), NEW d \in D, NEW f \in Seq(D)
  PROVE  /\ Lay(p, d, f) = Append(p, d) \o Reverse(f)
         /\ Lay(p, d, f) \in Seq(D)
         /\ Len(Lay(p, d, f)) = Len(p) + 1 + Len(f)
         /\ Lay(p, d, f)[Len(p) + 1] = d
         /\ SubSeq(Lay(p, d, f), 1, Len(p) + 1) = Append(p, d)
<1> DEFINE q == Append(p, d)
           r == Reverse(f)
<1>1. Len(p) \in Nat /\ Len(f) \in Nat
  BY LenProperties
<1>2. q \in Seq(D) /\ Len(q) = Len(p) + 1 /\ q[Len(p) + 1] = d
  BY AppendProperties
<1>3. r \in Seq(D) /\ Len(r) = Len(f)
  BY ReverseShape
<1>4. Lay(p, d, f) = q \o r
  BY AppendIsConcat DEF Lay
<1> HIDE DEF q, r
<1>5. /\ q \o r \in Seq(D) /\ Len(q \o r) = Len(q) + Len(r)
      /\ \A i \in 1..Len(q) + Len(r) : (q \o r)[i] = IF i <= Len(q) THEN q[i] ELSE r[i - Len(q)]
  <2>1. q \in Seq(D) /\ r \in Seq(D)
    BY <1>2, <1>3
  <2> QED
    BY <2>1, ConcatProperties
<1>6. (q \o r)[Len(p) + 1] = d
  BY <1>1, <1>2, <1>3, <1>5
<1>7. SubSeq(q \o r, 1, Len(p) + 1) = q
  <2>1. 1 \in 1..Len(q) /\ Len(q) \in 1..Len(q)
    BY <1>1, <1>2
  <2>2. SubSeq(q \o r, 1, Len(q)) = SubSeq(q, 1, Len(q))
    BY <1>2, <1>3, <2>1, SubSeqOfConcat1
  <2> QED
    BY <1>2, <2>2, SubSeqFull
<1> QED
  BY <1>1, <1>2, <1>3, <1>4, <1>5, <1>6, <1>7 DEF q, r

\* Moving an entry from one stack to the other leaves the line as it was.
LEMMA SameLine ==
  ASSUME NEW D, NEW p \in Seq(D), NEW e \in D, NEW d \in D, NEW f \in Seq(D)
  PROVE  Lay(p, e, Append(f, d)) = Lay(Append(p, e), d, f)
<1> DEFINE q == Append(p, e)
           r == Reverse(f)
           one == <<d>>
<1>1. q \in Seq(D) /\ r \in Seq(D) /\ one \in Seq(D) /\ Append(f, d) \in Seq(D)
  BY AppendProperties, ReverseShape
<1>2. Lay(p, e, Append(f, d)) = q \o (one \o r)
  <2>1. Lay(p, e, Append(f, d)) = q \o Reverse(Append(f, d))
    BY AppendIsConcat DEF Lay
  <2> QED
    BY <2>1, ReverseOfAppend
<1>3. Lay(q, d, f) = (q \o one) \o r
  BY DEF Lay
<1> HIDE DEF q, r, one
<1>4. (q \o one) \o r = q \o (one \o r)
  BY <1>1, ConcatAssociative
<1> QED
  BY <1>2, <1>3, <1>4 DEF q

LEMMA FrontAndLast ==
  ASSUME NEW D, NEW s \in Seq(D), s # <<>>
  PROVE  /\ Front(s) \in Seq(D) /\ Len(Front(s)) = Len(s) - 1
         /\ Last(s) \in D /\ s = Append(Front(s), Last(s))
<1> DEFINE n == Len(s)
           fr == SubSeq(s, 1, n - 1)
<1>1. n \in Nat \ {0}
  BY EmptySeq
<1>2. \A i \in 1..n : s[i] \in D
  BY ElementOfSeq
<1>3. /\ fr \in Seq(D) /\ Len(fr) = n - 1
      /\ \A i \in 1..n - 1 : fr[i] = s[i]
  <2>1. 1 \in Int /\ n - 1 \in Int /\ \A i \in 1..n - 1 : s[i] \in D
    BY <1>1, <1>2
  <2>2. /\ fr \in Seq(D) /\ Len(fr) = IF 1 <= n - 1 THEN (n - 1) - 1 + 1 ELSE 0
        /\ \A i \in 1..(n - 1) - 1 + 1 : fr[i] = s[1 + i - 1]
    <3> HIDE DEF n
    <3>1. n - 1 \in Int
      BY <1>1
    <3> QED
      BY <2>1, <3>1, SubSeqProperties
  <2> HIDE DEF fr, n
  <2>3. (n - 1) - 1 + 1 = n - 1 /\ \A i \in 1..n - 1 : 1 + i - 1 = i
    BY <1>1
  <2>4. Len(fr) = n - 1
    BY <1>1, <2>2
  <2>5. \A i \in 1..n - 1 : fr[i] = s[i]
    BY <1>1, <2>2, <2>3
  <2> QED
    BY <2>2, <2>4, <2>5
<1>4. Front(s) = fr /\ Last(s) = s[n] /\ s[n] \in D
  BY <1>1, <1>2 DEF Front, Last
<1> HIDE DEF fr
<1>5. /\ Append(fr, s[n]) \in Seq(D) /\ Len(Append(fr, s[n])) = n
      /\ Append(fr, s[n])[n] = s[n]
      /\ \A i \in 1..n - 1 : Append(fr, s[n])[i] = fr[i]
  <2>1. Len(fr) + 1 = n
    BY <1>1, <1>3
  <2> QED
    BY <1>3, <1>4, <2>1, AppendProperties
<1>6. \A i \in 1..n : s[i] = Append(fr, s[n])[i]
  BY <1>1, <1>3, <1>5
<1>7. s = Append(fr, s[n])
  BY <1>5, <1>6, SeqEqual
<1> QED
  BY <1>3, <1>4, <1>7

-----------------------------------------------------------------------------
(* The limit. *)

Bounded == TypeOK /\ StacksShareTheLimit

LEMMA InitBounded == HistoryInit => Bounded
<1> SUFFICES ASSUME HistoryInit PROVE Bounded
  OBVIOUS
<1>1. <<>> \in Seq(Documents) /\ Len(<<>>) = 0
  BY EmptySeq
<1>2. past \in Seq(Documents) /\ future \in Seq(Documents)
  BY <1>1 DEF HistoryInit
<1>3. TypeOK
  BY <1>2 DEF HistoryInit, TypeOK
<1>4. StacksShareTheLimit
  <2>1. Len(past) = 0 /\ Len(future) = 0
    BY <1>1 DEF HistoryInit
  <2> QED
    BY <2>1, LimitAssumption DEF StacksShareTheLimit
<1> QED
  BY <1>3, <1>4 DEF Bounded

\* An entry pushed on a stack of documents, with nothing left to redo.
LEMMA PushBounded ==
  ASSUME NEW s \in Seq(Documents), NEW d \in Documents
  PROVE  /\ PushPast(s, d) \in Seq(Documents)
         /\ <<>> \in Seq(Documents)
         /\ Len(PushPast(s, d)) + Len(<<>>) <= HISTORY_LIMIT
<1>1. /\ PushPast(s, d) \in Seq(Documents) /\ Len(PushPast(s, d)) <= HISTORY_LIMIT
      /\ Len(PushPast(s, d)) \in Nat
  BY PushKeepsTheLimit, LenProperties
<1>2. <<>> \in Seq(Documents) /\ Len(<<>>) = 0
  BY EmptySeq
<1> HIDE DEF PushPast
<1> QED
  BY <1>1, <1>2, LimitAssumption

LEMMA CommitBounded == Bounded /\ Commit => 
  /\ past' \in Seq(Documents) /\ future' \in Seq(Documents)
  /\ StacksShareTheLimit' /\ pendingBaseline' = Null
  /\ dirty' \in BOOLEAN
<1> SUFFICES ASSUME Bounded, Commit
             PROVE  /\ past' \in Seq(Documents) /\ future' \in Seq(Documents)
                    /\ StacksShareTheLimit' /\ pendingBaseline' = Null
                    /\ dirty' \in BOOLEAN
  OBVIOUS
<1>1. CASE pendingBaseline = Null \/ pendingBaseline = doc
  BY <1>1 DEF Bounded, TypeOK, StacksShareTheLimit, Commit
<1>2. CASE ~(pendingBaseline = Null \/ pendingBaseline = doc)
  <2>1. pendingBaseline \in Documents /\ past \in Seq(Documents)
    BY <1>2 DEF Bounded, TypeOK
  <2>2. past' = PushPast(past, pendingBaseline) /\ future' = <<>> /\ dirty' = TRUE
    BY <1>2 DEF Commit
  <2>3. pendingBaseline' = Null
    BY DEF Commit
  <2> QED
    BY <2>1, <2>2, <2>3, PushBounded DEF StacksShareTheLimit
<1> QED
  BY <1>1, <1>2

LEMMA StepBounded == Bounded /\ [HistoryNext]_historyVars => Bounded'
<1> SUFFICES ASSUME Bounded, [HistoryNext]_historyVars PROVE Bounded'
  OBVIOUS
<1> USE DEF Bounded
<1>t. /\ doc \in Documents /\ file \in Documents
      /\ past \in Seq(Documents) /\ future \in Seq(Documents)
      /\ pendingBaseline \in Documents \cup {Null} /\ dirty \in BOOLEAN /\ aside \in BOOLEAN
      /\ gesture \in {"none", "drag", "inspector", "code"}
      /\ Len(past) + Len(future) <= HISTORY_LIMIT
      /\ Len(past) \in Nat /\ Len(future) \in Nat
  BY LenProperties DEF TypeOK, StacksShareTheLimit
<1>e. <<>> \in Seq(Documents) /\ Len(<<>>) = 0
  BY EmptySeq
<1>l. \A v \in Values : [doc EXCEPT !.layout = v] \in Documents /\ [doc EXCEPT !.text = v] \in Documents
  BY <1>t DEF Documents
<1>1. CASE Edit
  <2>1. doc' \in Documents /\ past' = PushPast(past, doc) /\ future' = <<>> /\ dirty' = TRUE
        /\ UNCHANGED <<pendingBaseline, gesture, file, aside>>
    BY <1>1 DEF Edit, Mutate
  <2> QED
    BY <1>t, <2>1, PushBounded DEF TypeOK, StacksShareTheLimit
<1>2. CASE Undo
  <2>1. /\ Last(past) \in Documents /\ Front(past) \in Seq(Documents)
        /\ Len(Front(past)) = Len(past) - 1
    BY <1>2, <1>t, FrontAndLast DEF Undo
  <2>2. Append(future, doc) \in Seq(Documents) /\ Len(Append(future, doc)) = Len(future) + 1
    BY <1>t, AppendProperties
  <2>3. /\ doc' = Last(past) /\ past' = Front(past) /\ future' = Append(future, doc)
        /\ pendingBaseline' = Null /\ dirty' = TRUE /\ UNCHANGED <<gesture, file, aside>>
    BY <1>2 DEF Undo
  <2>4. TypeOK'
    BY <1>t, <2>1, <2>2, <2>3 DEF TypeOK
  <2>5. StacksShareTheLimit'
    BY <1>t, <2>1, <2>2, <2>3, LimitAssumption DEF StacksShareTheLimit
  <2> QED
    BY <2>4, <2>5
<1>3. CASE Redo
  <2>1. /\ Last(future) \in Documents /\ Front(future) \in Seq(Documents)
        /\ Len(Front(future)) = Len(future) - 1
    BY <1>3, <1>t, FrontAndLast DEF Redo
  <2>2. Append(past, doc) \in Seq(Documents) /\ Len(Append(past, doc)) = Len(past) + 1
    BY <1>t, AppendProperties
  <2>3. /\ doc' = Last(future) /\ past' = Append(past, doc) /\ future' = Front(future)
        /\ pendingBaseline' = Null /\ dirty' = TRUE /\ UNCHANGED <<gesture, file, aside>>
    BY <1>3 DEF Redo
  <2>4. TypeOK'
    BY <1>t, <2>1, <2>2, <2>3 DEF TypeOK
  <2>5. StacksShareTheLimit'
    BY <1>t, <2>1, <2>2, <2>3, LimitAssumption DEF StacksShareTheLimit
  <2> QED
    BY <2>4, <2>5
<1>4. CASE MarkSaved
  BY <1>4, <1>t DEF MarkSaved, stacks, TypeOK, StacksShareTheLimit
<1>5. CASE LoadProject
  <2>1. doc' \in Documents /\ file' \in Documents /\ past' = <<>> /\ future' = <<>>
        /\ pendingBaseline' = Null /\ dirty' = FALSE /\ gesture' \in {"none", "drag"} /\ aside' = FALSE
    BY <1>5 DEF LoadProject
  <2>2. past' \in Seq(Documents) /\ future' \in Seq(Documents)
    BY <1>e, <2>1
  <2>3. Len(past') = 0 /\ Len(future') = 0
    BY <1>e, <2>1
  <2>4. TypeOK'
    BY <2>1, <2>2 DEF TypeOK
  <2>5. StacksShareTheLimit'
    BY <2>3, LimitAssumption DEF StacksShareTheLimit
  <2> QED
    BY <2>4, <2>5
<1>6. CASE DragStart
  BY <1>6, <1>t DEF DragStart, BeginInteraction, stacks, TypeOK, StacksShareTheLimit
<1>7. CASE ApplyNodeChanges
  <2>1. doc' \in Documents
    BY <1>7, <1>l DEF ApplyNodeChanges
  <2>2. aside' \in BOOLEAN
    BY <1>7 DEF ApplyNodeChanges
  <2> QED
    BY <1>7, <1>t, <2>1, <2>2 DEF ApplyNodeChanges, stacks, TypeOK, StacksShareTheLimit
<1>8. CASE DragStop
  BY <1>8, <1>t, CommitBounded DEF DragStop, TypeOK
<1>9. ASSUME NEW f \in {"inspector", "code"}, Type(f)
      PROVE  Bounded'
  <2>1. doc' \in Documents
    BY <1>9, <1>l DEF Type
  <2>2. pendingBaseline' \in Documents \cup {Null}
    BY <1>9, <1>t DEF Type, BeginInteraction
  <2> QED
    BY <1>9, <1>t, <2>1, <2>2 DEF Type, stacks, TypeOK, StacksShareTheLimit
<1>10. CASE CloseField
  BY <1>10, <1>t, CommitBounded DEF CloseField, TypeOK
<1>11. CASE InspectorCommit
  <2> DEFINE changed == pendingBaseline # Null /\ pendingBaseline # doc
             settled == IF changed THEN PushPast(past, pendingBaseline) ELSE past
  <2>1. /\ doc' \in Documents
        /\ past' = IF doc' = doc THEN settled ELSE PushPast(settled, doc)
        /\ future' = IF changed \/ doc' # doc THEN <<>> ELSE future
        /\ dirty' = (dirty \/ changed \/ doc' # doc)
        /\ pendingBaseline' = Null /\ gesture' = "none" /\ UNCHANGED <<file, aside>>
    <3>1. PICK v \in Values :
            /\ doc' = [doc EXCEPT !.text = v]
            /\ past' = IF doc' = doc THEN settled ELSE PushPast(settled, doc)
            /\ future' = IF changed \/ doc' # doc THEN <<>> ELSE future
            /\ dirty' = (dirty \/ changed \/ doc' # doc)
      BY <1>11 DEF InspectorCommit
    <3>2. doc' \in Documents
      BY <1>l, <3>1
    <3> QED
      BY <1>11, <3>1, <3>2 DEF InspectorCommit
  <2>2. settled \in Seq(Documents) /\ (changed => Len(settled) + Len(<<>>) <= HISTORY_LIMIT)
    <3>1. CASE changed
      BY <1>t, <3>1, PushBounded
    <3>2. CASE ~changed
      BY <1>t, <3>2
    <3> QED
      BY <3>1, <3>2
  <2> HIDE DEF settled
  <2>3. past' \in Seq(Documents) /\ future' \in Seq(Documents)
        /\ Len(past') + Len(future') <= HISTORY_LIMIT
    <3>1. CASE doc' # doc
      BY <1>t, <2>1, <2>2, <3>1, PushBounded
    <3>2. CASE doc' = doc /\ changed
      BY <1>e, <2>1, <2>2, <3>2
    <3>3. CASE doc' = doc /\ ~changed
      BY <1>t, <2>1, <3>3 DEF settled
    <3> QED
      BY <3>1, <3>2, <3>3
  <2> QED
    BY <1>t, <2>1, <2>3 DEF TypeOK, StacksShareTheLimit
<1>12. CASE UNCHANGED historyVars
  BY <1>12 DEF historyVars, TypeOK, StacksShareTheLimit
<1> QED
  BY <1>1, <1>2, <1>3, <1>4, <1>5, <1>6, <1>7, <1>8, <1>9, <1>10, <1>11, <1>12 DEF HistoryNext

\* redo pushes past the cap pushPast applies, yet undoing at the limit and
\* redoing drops no entry (documentStore.ts, undo and redo).
THEOREM LimitIsShared == HistorySpec => []StacksShareTheLimit
<1>1. Bounded => StacksShareTheLimit
  BY DEF Bounded
<1> QED
  BY InitBounded, StepBounded, <1>1, PTL DEF HistorySpec

-----------------------------------------------------------------------------
(* The baseline and the unsaved mark.  Work that left the document clean   *)
(* began on the saved one, so that ending where it began leaves that.      *)

CleanWorkBeganSaved == ~dirty /\ ~aside => pendingBaseline \in {Null, file}

Accounted == TypeOK /\ BaselineBelongsToAGesture /\ CleanIsAsSaved /\ CleanWorkBeganSaved

\* A commit leaves no baseline, and a clean document is the saved one.
LEMMA CommitAccounted ==
  ASSUME Accounted, Commit, doc' = doc, file' = file, aside' = aside, gesture' = "none", TypeOK'
  PROVE  Accounted'
<1>1. pendingBaseline' = Null
  BY DEF Commit
<1>2. CASE pendingBaseline = Null \/ pendingBaseline = doc
  <2>1. dirty' = dirty
    BY <1>2 DEF Commit
  <2>2. file # Null
    BY NullIsNoDocument DEF Accounted, TypeOK
  <2>3. ~dirty => doc.text = file.text /\ (doc # file => aside)
    BY <1>2, <2>2 DEF Accounted, CleanIsAsSaved
  <2> QED
    BY <1>1, <2>1, <2>3 DEF Accounted, BaselineBelongsToAGesture, CleanIsAsSaved, CleanWorkBeganSaved
<1>3. CASE ~(pendingBaseline = Null \/ pendingBaseline = doc)
  <2>1. dirty' = TRUE
    BY <1>3 DEF Commit
  <2> QED
    BY <1>1, <2>1 DEF Accounted, BaselineBelongsToAGesture, CleanIsAsSaved, CleanWorkBeganSaved
<1> QED
  BY <1>2, <1>3

LEMMA StepAccounted ==
  ASSUME Bounded, Accounted, [HistoryNext]_historyVars
  PROVE  Accounted'
<1>t. TypeOK'
  BY StepBounded DEF Bounded
<1>n. \A d \in Documents : d # Null
  BY NullIsNoDocument
<1>d. doc \in Documents /\ file \in Documents
  BY DEF Accounted, TypeOK
<1> USE DEF BaselineBelongsToAGesture, CleanIsAsSaved, CleanWorkBeganSaved
<1>1. CASE Edit
  BY <1>1, <1>t DEF Edit, Mutate, Accounted
<1>2. CASE Undo
  BY <1>2, <1>t DEF Undo, OutsideFields, Accounted
<1>3. CASE Redo
  BY <1>3, <1>t DEF Redo, OutsideFields, Accounted
<1>4. CASE MarkSaved
  BY <1>4, <1>t DEF MarkSaved, Accounted
<1>5. CASE LoadProject
  <2>1. doc' = file' /\ pendingBaseline' = Null /\ gesture' \in {"none", "drag"}
    BY <1>5 DEF LoadProject
  <2> QED
    BY <1>t, <2>1 DEF Accounted
<1>6. CASE DragStart
  <2>1. /\ gesture = "none" /\ gesture' = "drag" /\ pendingBaseline = Null
        /\ doc' = doc /\ file' = file /\ dirty' = dirty /\ aside' = aside
    BY <1>6 DEF DragStart, Accounted
  <2>2. pendingBaseline' = doc
    BY <1>6, <2>1 DEF DragStart, BeginInteraction
  <2>3. ~dirty /\ ~aside => doc = file
    BY <1>n, <1>d, <2>1 DEF Accounted
  <2> QED
    BY <1>t, <1>n, <1>d, <2>1, <2>2, <2>3 DEF Accounted
<1>7. CASE ApplyNodeChanges
  <2>1. /\ aside' = (aside \/ (pendingBaseline = Null /\ doc' # doc)) /\ doc'.text = doc.text
        /\ UNCHANGED <<stacks, pendingBaseline, dirty, gesture, file>>
    BY <1>7, <1>d DEF ApplyNodeChanges, Documents
  <2>2. ~dirty /\ ~aside' => pendingBaseline \in {Null, file}
    BY <2>1 DEF Accounted
  <2>3. ~dirty => doc'.text = file.text
    BY <2>1 DEF Accounted
  <2>4. ~dirty /\ doc' # file /\ ~aside' => pendingBaseline = file
    BY <1>n, <1>d, <2>1, <2>2 DEF Accounted
  <2> QED
    BY <1>t, <2>1, <2>2, <2>3, <2>4 DEF Accounted
<1>8. CASE DragStop
  BY <1>8, <1>t, CommitAccounted DEF DragStop
<1>9. ASSUME NEW f \in {"inspector", "code"}, Type(f)
      PROVE  Accounted'
  <2>1. gesture' # "none" /\ dirty' = TRUE
    BY <1>9 DEF Type
  <2>2. pendingBaseline' # Null
    BY <1>9, <1>n, <1>d DEF Type, BeginInteraction, Accounted
  <2> QED
    BY <1>t, <2>1, <2>2 DEF Accounted
<1>10. CASE CloseField
  BY <1>10, <1>t, CommitAccounted DEF CloseField
<1>11. CASE InspectorCommit
  <2>1. /\ gesture = "inspector" /\ gesture' = "none" /\ pendingBaseline' = Null
        /\ file' = file /\ aside' = aside
        /\ ~dirty' => ~dirty /\ doc' = doc /\ pendingBaseline \in {Null, doc}
    BY <1>11 DEF InspectorCommit
  <2>2. ~dirty' => doc'.text = file'.text /\ (doc' # file' => aside')
    BY <1>n, <1>d, <2>1 DEF Accounted
  <2> QED
    BY <1>t, <2>1, <2>2 DEF Accounted
<1>12. CASE UNCHANGED historyVars
  BY <1>12, <1>t DEF historyVars, Accounted
<1> QED
  BY <1>1, <1>2, <1>3, <1>4, <1>5, <1>6, <1>7, <1>8, <1>9, <1>10, <1>11, <1>12 DEF HistoryNext

LEMMA InitAccounted == HistoryInit => Accounted
  BY InitBounded DEF Bounded, HistoryInit, Accounted, BaselineBelongsToAGesture, CleanIsAsSaved,
                     CleanWorkBeganSaved

\* Whatever key, answer or move of the canvas comes in the middle: no field finds its
\* baseline taken, no editor leaves one behind (beginInteraction, commit, undo, redo,
\* loadProject), and what is clean is saved, but for a drag and what happens aside.
THEOREM EditsAreRecorded == HistorySpec => []EditsAreAccountedFor
<1>1. Bounded /\ Accounted /\ [HistoryNext]_historyVars => Accounted'
  BY StepAccounted
<1>2. Accounted => EditsAreAccountedFor
  BY DEF Accounted, EditsAreAccountedFor
<1> QED
  BY InitBounded, StepBounded, InitAccounted, <1>1, <1>2, PTL DEF HistorySpec

-----------------------------------------------------------------------------
(* The timeline. *)

LEMMA FreshLine ==
  ASSUME NEW D, NEW p \in Seq(D), NEW d \in D
  PROVE  Lay(p, d, <<>>) = Append(p, d) /\ Lay(<<>>, d, <<>>) = <<d>>
<1>1. Reverse(<<>>) = <<>>
  <2>1. <<>> \in Seq(D) /\ Len(<<>>) = 0
    BY EmptySeq
  <2>2. Reverse(<<>>) \in Seq(D) /\ Len(Reverse(<<>>)) = 0
    BY <2>1, ReverseShape
  <2> HIDE DEF Reverse
  <2> QED
    BY <2>2, EmptySeq
<1>2. ASSUME NEW q \in Seq(D)
      PROVE  Lay(q, d, <<>>) = Append(q, d)
  <2>1. Append(q, d) \in Seq(D)
    BY AppendProperties
  <2>2. Lay(q, d, <<>>) = Append(q, d) \o <<>>
    BY <1>1, AppendIsConcat DEF Lay
  <2> QED
    BY <2>1, <2>2, ConcatEmptySeq
<1>3. <<>> \in Seq(D) /\ Append(<<>>, d) = <<d>>
  <2>1. <<>> \in Seq(D)
    BY EmptySeq
  <2>2. Append(<<>>, d) = <<>> \o <<d>>
    BY <2>1, AppendIsConcat
  <2>3. <<>> \o <<d>> = <<d>>
    <3>1. <<d>> \in Seq(D)
      OBVIOUS
    <3> QED
      BY <3>1, ConcatEmptySeq
  <2> QED
    BY <2>1, <2>2, <2>3
<1> QED
  BY <1>2, <1>3

\* Where the author stands, and what the present is.
LEMMA PresentShape ==
  ASSUME Accounted
  PROVE  /\ present \in Documents /\ present # Null
         /\ past \in Seq(Documents) /\ future \in Seq(Documents) /\ doc \in Documents
         /\ Len(past) \in Nat /\ Len(future) \in Nat
         /\ pendingBaseline = Null => present = doc
         /\ pendingBaseline # Null => present = pendingBaseline
  BY LenProperties, NullIsNoDocument DEF Accounted, TypeOK, present

\* What stands where on the line.
LEMMA LineElements ==
  ASSUME NEW D, NEW p \in Seq(D), NEW d \in D, NEW f \in Seq(D)
  PROVE  \A i \in 1..Len(p) + 1 + Len(f) :
           Lay(p, d, f)[i] = IF i <= Len(p) THEN p[i]
                             ELSE IF i = Len(p) + 1 THEN d ELSE Reverse(f)[i - Len(p) - 1]
<1> DEFINE q == Append(p, d)
           r == Reverse(f)
<1>1. Len(p) \in Nat /\ Len(f) \in Nat
  BY LenProperties
<1>2. q \in Seq(D) /\ Len(q) = Len(p) + 1 /\ q[Len(p) + 1] = d /\ \A i \in 1..Len(p) : q[i] = p[i]
  BY AppendProperties
<1>3. r \in Seq(D) /\ Len(r) = Len(f)
  BY ReverseShape
<1>4. Lay(p, d, f) = q \o r
  BY LineShape
<1> HIDE DEF q, r
<1>5. \A i \in 1..Len(q) + Len(r) : (q \o r)[i] = IF i <= Len(q) THEN q[i] ELSE r[i - Len(q)]
  <2>1. q \in Seq(D) /\ r \in Seq(D)
    BY <1>2, <1>3
  <2> QED
    BY <2>1, ConcatProperties
<1>6. ASSUME NEW i \in 1..Len(p) + 1 + Len(f)
      PROVE  (q \o r)[i] = IF i <= Len(p) THEN p[i] ELSE IF i = Len(p) + 1 THEN d ELSE r[i - Len(p) - 1]
  <2>1. i \in 1..Len(q) + Len(r) /\ i - Len(q) = i - Len(p) - 1
    BY <1>1, <1>2, <1>3
  <2>2. CASE i <= Len(p)
    BY <1>1, <1>2, <1>5, <2>1, <2>2
  <2>3. CASE i = Len(p) + 1
    BY <1>1, <1>2, <1>5, <2>1, <2>3
  <2>4. CASE i > Len(p) + 1
    BY <1>1, <1>2, <1>5, <2>1, <2>4
  <2>5. i <= Len(p) \/ i = Len(p) + 1 \/ i > Len(p) + 1
    BY <1>1
  <2> QED
    BY <2>2, <2>3, <2>4, <2>5
<1> QED
  BY <1>4, <1>6 DEF r

\* Another present changes the line in one place.
LEMMA PresentReplaced ==
  ASSUME NEW D, NEW p \in Seq(D), NEW d \in D, NEW e \in D, NEW f \in Seq(D)
  PROVE  Lay(p, e, f) = [Lay(p, d, f) EXCEPT ![Len(p) + 1] = e]
<1> DEFINE n  == Len(p) + 1
           l0 == Lay(p, d, f)
           l1 == Lay(p, e, f)
<1>1. Len(p) \in Nat /\ Len(f) \in Nat
  BY LenProperties
<1>2. /\ l0 \in Seq(D) /\ Len(l0) = Len(p) + 1 + Len(f)
      /\ l1 \in Seq(D) /\ Len(l1) = Len(p) + 1 + Len(f)
  BY LineShape
<1>3. /\ \A i \in 1..Len(p) + 1 + Len(f) : l0[i] = IF i <= Len(p) THEN p[i]
                                            ELSE IF i = Len(p) + 1 THEN d ELSE Reverse(f)[i - Len(p) - 1]
      /\ \A i \in 1..Len(p) + 1 + Len(f) : l1[i] = IF i <= Len(p) THEN p[i]
                                            ELSE IF i = Len(p) + 1 THEN e ELSE Reverse(f)[i - Len(p) - 1]
  BY LineElements
<1> HIDE DEF l0, l1
<1>4. /\ l0 = [i \in 1..Len(p) + 1 + Len(f) |-> l0[i]]
      /\ l1 = [i \in 1..Len(p) + 1 + Len(f) |-> l1[i]]
  BY <1>1, <1>2, LenProperties
<1>5. DOMAIN l0 = 1..Len(p) + 1 + Len(f)
  BY <1>4
<1>6. [l0 EXCEPT ![n] = e] = [i \in 1..Len(p) + 1 + Len(f) |-> IF i = n THEN e ELSE l0[i]]
  BY <1>4, <1>5
<1>7. \A i \in 1..Len(p) + 1 + Len(f) : l1[i] = IF i = n THEN e ELSE l0[i]
  BY <1>1, <1>3
<1> QED
  BY <1>4, <1>6, <1>7 DEF l0, l1

\* What is behind the place on the line is the undo stack.
LEMMA BehindThePresent ==
  ASSUME NEW D, NEW p \in Seq(D), NEW d \in D, NEW f \in Seq(D)
  PROVE  SubSeq(Lay(p, d, f), 1, Len(p)) = p
<1> DEFINE l == Lay(p, d, f)
           b == SubSeq(l, 1, Len(p))
<1>1. Len(p) \in Nat /\ Len(f) \in Nat
  BY LenProperties
<1>2. l \in Seq(D) /\ Len(l) = Len(p) + 1 + Len(f) /\ \A i \in 1..Len(p) : l[i] = p[i]
  <2>1. \A i \in 1..Len(p) : i \in 1..Len(p) + 1 + Len(f) /\ i <= Len(p)
    BY <1>1
  <2> QED
    BY <2>1, LineShape, LineElements
<1> HIDE DEF l
<1>3. /\ b \in Seq(D) /\ Len(b) = Len(p)
      /\ \A i \in 1..Len(p) : b[i] = l[i]
  <2>1. \A i \in 1..Len(p) : l[i] \in D
    BY <1>1, <1>2, ElementOfSeq
  <2>2. /\ b \in Seq(D) /\ Len(b) = IF 1 <= Len(p) THEN Len(p) - 1 + 1 ELSE 0
        /\ \A i \in 1..Len(p) - 1 + 1 : b[i] = l[1 + i - 1]
    <3>1. 1 \in Int /\ Len(p) \in Int
      BY <1>1
    <3> QED
      BY <2>1, <3>1, SubSeqProperties
  <2> HIDE DEF b
  <2>3. Len(p) - 1 + 1 = Len(p) /\ \A i \in 1..Len(p) : 1 + i - 1 = i
    BY <1>1
  <2> QED
    BY <1>1, <2>2, <2>3
<1> HIDE DEF b
<1>4. \A i \in 1..Len(p) : b[i] = p[i]
  BY <1>2, <1>3
<1>5. b = p
  BY <1>3, <1>4, SeqEqual
<1> QED
  BY <1>5 DEF b, l

\* One entry pushed, nothing left to redo: the work is settled.
LEMMA PushSettles ==
  ASSUME Accounted, Accounted', pendingBaseline' = Null,
         past' = PushPast(past, present), future' = <<>>,
         pendingBaseline # Null => doc' = doc \/ pendingBaseline = doc
  PROVE  Line!Settle
<1> DEFINE line == Lay(past, present, future)
<1>1. /\ present \in Documents /\ past \in Seq(Documents) /\ future \in Seq(Documents)
      /\ Len(past) \in Nat
  BY PresentShape
<1>2. doc' \in Documents /\ past' \in Seq(Documents) /\ Len(past') \in Nat
  BY LenProperties DEF Accounted, TypeOK
<1>3. present' = doc'
  BY DEF present
<1>4. Lay(past', doc', <<>>) = Append(past', doc')
  BY <1>2, FreshLine
<1>5. Append(past', doc') = Line!Recent(Append(Append(past, present), doc'))
  <2>1. \A b, x \in Documents : Append(PushPast(past, b), x) = Line!Recent(Append(Append(past, b), x))
    BY <1>1, PushIsRecent
  <2> QED
    BY <1>1, <1>2, <2>1
<1>6. SubSeq(line, 1, Len(past) + 1) = Append(past, present) /\ line[Len(past) + 1] = present
  BY <1>1, LineShape
<1>7. Len(past') + 1 = Len(Append(past', doc'))
  BY <1>2, AppendProperties
<1>8. pendingBaseline # Null => doc' = doc \/ doc = line[Len(past) + 1]
  BY <1>6, PresentShape
<1> QED
  BY <1>2, <1>3, <1>4, <1>5, <1>6, <1>7, <1>8 DEF Line!Settle, Lay

\* Two entries pushed: the work is settled and an edit on top of it recorded.
LEMMA TwoPushesSettle ==
  ASSUME Accounted, Accounted', pendingBaseline # Null, pendingBaseline' = Null,
         past' = PushPast(PushPast(past, present), doc), future' = <<>>
  PROVE  Line!SettleThenEdit
<1> DEFINE line == Lay(past, present, future)
           settled == PushPast(past, present)
<1>1. /\ present \in Documents /\ past \in Seq(Documents) /\ future \in Seq(Documents)
      /\ Len(past) \in Nat /\ doc \in Documents
  BY PresentShape
<1>2. doc' \in Documents /\ past' \in Seq(Documents) /\ Len(past') \in Nat
  BY LenProperties DEF Accounted, TypeOK
<1>3. present' = doc'
  BY DEF present
<1>4. Lay(past', doc', <<>>) = Append(past', doc')
  BY <1>2, FreshLine
<1>5. \A s \in Seq(Documents) : \A b, x \in Documents :
        Append(PushPast(s, b), x) = Line!Recent(Append(Append(s, b), x))
  BY PushIsRecent
<1>6. settled \in Seq(Documents)
  BY <1>1, PushKeepsTheLimit
<1>7. Append(past', doc') = Line!Recent(Append(Append(settled, doc), doc'))
  <2> HIDE DEF settled
  <2>1. past' = PushPast(settled, doc)
    BY DEF settled
  <2>2. \A x \in Documents :
          Append(PushPast(settled, doc), x) = Line!Recent(Append(Append(settled, doc), x))
    BY <1>1, <1>5, <1>6
  <2> QED
    BY <1>2, <2>1, <2>2
<1>8. Append(settled, doc) = Line!Recent(Append(Append(past, present), doc))
  BY <1>1, <1>5
<1>9. SubSeq(line, 1, Len(past) + 1) = Append(past, present)
  BY <1>1, LineShape
<1>10. Len(past') + 1 = Len(Append(past', doc'))
  BY <1>2, AppendProperties
<1> HIDE DEF settled
<1> QED
  BY <1>2, <1>3, <1>4, <1>7, <1>8, <1>9, <1>10 DEF Line!SettleThenEdit, Lay

\* An edit in the middle of work.
LEMMA EditSlipsIn ==
  ASSUME Accounted, Accounted', pendingBaseline # Null, pendingBaseline' = pendingBaseline,
         past' = PushPast(past, doc), future' = <<>>
  PROVE  Line!SlipIn
<1> DEFINE line == Lay(past, present, future)
<1>1. /\ present \in Documents /\ past \in Seq(Documents) /\ future \in Seq(Documents)
      /\ Len(past) \in Nat /\ doc \in Documents
  BY PresentShape
<1>2. doc' \in Documents /\ past' \in Seq(Documents) /\ Len(past') \in Nat
  BY LenProperties DEF Accounted, TypeOK
<1>3. present' = present
  BY DEF present
<1>4. Lay(past', present, <<>>) = Append(past', present)
  BY <1>1, <1>2, FreshLine
<1>5. Append(past', present) = Line!Recent(Append(Append(past, doc), present))
  BY <1>1, PushIsRecent
<1>6. line[Len(past) + 1] = present /\ SubSeq(line, 1, Len(past)) = past
  BY <1>1, LineShape, BehindThePresent
<1>7. Len(past') + 1 = Len(Append(past', present))
  BY <1>1, <1>2, AppendProperties
<1>8. (Len(past) + 1) - 1 = Len(past)
  BY <1>1
<1> QED
  BY <1>2, <1>3, <1>4, <1>5, <1>6, <1>7, <1>8 DEF Line!SlipIn, Lay

\* Neither the line nor the place on it moves while the present stays.
LEMMA WorkMovesNothing ==
  ASSUME Accounted, Accounted', present' = present, pendingBaseline' # Null, UNCHANGED stacks
  PROVE  Line!Work
  BY DEF Accounted, TypeOK, stacks, Line!Work

\* Work that ends where it began.
LEMMA WorkIsDropped ==
  ASSUME Accounted, pendingBaseline = doc, pendingBaseline' = Null,
         UNCHANGED <<past, future, doc>>
  PROVE  Line!Drop
<1>1. /\ present \in Documents /\ past \in Seq(Documents) /\ future \in Seq(Documents)
      /\ doc \in Documents /\ doc # Null
  BY PresentShape, NullIsNoDocument
<1>2. present = doc /\ present' = doc
  BY <1>1 DEF present
<1>3. Lay(past, present, future)[Len(past) + 1] = present
  <2>1. \A p \in Seq(Documents), d \in Documents, f \in Seq(Documents) : Lay(p, d, f)[Len(p) + 1] = d
    BY LineShape
  <2> QED
    BY <1>1, <2>1
<1> QED
  BY <1>1, <1>2, <1>3 DEF Line!Drop, Lay

LEMMA CommitIsSettle ==
  ASSUME Accounted, Accounted', Commit, doc' = doc
  PROVE  Line!Settle \/ Line!Drop \/ UNCHANGED Line!vars
<1>1. pendingBaseline' = Null
  BY DEF Commit
<1>2. CASE pendingBaseline = Null
  <2>1. present' = present /\ past' = past /\ future' = future
    BY <1>1, <1>2 DEF Commit, present
  <2> QED
    BY <1>1, <1>2, <2>1 DEF Line!vars
<1>3. CASE pendingBaseline = doc
  <2>1. past' = past /\ future' = future
    BY <1>3 DEF Commit
  <2> QED
    BY <1>1, <1>3, <2>1, WorkIsDropped
<1>4. CASE ~(pendingBaseline = Null \/ pendingBaseline = doc)
  <2>1. past' = PushPast(past, present) /\ future' = <<>>
    BY <1>4, PresentShape DEF Commit
  <2> QED
    BY <1>1, <2>1, PushSettles
<1> QED
  BY <1>2, <1>3, <1>4

\* Work in the middle of an undo or redo takes the place of its entry.
LEMMA WorkReplaces ==
  ASSUME Accounted
  PROVE  /\ Lay(past, doc, future) = [Lay(past, present, future) EXCEPT ![Len(past) + 1] = doc]
         /\ pendingBaseline = Null => Lay(past, doc, future) = Lay(past, present, future)
<1>1. /\ present \in Documents /\ past \in Seq(Documents) /\ future \in Seq(Documents)
      /\ doc \in Documents /\ (pendingBaseline = Null => present = doc)
  BY PresentShape
<1>2. Lay(past, doc, future) = [Lay(past, present, future) EXCEPT ![Len(past) + 1] = doc]
  BY <1>1, PresentReplaced
<1> QED
  BY <1>1, <1>2

LEMMA UndoStepsBack ==
  ASSUME Accounted, Accounted', Undo
  PROVE  Line!Undo \/ Line!Overwrite
<1> DEFINE line == Lay(past, present, future)
           seen == Lay(past, doc, future)
           e == Last(past)
           p == Front(past)
<1>1. /\ present \in Documents /\ past \in Seq(Documents) /\ future \in Seq(Documents)
      /\ Len(past) \in Nat /\ Len(future) \in Nat /\ doc \in Documents
  BY PresentShape
<1>2. /\ past # <<>> /\ doc' = e /\ past' = p /\ future' = Append(future, doc)
      /\ pendingBaseline' = Null
  BY DEF Undo
<1>3. /\ p \in Seq(Documents) /\ e \in Documents /\ Len(p) = Len(past) - 1
      /\ past = Append(p, e)
  BY <1>1, <1>2, FrontAndLast
<1> HIDE DEF e, p
<1>4. Lay(p, e, Append(future, doc)) = seen
  BY <1>1, <1>3, SameLine
<1>5. past[Len(past)] = e
  <2>1. Append(p, e)[Len(p) + 1] = e
    BY <1>3, AppendProperties
  <2>2. Len(p) + 1 = Len(past)
    BY <1>1, <1>3
  <2> QED
    BY <1>3, <2>1, <2>2
<1>6. Len(p) + 1 = (Len(past) + 1) - 1 /\ Len(past) + 1 > 1
      /\ Len(past) \in 1..Len(past) + 1 + Len(future)
  <2>1. Len(past) # 0
    BY <1>1, <1>2, EmptySeq
  <2> QED
    BY <1>1, <1>3, <2>1
<1>7. line[Len(past)] = e
  <2>1. \A i \in 1..Len(past) + 1 + Len(future) :
           line[i] = IF i <= Len(past) THEN past[i]
                     ELSE IF i = Len(past) + 1 THEN present ELSE Reverse(future)[i - Len(past) - 1]
    BY <1>1, LineElements
  <2> HIDE DEF line
  <2> QED
    BY <1>1, <1>5, <1>6, <2>1
<1>8. present' = e
  BY <1>2 DEF present
<1>9. seen = [line EXCEPT ![Len(past) + 1] = doc] /\ (pendingBaseline = Null => seen = line)
  BY WorkReplaces
<1> HIDE DEF line, seen
<1>10. Lay(past, present, future) = line /\ Lay(past', present', future') = seen
  BY <1>2, <1>4, <1>8 DEF line
<1>11. Line!Back
  BY <1>1, <1>2, <1>3, <1>6, <1>7, <1>10 DEF Line!Back, Lay
<1>12. CASE pendingBaseline = Null
  BY <1>9, <1>10, <1>11, <1>12 DEF Line!Undo, Lay
<1>13. CASE pendingBaseline # Null
  BY <1>9, <1>10, <1>11, <1>13 DEF Line!Overwrite, Lay
<1> QED
  BY <1>12, <1>13

LEMMA RedoStepsForward ==
  ASSUME Accounted, Accounted', Redo
  PROVE  Line!Redo \/ Line!Overwrite
<1> DEFINE line == Lay(past, present, future)
           seen == Lay(past, doc, future)
           e == Last(future)
           f == Front(future)
<1>1. /\ present \in Documents /\ past \in Seq(Documents) /\ future \in Seq(Documents)
      /\ Len(past) \in Nat /\ Len(future) \in Nat /\ doc \in Documents
  BY PresentShape
<1>2. /\ future # <<>> /\ doc' = e /\ past' = Append(past, doc) /\ future' = f
      /\ pendingBaseline' = Null
  BY DEF Redo
<1>3. /\ f \in Seq(Documents) /\ e \in Documents /\ future = Append(f, e)
      /\ Len(f) = Len(future) - 1
  BY <1>1, <1>2, FrontAndLast
<1>4. Append(past, doc) \in Seq(Documents) /\ Len(Append(past, doc)) = Len(past) + 1
  BY <1>1, AppendProperties
<1> HIDE DEF e, f
<1>5. Lay(Append(past, doc), e, f) = seen
  <2>1. Lay(past, doc, Append(f, e)) = Lay(Append(past, doc), e, f)
    BY <1>1, <1>3, SameLine
  <2> QED
    BY <1>3, <2>1
<1>6. Len(line) = Len(past) + 1 + Len(future) /\ Len(future) # 0
  BY <1>1, <1>2, LineShape, EmptySeq
<1>7. Reverse(future)[1] = e
  <2>1. \A i \in 1..Len(future) : Reverse(future)[i] = future[Len(future) - i + 1]
    BY <1>1, ReverseShape
  <2>2. 1 \in 1..Len(future) /\ Len(future) - 1 + 1 = Len(f) + 1
    BY <1>1, <1>3, <1>6
  <2>3. future[Len(f) + 1] = e
    BY <1>3, AppendProperties
  <2> QED
    BY <2>1, <2>2, <2>3
<1>8. line[Len(past) + 2] = e
  <2>1. \A i \in 1..Len(past) + 1 + Len(future) :
           line[i] = IF i <= Len(past) THEN past[i]
                     ELSE IF i = Len(past) + 1 THEN present ELSE Reverse(future)[i - Len(past) - 1]
    BY <1>1, LineElements
  <2>2. Len(past) + 2 \in 1..Len(past) + 1 + Len(future) /\ (Len(past) + 2) - Len(past) - 1 = 1
        /\ ~(Len(past) + 2 <= Len(past)) /\ Len(past) + 2 # Len(past) + 1
    BY <1>1, <1>6
  <2> HIDE DEF line
  <2> QED
    BY <1>7, <2>1, <2>2
<1>9. present' = e
  BY <1>2 DEF present
<1>10. seen = [line EXCEPT ![Len(past) + 1] = doc] /\ (pendingBaseline = Null => seen = line)
  BY WorkReplaces
<1> HIDE DEF line, seen
<1>11. Lay(past, present, future) = line /\ Lay(past', present', future') = seen
  BY <1>2, <1>5, <1>9 DEF line
<1>12. Len(past) + 1 < Len(line) /\ Len(past') + 1 = (Len(past) + 1) + 1
       /\ (Len(past) + 1) + 1 = Len(past) + 2
  BY <1>1, <1>2, <1>4, <1>6
<1>13. Line!Forth
  BY <1>1, <1>2, <1>3, <1>8, <1>11, <1>12 DEF Line!Forth, Lay
<1>14. CASE pendingBaseline = Null
  BY <1>10, <1>11, <1>13, <1>14 DEF Line!Redo, Lay
<1>15. CASE pendingBaseline # Null
  BY <1>10, <1>11, <1>13, <1>15 DEF Line!Overwrite, Lay
<1> QED
  BY <1>14, <1>15

LEMMA StepOfTheLine ==
  ASSUME Accounted, Accounted', [HistoryNext]_historyVars
  PROVE  [Line!Next]_(Line!vars)
<1>p. /\ doc \in Documents /\ doc # Null /\ present \in Documents /\ present # Null
      /\ past \in Seq(Documents) /\ future \in Seq(Documents)
      /\ pendingBaseline = Null => present = doc
      /\ pendingBaseline # Null => present = pendingBaseline
      /\ gesture = "none" => pendingBaseline = Null
      /\ gesture \in {"inspector", "code"} => pendingBaseline # Null
  BY PresentShape, NullIsNoDocument DEF Accounted, TypeOK, BaselineBelongsToAGesture
<1> USE DEF Line!Next, Line!Promised
<1>1. CASE Edit
  <2>1. past' = PushPast(past, doc) /\ future' = <<>> /\ pendingBaseline' = pendingBaseline
    BY <1>1 DEF Edit, Mutate
  <2>2. CASE pendingBaseline = Null
    BY <1>p, <2>1, <2>2, PushSettles
  <2>3. CASE pendingBaseline # Null
    BY <2>1, <2>3, EditSlipsIn
  <2> QED
    BY <2>2, <2>3
<1>2. CASE Undo
  BY <1>2, UndoStepsBack
<1>3. CASE Redo
  BY <1>3, RedoStepsForward
<1>4. CASE MarkSaved
  BY <1>4 DEF MarkSaved, stacks, present, Line!vars
<1>5. CASE LoadProject
  <2>1. doc' \in Documents /\ present' = doc' /\ past' = <<>> /\ future' = <<>> /\ pendingBaseline' = Null
    BY <1>5 DEF LoadProject, present
  <2>2. Lay(<<>>, doc', <<>>) = <<doc'>> /\ Len(<<>>) = 0
    BY <2>1, FreshLine, EmptySeq
  <2>3. Lay(past', present', future') = <<doc'>> /\ Len(past') + 1 = 1
    BY <2>1, <2>2
  <2>4. Line!Open
    BY <2>1, <2>3 DEF Line!Open, Lay
  <2> QED
    BY <2>4
<1>6. CASE DragStart
  <2>1. present' = present /\ pendingBaseline' # Null /\ UNCHANGED stacks
    BY <1>6, <1>p DEF DragStart, BeginInteraction, present
  <2> QED
    BY <2>1, WorkMovesNothing
<1>7. CASE ApplyNodeChanges
  <2>1. pendingBaseline' = pendingBaseline /\ UNCHANGED stacks /\ doc' \in Documents
    BY <1>7 DEF ApplyNodeChanges, Accounted, TypeOK
  <2>2. CASE pendingBaseline # Null
    <3>1. present' = present
      BY <2>1, <2>2 DEF present
    <3> QED
      BY <2>1, <2>2, <3>1, WorkMovesNothing
  <2>3. CASE pendingBaseline = Null
    <3>1. present = doc /\ present' = doc' /\ past' = past /\ future' = future
      BY <2>1, <2>3 DEF present, stacks
    <3>2. Lay(past, doc', future) = [Lay(past, doc, future) EXCEPT ![Len(past) + 1] = doc']
      BY <1>p, <2>1, PresentReplaced
    <3>3. Line!Rewrite
      BY <2>1, <2>3, <3>1, <3>2 DEF Line!Rewrite, Lay
    <3> QED
      BY <3>3
  <2> QED
    BY <2>2, <2>3
<1>8. CASE DragStop
  BY <1>8, CommitIsSettle DEF DragStop
<1>9. ASSUME NEW f \in {"inspector", "code"}, Type(f)
      PROVE  [Line!Next]_(Line!vars)
  <2>1. present' = present /\ pendingBaseline' # Null /\ UNCHANGED stacks
    BY <1>9, <1>p DEF Type, BeginInteraction, present
  <2> QED
    BY <2>1, WorkMovesNothing
<1>10. CASE CloseField
  BY <1>10, CommitIsSettle DEF CloseField
<1>11. CASE InspectorCommit
  <2> DEFINE changed == pendingBaseline # Null /\ pendingBaseline # doc
             settled == IF changed THEN PushPast(past, pendingBaseline) ELSE past
  <2>1. /\ past' = IF doc' = doc THEN settled ELSE PushPast(settled, doc)
        /\ future' = IF changed \/ doc' # doc THEN <<>> ELSE future
        /\ pendingBaseline' = Null /\ gesture = "inspector"
    BY <1>11 DEF InspectorCommit
  <2>2. present = pendingBaseline /\ pendingBaseline # Null
    BY <1>p, <2>1
  <2>3. CASE changed /\ doc' # doc
    BY <2>1, <2>2, <2>3, TwoPushesSettle
  <2>4. CASE changed /\ doc' = doc
    BY <2>1, <2>2, <2>4, PushSettles
  <2>5. CASE ~changed /\ doc' # doc
    BY <2>1, <2>2, <2>5, PushSettles
  <2>6. CASE ~changed /\ doc' = doc
    <3>1. UNCHANGED <<past, future, doc>> /\ pendingBaseline = doc
      BY <2>1, <2>2, <2>6
    <3> QED
      BY <2>1, <3>1, WorkIsDropped
  <2> QED
    BY <2>3, <2>4, <2>5, <2>6
<1>12. CASE UNCHANGED historyVars
  BY <1>12 DEF historyVars, present, Line!vars
<1> QED
  BY <1>1, <1>2, <1>3, <1>4, <1>5, <1>6, <1>7, <1>8, <1>9, <1>10, <1>11, <1>12 DEF HistoryNext

LEMMA InitOfTheLine == HistoryInit => Line!Init
<1> SUFFICES ASSUME HistoryInit PROVE Line!Init
  OBVIOUS
<1>1. doc \in Documents /\ present = doc /\ past = <<>> /\ future = <<>> /\ pendingBaseline = Null
  BY DEF HistoryInit, present
<1>2. Lay(<<>>, doc, <<>>) = <<doc>> /\ Len(<<>>) = 0
  BY <1>1, FreshLine, EmptySeq
<1>3. Lay(past, present, future) = <<doc>> /\ Len(past) + 1 = 1
  BY <1>1, <1>2
<1> QED
  BY <1>1, <1>3 DEF Line!Init, Lay

\* Whatever comes in the middle of a drag or of typing, the stacks make one line along
\* which undo and redo move; a drag or a typing burst is one entry of it, an open edit
\* and the discrete one that ends it are two, and no step alters an entry but the one
\* the author stands on (documentStore.ts, the history).
THEOREM HistoryIsATimeline == HistorySpec => ImplementsTimeline
<1>1. Bounded /\ Accounted /\ [HistoryNext]_historyVars => Accounted'
  BY StepAccounted
<1>2. Accounted /\ Accounted' /\ [HistoryNext]_historyVars => [Line!Next]_(Line!vars)
  BY StepOfTheLine
<1> QED
  BY InitBounded, StepBounded, InitAccounted, InitOfTheLine, <1>1, <1>2, PTL
     DEF HistorySpec, ImplementsTimeline, Line!Spec

-----------------------------------------------------------------------------
(* Paths.                                                                   *)

LEMMA PathsDiffer ==
  /\ \A id : ItemPath(id)[1] = "item" /\ ItemPath(id)[2] = id /\ Len(ItemPath(id)) = 2
  /\ \A p : Project(p)[1] = "project" /\ Project(p)[2] = p /\ Len(Project(p)) = 2
  /\ \A id : Len(Temporary(ItemPath(id))) = 3
  /\ \A p : Temporary(Project(p))[1] = "project" /\ Len(Temporary(Project(p))) = 3
  /\ Recents[1] = "recents"
  BY DEF ItemPath, Project, Temporary, Recents

\* Only ItemPath names an item's file.
LEMMA ItemPathsAreItemFiles ==
  /\ \A id : IsItemFile(ItemPath(id)) <=> id \in ItemIds
  /\ \A id : ~IsItemFile(Temporary(ItemPath(id)))
  /\ \A p : ~IsItemFile(Project(p)) /\ ~IsItemFile(Temporary(Project(p)))
  /\ ~IsItemFile(Recents)
  BY PathsDiffer DEF IsItemFile, ValidId

-----------------------------------------------------------------------------
(* Contents of the disk.                                                    *)

Stored(d, id) == ItemPath(id) \in DOMAIN d /\ d[ItemPath(id)].whole

\* What is found as an item's file is that item's.
ItemsOnDisk(d) ==
  \A f \in DOMAIN d : (IsItemFile(f) /\ d[f].whole) =>
    /\ f = ItemPath(f[2])
    /\ \E item : item.id = f[2] /\ d[f] = ItemFile({item})

Holds(d, f, content) == f \in DOMAIN d /\ d[f] = content

\* Two disks have the same at f.
Agree(d, e, f) == (f \in DOMAIN d <=> f \in DOMAIN e) /\ (f \in DOMAIN d => e[f] = d[f])

ShelfOf(d) == [id \in {item.id : item \in ItemsIn(d)} |->
                 CHOOSE item \in ItemsIn(d) : item.id = id]

ShelfWith(d, item) ==
  [id \in DOMAIN ShelfOf(d) \cup {item.id} |-> IF id = item.id THEN item ELSE ShelfOf(d)[id]]
ShelfWithout(d, id) == [j \in DOMAIN ShelfOf(d) \ {id} |-> ShelfOf(d)[j]]

LEMMA ShelfIsOf == OnShelf = ShelfOf(disk) /\ OnShelf' = ShelfOf(disk')
  BY DEF OnShelf, ShelfOf

LEMMA ItemFileIs ==
  ASSUME NEW item
  PROVE  ItemFile({item}).whole = TRUE /\ ItemFile({item}).item = {item}
  BY DEF ItemFile

\* The items listed are those stored, each under its id.
LEMMA ShelfHolds ==
  ASSUME NEW d, ItemsOnDisk(d)
  PROVE  /\ DOMAIN ShelfOf(d) = {id \in ItemIds : Stored(d, id)}
         /\ \A id \in DOMAIN ShelfOf(d) : d[ItemPath(id)] = ItemFile({ShelfOf(d)[id]})
<1> DEFINE L == ItemsIn(d)
<1>1. ASSUME NEW item \in L
      PROVE  /\ item.id \in ItemIds /\ Stored(d, item.id)
             /\ d[ItemPath(item.id)] = ItemFile({item})
  <2>1. PICK f \in DOMAIN d : IsItemFile(f) /\ d[f].whole /\ item \in d[f].item
    BY DEF ItemsIn
  <2>2. f = ItemPath(f[2])  BY <2>1 DEF ItemsOnDisk
  <2>3. PICK i : i.id = f[2] /\ d[f] = ItemFile({i})  BY <2>1 DEF ItemsOnDisk
  <2>4. i = item
    <3>1. d[f].item = {i}  BY <2>3, ItemFileIs
    <3> QED  BY <2>1, <3>1
  <2>5. f[2] \in ItemIds  BY <2>1, <2>2, ItemPathsAreItemFiles
  <2> QED  BY <2>1, <2>2, <2>3, <2>4, <2>5 DEF Stored
<1>2. ASSUME NEW id \in ItemIds, Stored(d, id)
      PROVE  \E item \in L : item.id = id
  <2>1. IsItemFile(ItemPath(id))  BY ItemPathsAreItemFiles
  <2>2. ItemPath(id) \in DOMAIN d /\ d[ItemPath(id)].whole  BY <1>2 DEF Stored
  <2>3. PICK item : item.id = ItemPath(id)[2] /\ d[ItemPath(id)] = ItemFile({item})
    BY <2>1, <2>2 DEF ItemsOnDisk
  <2>4. item.id = id  BY <2>3, PathsDiffer
  <2>5. item \in d[ItemPath(id)].item  BY <2>3, ItemFileIs
  <2>6. item \in L  BY <2>1, <2>2, <2>5 DEF ItemsIn
  <2> QED  BY <2>4, <2>6
<1>3. DOMAIN ShelfOf(d) = {item.id : item \in L}
  BY DEF ShelfOf
<1>4. \A id \in {item.id : item \in L} : ShelfOf(d)[id] \in L /\ ShelfOf(d)[id].id = id
  BY DEF ShelfOf
<1> HIDE DEF L
<1> QED  BY <1>1, <1>2, <1>3, <1>4

\* What is found is stored.
LEMMA ListedAreStored ==
  ASSUME NEW d, ItemsOnDisk(d), NEW item \in ItemsIn(d)
  PROVE  item.id \in ItemIds /\ Stored(d, item.id)
<1>1. PICK f \in DOMAIN d : IsItemFile(f) /\ d[f].whole /\ item \in d[f].item
  BY DEF ItemsIn
<1>2. f = ItemPath(f[2])  BY <1>1 DEF ItemsOnDisk
<1>3. PICK i : i.id = f[2] /\ d[f] = ItemFile({i})  BY <1>1 DEF ItemsOnDisk
<1>4. i = item
  <2>1. d[f].item = {i}  BY <1>3, ItemFileIs
  <2> QED  BY <1>1, <2>1
<1>5. f[2] \in ItemIds  BY <1>1, <1>2, ItemPathsAreItemFiles
<1> QED  BY <1>1, <1>2, <1>3, <1>4, <1>5 DEF Stored

\* The list has no other.
LEMMA ListsWhatIsFound ==
  ASSUME NEW d
  PROVE  ToSet(ListItems(d)) \subseteq ItemsIn(d)
<1> DEFINE before(a, b) == a.name < b.name \/ (a.name = b.name /\ a.id < b.id)
           place(item) == 1 + Cardinality({other \in ItemsIn(d) : before(other, item)})
<1>1. ListItems(d) = [k \in {place(item) : item \in ItemsIn(d)} |->
                        CHOOSE item \in ItemsIn(d) : place(item) = k]
  BY DEF ListItems
<1> HIDE DEF place
<1>2. \A k \in DOMAIN ListItems(d) : ListItems(d)[k] \in ItemsIn(d)
  BY <1>1
<1> QED  BY <1>2 DEF ToSet

LEMMA EmptyList == ToSet(<<>>) = {}
  BY DEF ToSet

\* Where nothing is written the shelf stays.
LEMMA ShelfStays ==
  ASSUME NEW d, NEW e, \A f : IsItemFile(f) => Agree(d, e, f)
  PROVE  /\ ItemsOnDisk(d) => ItemsOnDisk(e)
         /\ ItemsIn(e) = ItemsIn(d) /\ ShelfOf(e) = ShelfOf(d)
<1>1. ItemsOnDisk(d) => ItemsOnDisk(e)
  BY DEF ItemsOnDisk, Agree
<1>2. {f \in DOMAIN e : IsItemFile(f) /\ e[f].whole} = {f \in DOMAIN d : IsItemFile(f) /\ d[f].whole}
  BY DEF Agree
<1>3. \A f \in {f \in DOMAIN d : IsItemFile(f) /\ d[f].whole} : e[f] = d[f]
  BY DEF Agree
<1>4. ItemsIn(e) = ItemsIn(d)
  BY <1>2, <1>3 DEF ItemsIn
<1> QED  BY <1>1, <1>4 DEF ShelfOf

LEMMA PutPlaces ==
  ASSUME NEW d, NEW path, NEW content
  PROVE  /\ Holds(Put(d, path, content), path, content)
         /\ \A f : f # path => Agree(d, Put(d, path, content), f)
  BY DEF Put, Holds, Agree

LEMMA WithoutRemoves ==
  ASSUME NEW d, NEW path
  PROVE  /\ path \notin DOMAIN Without(d, path)
         /\ \A f : f # path => Agree(d, Without(d, path), f)
  BY DEF Without, Restrict, Agree

\* What the steps of a command do to the disk.
LEMMA StepDoes ==
  ASSUME NEW d, NEW path, NEW content
  PROVE  /\ Performed(d, Step("open", path, content)) = Put(d, path, Torn)
         /\ Performed(d, Step("write", path, content)) = Put(d, path, content)
         /\ Performed(d, Step("remove", path, content)) = Without(d, path)
         /\ Performed(d, Step("rename", path, content)) = Put(Without(d, path), content, d[path])
  BY DEF Performed, Step

\* A rename puts the file there and touches no third one.
LEMMA RenameMoves ==
  ASSUME NEW d, NEW from, NEW to, NEW content, Holds(d, from, content)
  PROVE  LET e == Performed(d, Step("rename", from, to))
         IN  /\ Holds(e, to, content)
             /\ \A f : f # from /\ f # to => Agree(d, e, f)
<1> DEFINE w == Without(d, from)
           e == Put(w, to, d[from])
<1>1. Performed(d, Step("rename", from, to)) = e  BY StepDoes
<1>2. d[from] = content  BY DEF Holds
<1>3. \A f : f # from => Agree(d, w, f)  BY WithoutRemoves
<1>4. Holds(e, to, content) /\ \A f : f # to => Agree(w, e, f)  BY <1>2, PutPlaces
<1> HIDE DEF w, e
<1>5. ASSUME NEW f, f # from, f # to PROVE Agree(d, e, f)
  BY <1>3, <1>4, <1>5 DEF Agree
<1> QED  BY <1>1, <1>4, <1>5

-----------------------------------------------------------------------------
(* The inductive invariant.                                                 *)

\* A file of an item the panel knows of is whole, or gone.
Known(d, item) ==
  item.id \in ItemIds /\ (ItemPath(item.id) \in DOMAIN d => d[ItemPath(item.id)].whole)

\* The command c is on its way to replace the file at path.
UnderWay(d, c, path, content) ==
  \/ /\ c.answer.kind = "Ok"
     /\ \/ c.steps = <<Step("open", Temporary(path), Torn), Step("write", Temporary(path), content),
                       Step("rename", Temporary(path), path)>>
        \/ c.steps = <<Step("write", Temporary(path), content), Step("rename", Temporary(path), path)>>
        \/ c.steps = <<Step("rename", Temporary(path), path)>> /\ Holds(d, Temporary(path), content)
        \/ c.steps = <<>> /\ Holds(d, path, content)
  \/ c.steps = <<>> /\ c.answer = LibraryError("Io")

Deleting(d, c, id) ==
  \/ /\ c.steps = <<Step("remove", ItemPath(id), Torn)>>
     /\ c.answer.kind = "Ok" /\ ItemPath(id) \in DOMAIN d
  \/ c.steps = <<>> /\ c.answer.kind = "Ok"
  \/ c.steps = <<>> /\ c.answer = LibraryError("NotFound") /\ ItemPath(id) \notin DOMAIN d
  \/ c.steps = <<>> /\ c.answer = LibraryError("Io")

WritingRecents(c) ==
  \/ c.steps = <<>>
  \/ \E list : \/ c.steps = <<Step("open", Recents, Torn), Step("write", Recents, RecentsFile(list))>>
               \/ c.steps = <<Step("write", Recents, RecentsFile(list))>>

Listing(d, c) ==
  /\ c.steps = <<>>
  /\ \/ c.answer = LibraryError("Io")
     \/ \E list : c.answer = Ok({list}) /\ \A item \in ToSet(list) : Known(d, item)

\* The command c, run for a call, is where it should be.
StepsOK(d, call, c) ==
  \/ call.name = "list_library_node" /\ Listing(d, c)
  \/ /\ call.name = "save_library_node"
     /\ \E item : call.arg = {item} /\ UnderWay(d, c, ItemPath(item.id), ItemFile({item}))
  \/ /\ call.name = "delete_library_node"
     /\ \E item : call.arg = {item} /\ Deleting(d, c, item.id)
  \/ /\ call.name = "save_project"
     /\ \E a : /\ call.arg = {a}
               /\ UnderWay(d, c, Project(a.path), ProjectFile({PROJECT_SCHEMA_VERSION}, {a.graph}))
  \/ call.name = "load_project" /\ c.steps = <<>>
  \/ call.name \in {"push_recent", "load_recents"} /\ WritingRecents(c)

PanelCallOK(d, call) ==
  \/ call.name \in {"none", "list_library_node"}
  \/ /\ call.name \in {"save_library_node", "delete_library_node"}
     /\ \E item : call.arg = {item} /\ Known(d, item)

\* A project being saved is one that may be found once a save of its path was
\* acknowledged.
SessionCallOK(k, call) ==
  \/ call.name = "none"
  \/ /\ call.name \in {"save_project", "load_project", "push_recent", "load_recents"}
     /\ \E a : /\ call.arg = {a}
               /\ call.name = "save_project" =>
                    a.path \in ProjectPaths /\ (k[a.path] # {} => a.graph \in k[a.path])

SavedOK(d, k) ==
  /\ k = [p \in ProjectPaths |-> k[p]]
  /\ \A p \in ProjectPaths : k[p] # {} =>
       \E g \in k[p] : Holds(d, Project(p), ProjectFile({PROJECT_SCHEMA_VERSION}, {g}))

IsCommand(c) ==
  c = [caller |-> c.caller, steps |-> c.steps, answer |-> c.answer] /\ c.caller \in Callers

FilesInv ==
  /\ ItemsOnDisk(disk)
  /\ \A item \in ToSet(items) : Known(disk, item)
  /\ calls = [c \in Callers |-> calls[c]]
  /\ PanelCallOK(disk, calls["panel"]) /\ SessionCallOK(kept, calls["session"])
  /\ calls["refresh"].name \in {"none", "list_library_node"}
  /\ \A c \in running : IsCommand(c) /\ StepsOK(disk, calls[c.caller], c)
  /\ \A c, e \in running : c = e
  /\ SavedOK(disk, kept)

-----------------------------------------------------------------------------
(* Steps on the disk.                                                       *)

LEMMA NotDone ==
  /\ \A a : <<a>> # <<>> /\ Head(<<a>>) = a /\ Tail(<<a>>) = <<>>
  /\ \A a, b : <<a, b>> # <<>> /\ Head(<<a, b>>) = a /\ Tail(<<a, b>>) = <<b>>
  /\ \A a, b, c : /\ <<a, b, c>> # <<>> /\ Head(<<a, b, c>>) = a
                   /\ Tail(<<a, b, c>>) = <<b, c>>
  OBVIOUS

LEMMA JoinedSteps ==
  ASSUME NEW a, NEW b, NEW c
  PROVE  <<a, b>> \o <<c>> = <<a, b, c>>
<1> DEFINE s == <<a, b>> \o <<c>>
           t == <<a, b, c>>
<1>1. <<a, b>> \in Seq({a, b, c}) /\ <<c>> \in Seq({a, b, c})  OBVIOUS
<1>2. /\ s \in Seq({a, b, c}) /\ Len(s) = 3
      /\ s[1] = a /\ s[2] = b /\ s[3] = c
  BY <1>1, ConcatProperties
<1>3. t \in Seq({a, b, c}) /\ Len(t) = 3 /\ t[1] = a /\ t[2] = b /\ t[3] = c
  OBVIOUS
<1> HIDE DEF s, t
<1>4. \A i \in 1..Len(s) : s[i] = t[i]
  <2>1. \A i \in 1..3 : i = 1 \/ i = 2 \/ i = 3  OBVIOUS
  <2> QED  BY <1>2, <1>3, <2>1
<1>5. s = t  BY <1>2, <1>3, <1>4, SeqEqual
<1> QED  BY <1>5 DEF s, t

LEMMA StepsOfAWrite ==
  ASSUME NEW path, NEW content
  PROVE  /\ WriteAtomically(path, content) =
              <<Step("open", Temporary(path), Torn), Step("write", Temporary(path), content),
                Step("rename", Temporary(path), path)>>
         /\ Write(path, content) = <<Step("open", path, Torn), Step("write", path, content)>>
  BY JoinedSteps DEF WriteAtomically, Write

\* Nothing but the files of a set changes.
OnlyAt(d, e, paths) == \A f : f \notin paths => Agree(d, e, f)

\* The command's first step is done and n is what is left.
MovesOn(d, e, c, n) ==
  /\ c.steps # <<>> /\ e = Performed(d, Head(c.steps))
  /\ n.steps = Tail(c.steps) /\ n.answer = c.answer

\* One step of a replacement: only the last one touches the file itself, and then the
\* new content is there.
LEMMA ReplacementGoesOn ==
  ASSUME NEW d, NEW c, NEW n, NEW path, NEW content, NEW e,
         UnderWay(d, c, path, content), MovesOn(d, e, c, n), Temporary(path) # path
  PROVE  /\ UnderWay(e, n, path, content)
         /\ OnlyAt(d, e, {path, Temporary(path)})
         /\ c.answer.kind = "Ok"
         /\ IF n.steps = <<>> THEN Holds(e, path, content) ELSE Agree(d, e, path)
<1> DEFINE tmp == Temporary(path)
           s1  == Step("open", tmp, Torn)
           s2  == Step("write", tmp, content)
           s3  == Step("rename", tmp, path)
<1>m. /\ c.steps # <<>> /\ e = Performed(d, Head(c.steps))
      /\ n.steps = Tail(c.steps) /\ n.answer = c.answer
  BY DEF MovesOn
<1>0. c.answer.kind = "Ok"  BY <1>m DEF UnderWay
<1>1. CASE c.steps = <<s1, s2, s3>>
  <2>1. e = Put(d, tmp, Torn)  BY <1>m, <1>1, StepDoes
  <2>2. n.steps = <<s2, s3>>  BY <1>m, <1>1
  <2>3. \A f : f # tmp => Agree(d, e, f)  BY <2>1, PutPlaces
  <2>4. n.steps # <<>>  BY <2>2, NotDone
  <2>5. UnderWay(e, n, path, content)
    <3>1. n.answer.kind = "Ok"  BY <1>m, <1>0
    <3> QED  BY <2>2, <3>1, Zenon DEF UnderWay
  <2> QED  BY <1>0, <2>3, <2>4, <2>5 DEF OnlyAt
<1>2. CASE c.steps = <<s2, s3>>
  <2>1. e = Put(d, tmp, content)  BY <1>m, <1>2, StepDoes
  <2>2. n.steps = <<s3>>  BY <1>m, <1>2
  <2>3. Holds(e, tmp, content) /\ \A f : f # tmp => Agree(d, e, f)  BY <2>1, PutPlaces
  <2>4. n.steps # <<>>  BY <2>2, NotDone
  <2>5. UnderWay(e, n, path, content)
    <3>1. n.answer.kind = "Ok"  BY <1>m, <1>0
    <3> QED  BY <2>2, <2>3, <3>1, Zenon DEF UnderWay
  <2> QED  BY <1>0, <2>3, <2>4, <2>5 DEF OnlyAt
<1>3. CASE c.steps = <<s3>> /\ Holds(d, tmp, content)
  <2>1. e = Performed(d, s3) /\ n.steps = <<>>  BY <1>m, <1>3
  <2>2. Holds(e, path, content) /\ \A f : f # tmp /\ f # path => Agree(d, e, f)
    BY <1>3, <2>1, RenameMoves
  <2> QED  BY <1>m, <1>0, <2>1, <2>2 DEF UnderWay, OnlyAt
<1> QED  BY <1>m, <1>1, <1>2, <1>3 DEF UnderWay

LEMMA KnownStays ==
  ASSUME NEW d, NEW e, NEW item, Known(d, item),
         \/ Agree(d, e, ItemPath(item.id))
         \/ ItemPath(item.id) \notin DOMAIN e
         \/ e[ItemPath(item.id)].whole
  PROVE  Known(e, item)
  BY DEF Known, Agree

LEMMA SavedStays ==
  ASSUME NEW d, NEW e, NEW k, SavedOK(d, k), \A p \in ProjectPaths : Agree(d, e, Project(p))
  PROVE  SavedOK(e, k)
  BY DEF SavedOK, Agree, Holds

\* A step of a command keeps what is said of the disk.
Knows(d, e) == \A item : Known(d, item) => Known(e, item)
DiskMoves(d, e, k) == ItemsOnDisk(e) /\ Knows(d, e) /\ SavedOK(e, k)

LEMMA ElsewhereMoves ==
  ASSUME NEW d, NEW e, NEW k, ItemsOnDisk(d), SavedOK(d, k), NEW paths, OnlyAt(d, e, paths),
         \A f \in paths : ~IsItemFile(f) /\ \A p \in ProjectPaths : f # Project(p)
  PROVE  DiskMoves(d, e, k) /\ ShelfOf(e) = ShelfOf(d)
<1>a. \A f : IsItemFile(f) => Agree(d, e, f)  BY DEF OnlyAt
<1>b. \A p \in ProjectPaths : Agree(d, e, Project(p))  BY DEF OnlyAt
<1>1. ItemsOnDisk(e) /\ ShelfOf(e) = ShelfOf(d)  BY <1>a, ShelfStays
<1>2. ASSUME NEW item, Known(d, item) PROVE Known(e, item)
  <2>1. IsItemFile(ItemPath(item.id))  BY <1>2, ItemPathsAreItemFiles DEF Known
  <2> QED  BY <1>a, <1>2, <2>1, KnownStays
<1>3. SavedOK(e, k)  BY <1>b, SavedStays
<1> QED  BY <1>1, <1>2, <1>3 DEF DiskMoves, Knows

\* An item's file is replaced.
LEMMA ItemPlaced ==
  ASSUME NEW d, NEW e, NEW item, ItemsOnDisk(d), item.id \in ItemIds,
         Holds(e, ItemPath(item.id), ItemFile({item})),
         NEW paths, OnlyAt(d, e, {ItemPath(item.id)} \cup paths), \A f \in paths : ~IsItemFile(f)
  PROVE  ItemsOnDisk(e) /\ Knows(d, e) /\ ShelfOf(e) = ShelfWith(d, item)
<1> DEFINE path == ItemPath(item.id)
<1>1. path[2] = item.id  BY PathsDiffer
<1>a. \A f : IsItemFile(f) /\ f # path => Agree(d, e, f)
  BY DEF OnlyAt
<1>2. ItemFile({item}).whole /\ ItemFile({item}).item = {item}  BY ItemFileIs
<1>3. ItemsOnDisk(e)
  <2> SUFFICES ASSUME NEW f \in DOMAIN e, IsItemFile(f), e[f].whole
               PROVE  f = ItemPath(f[2]) /\ \E i : i.id = f[2] /\ e[f] = ItemFile({i})
    BY DEF ItemsOnDisk
  <2>1. CASE f = path
    BY <1>1, <2>1 DEF Holds
  <2>2. CASE f # path
    <3>1. Agree(d, e, f)  BY <1>a, <2>2
    <3> QED  BY <3>1 DEF Agree, ItemsOnDisk
  <2> QED  BY <2>1, <2>2
<1>4. \A id \in ItemIds : id # item.id => Agree(d, e, ItemPath(id))
  <2> SUFFICES ASSUME NEW id \in ItemIds, id # item.id PROVE Agree(d, e, ItemPath(id))
    OBVIOUS
  <2>1. IsItemFile(ItemPath(id)) /\ ItemPath(id)[2] = id  BY PathsDiffer, ItemPathsAreItemFiles
  <2> QED  BY <1>1, <1>a, <2>1
<1>5. \A i : Known(d, i) => Known(e, i)
  <2> SUFFICES ASSUME NEW i, Known(d, i) PROVE Known(e, i)
    OBVIOUS
  <2>1. CASE i.id = item.id  BY <1>2, <2>1 DEF Known, Holds
  <2>2. CASE i.id # item.id  BY <1>4, <2>2, KnownStays DEF Known
  <2> QED  BY <2>1, <2>2
<1>6. /\ DOMAIN ShelfOf(d) = {id \in ItemIds : Stored(d, id)}
      /\ \A id \in DOMAIN ShelfOf(d) : d[ItemPath(id)] = ItemFile({ShelfOf(d)[id]})
      /\ DOMAIN ShelfOf(e) = {id \in ItemIds : Stored(e, id)}
      /\ \A id \in DOMAIN ShelfOf(e) : e[ItemPath(id)] = ItemFile({ShelfOf(e)[id]})
  BY <1>3, ShelfHolds
<1>7. Stored(e, item.id)  BY <1>2 DEF Stored, Holds
<1>8. DOMAIN ShelfOf(e) = DOMAIN ShelfOf(d) \cup {item.id}
  BY <1>4, <1>6, <1>7 DEF Stored, Agree
<1>9. ASSUME NEW i, NEW j, ItemFile({i}) = ItemFile({j}) PROVE i = j
  <2>1. ItemFile({i}).item = {i} /\ ItemFile({j}).item = {j}  BY ItemFileIs
  <2> QED  BY <1>9, <2>1
<1>10. ASSUME NEW id \in DOMAIN ShelfOf(e)
       PROVE  ShelfOf(e)[id] = IF id = item.id THEN item ELSE ShelfOf(d)[id]
  <2>1. CASE id = item.id
    <3>1. e[path] = ItemFile({ShelfOf(e)[id]}) /\ e[path] = ItemFile({item})
      BY <1>6, <2>1 DEF Holds
    <3> QED  BY <1>9, <2>1, <3>1
  <2>2. CASE id # item.id
    <3>1. id \in DOMAIN ShelfOf(d) /\ id \in ItemIds  BY <1>6, <1>8, <2>2
    <3>2. e[ItemPath(id)] = d[ItemPath(id)]
      BY <1>4, <1>6, <2>2, <3>1 DEF Agree, Stored
    <3>3. ItemFile({ShelfOf(e)[id]}) = ItemFile({ShelfOf(d)[id]})  BY <1>6, <3>1, <3>2
    <3> QED  BY <1>9, <2>2, <3>3
  <2> QED  BY <2>1, <2>2
<1>11. ShelfOf(e) = [id \in DOMAIN ShelfOf(e) |-> ShelfOf(e)[id]]
  BY DEF ShelfOf
<1> QED  BY <1>3, <1>5, <1>8, <1>10, <1>11 DEF Knows, ShelfWith

\* An item's file is removed.
LEMMA ItemRemoved ==
  ASSUME NEW d, NEW e, NEW id \in ItemIds, ItemsOnDisk(d), e = Without(d, ItemPath(id))
  PROVE  ItemsOnDisk(e) /\ Knows(d, e) /\ ShelfOf(e) = ShelfWithout(d, id)
<1>1. ItemPath(id) \notin DOMAIN e /\ \A f : f # ItemPath(id) => Agree(d, e, f)
  BY WithoutRemoves
<1>2. ItemsOnDisk(e)
  <2> SUFFICES ASSUME NEW f \in DOMAIN e, IsItemFile(f), e[f].whole
               PROVE  f = ItemPath(f[2]) /\ \E i : i.id = f[2] /\ e[f] = ItemFile({i})
    BY DEF ItemsOnDisk
  <2>1. Agree(d, e, f)  BY <1>1
  <2> QED  BY <2>1 DEF Agree, ItemsOnDisk
<1>3. \A j : j # id => Agree(d, e, ItemPath(j))
  <2> SUFFICES ASSUME NEW j, j # id PROVE Agree(d, e, ItemPath(j))
    OBVIOUS
  <2>1. ItemPath(j)[2] = j /\ ItemPath(id)[2] = id  BY PathsDiffer
  <2> QED  BY <1>1, <2>1
<1>4. \A i : Known(d, i) => Known(e, i)
  <2> SUFFICES ASSUME NEW i, Known(d, i) PROVE Known(e, i)
    OBVIOUS
  <2>1. CASE i.id = id  BY <1>1, <2>1, KnownStays
  <2>2. CASE i.id # id  BY <1>3, <2>2, KnownStays
  <2> QED  BY <2>1, <2>2
<1>5. /\ DOMAIN ShelfOf(d) = {j \in ItemIds : Stored(d, j)}
      /\ \A j \in DOMAIN ShelfOf(d) : d[ItemPath(j)] = ItemFile({ShelfOf(d)[j]})
      /\ DOMAIN ShelfOf(e) = {j \in ItemIds : Stored(e, j)}
      /\ \A j \in DOMAIN ShelfOf(e) : e[ItemPath(j)] = ItemFile({ShelfOf(e)[j]})
  BY <1>2, ShelfHolds
<1>6. ~Stored(e, id)  BY <1>1 DEF Stored
<1>7. DOMAIN ShelfOf(e) = DOMAIN ShelfOf(d) \ {id}
  BY <1>3, <1>5, <1>6 DEF Stored, Agree
<1>8. ASSUME NEW j \in DOMAIN ShelfOf(e)
      PROVE  ShelfOf(e)[j] = ShelfOf(d)[j]
  <2>1. j \in DOMAIN ShelfOf(d) /\ j # id  BY <1>7
  <2>2. e[ItemPath(j)] = d[ItemPath(j)]  BY <1>3, <1>5, <2>1 DEF Agree, Stored
  <2>3. ItemFile({ShelfOf(e)[j]}) = ItemFile({ShelfOf(d)[j]})  BY <1>5, <2>1, <2>2
  <2>4. ItemFile({ShelfOf(e)[j]}).item = {ShelfOf(e)[j]} /\ ItemFile({ShelfOf(d)[j]}).item = {ShelfOf(d)[j]}
    BY ItemFileIs
  <2> QED  BY <2>3, <2>4
<1>9. ShelfOf(e) = [j \in DOMAIN ShelfOf(e) |-> ShelfOf(e)[j]]
  BY DEF ShelfOf
<1> QED  BY <1>2, <1>4, <1>7, <1>8, <1>9 DEF Knows, ShelfWithout

-----------------------------------------------------------------------------
(* The commands.                                                            *)

PanelNames   == {"list_library_node", "save_library_node", "delete_library_node"}
SessionNames == {"save_project", "load_project", "push_recent", "load_recents"}

\* A command runs for a caller that waits for it.
LEMMA CommandsAreAwaited ==
  ASSUME FilesInv, NEW c \in running
  PROVE  /\ IsCommand(c) /\ StepsOK(disk, calls[c.caller], c) /\ running = {c}
         /\ \/ c.caller = "panel" /\ calls["panel"].name \in PanelNames
            \/ c.caller = "refresh" /\ calls["refresh"].name = "list_library_node"
            \/ c.caller = "session" /\ calls["session"].name \in SessionNames
<1>1. IsCommand(c) /\ StepsOK(disk, calls[c.caller], c)  BY DEF FilesInv
<1>2. running = {c}  BY DEF FilesInv
<1>3. calls[c.caller].name \in PanelNames \cup SessionNames
  BY <1>1 DEF StepsOK, PanelNames, SessionNames
<1>4. CASE c.caller = "panel"
  <2>1. calls["panel"].name \in PanelNames \cup {"none"}
    BY DEF FilesInv, PanelCallOK, PanelNames
  <2> QED  BY <1>1, <1>2, <1>3, <1>4, <2>1 DEF PanelNames, SessionNames
<1>5. CASE c.caller = "session"
  <2>1. calls["session"].name \in SessionNames \cup {"none"}
    BY DEF FilesInv, SessionCallOK, SessionNames
  <2> QED  BY <1>1, <1>2, <1>3, <1>5, <2>1 DEF PanelNames, SessionNames
<1>6. CASE c.caller = "refresh"
  <2>1. calls["refresh"].name = "list_library_node"
    BY <1>3, <1>6 DEF FilesInv, PanelNames, SessionNames
  <2> QED  BY <1>1, <1>2, <1>6, <2>1
<1> QED  BY <1>1, <1>4, <1>5, <1>6 DEF IsCommand, Callers

\* A command with its first step done.
LEMMA StepTaken ==
  ASSUME FilesInv, NEW c \in running, Perform(c)
  PROVE  \E n : /\ running' = {n} /\ IsCommand(n) /\ n.caller = c.caller
                /\ MovesOn(disk, disk', c, n)
<1> DEFINE n == [c EXCEPT !.steps = Tail(@)]
<1>1. IsCommand(c)  BY DEF FilesInv
<1>2. running' = {n}  BY DEF Perform
<1>3. n = [c EXCEPT !.steps = Tail(c.steps)]  OBVIOUS
<1> HIDE DEF n
<1>4. IsCommand(n) /\ n.caller = c.caller /\ n.answer = c.answer /\ n.steps = Tail(c.steps)
  BY <1>1, <1>3 DEF IsCommand
<1>5. MovesOn(disk, disk', c, n)  BY <1>4 DEF Perform, MovesOn
<1> QED  BY <1>2, <1>4, <1>5

\* The step saves an item, removes one, or leaves the shelf as it is.
Shelves(d, e, call, n) ==
  \/ /\ ShelfOf(e) = ShelfOf(d)
     /\ call.name \in {"save_library_node", "delete_library_node"} => n.steps # <<>>
  \/ /\ call.name = "save_library_node" /\ n.steps = <<>> /\ n.answer.kind = "Ok"
     /\ \E item : /\ call.arg = {item}
                  /\ ShelfOf(e) = ShelfWith(d, item)
  \/ /\ call.name = "delete_library_node" /\ n.steps = <<>> /\ n.answer.kind = "Ok"
     /\ \E item : /\ call.arg = {item} /\ item.id \in DOMAIN ShelfOf(d)
                  /\ ShelfOf(e) = ShelfWithout(d, item.id)

StepDone(d, e, k, call, n) == StepsOK(e, call, n) /\ DiskMoves(d, e, k) /\ Shelves(d, e, call, n)

\* A step of saving an item.
LEMMA SavesAnItem ==
  ASSUME NEW d, NEW e, NEW k, NEW call, NEW c, NEW n, NEW item,
         ItemsOnDisk(d), SavedOK(d, k), MovesOn(d, e, c, n),
         call.name = "save_library_node", call.arg = {item}, item.id \in ItemIds,
         UnderWay(d, c, ItemPath(item.id), ItemFile({item}))
  PROVE  StepDone(d, e, k, call, n)
<1> DEFINE path == ItemPath(item.id)
           content == ItemFile({item})
<1>1. UnderWay(d, c, path, content)  OBVIOUS
<1>2. Temporary(path) # path /\ ~IsItemFile(Temporary(path))
      /\ \A p : Project(p) # path /\ Project(p) # Temporary(path)
  <2>1. Len(Temporary(path)) = 3 /\ Len(path) = 2 /\ path[1] = "item"  BY PathsDiffer
  <2>2. \A p : Project(p)[1] = "project" /\ Len(Project(p)) = 2  BY PathsDiffer
  <2> HIDE DEF path
  <2>3. \A p : Project(p) # path /\ Project(p) # Temporary(path)  BY <2>1, <2>2
  <2>4. Temporary(path) # path  BY <2>1
  <2>5. ~IsItemFile(Temporary(path))  BY ItemPathsAreItemFiles DEF path
  <2> QED  BY <2>3, <2>4, <2>5
<1>3. /\ UnderWay(e, n, path, content)
      /\ OnlyAt(d, e, {path, Temporary(path)})
      /\ c.answer.kind = "Ok"
      /\ IF n.steps = <<>> THEN Holds(e, path, content) ELSE Agree(d, e, path)
  <2> HIDE DEF path, content
  <2> QED  BY <1>1, <1>2, ReplacementGoesOn
<1>4. StepsOK(e, call, n)
  BY <1>3 DEF StepsOK
<1>5. n.answer.kind = "Ok"  BY <1>3 DEF MovesOn
<1>6. CASE n.steps = <<>>
  <2>1. Holds(e, path, content)  BY <1>3, <1>6
  <2>2. OnlyAt(d, e, {path} \cup {Temporary(path)})
    <3>1. {path, Temporary(path)} = {path} \cup {Temporary(path)}  OBVIOUS
    <3> HIDE DEF path
    <3> QED  BY <1>3, <3>1
  <2>3. ItemsOnDisk(e) /\ Knows(d, e) /\ ShelfOf(e) = ShelfWith(d, item)
    <3>1. \A f \in {Temporary(path)} : ~IsItemFile(f)  BY <1>2
    <3> QED  BY <2>1, <2>2, <3>1, ItemPlaced
  <2>4. SavedOK(e, k)
    <3>1. \A p \in ProjectPaths : Agree(d, e, Project(p))
      <4> HIDE DEF path
      <4> QED  BY <1>2, <1>3 DEF OnlyAt
    <3> QED  BY <3>1, SavedStays
  <2>5. Shelves(d, e, call, n)
    BY <1>5, <1>6, <2>3 DEF Shelves
  <2> QED  BY <1>4, <2>3, <2>4, <2>5 DEF StepDone, DiskMoves
<1>7. CASE n.steps # <<>>
  <2>1. Agree(d, e, path)  BY <1>3, <1>7
  <2>2. OnlyAt(d, e, {Temporary(path)})
    <3> HIDE DEF path
    <3> QED  BY <1>3, <2>1 DEF OnlyAt
  <2>3. \A f \in {Temporary(path)} : ~IsItemFile(f) /\ \A p \in ProjectPaths : f # Project(p)
    BY <1>2
  <2>4. DiskMoves(d, e, k) /\ ShelfOf(e) = ShelfOf(d)
    BY <2>2, <2>3, ElsewhereMoves
  <2>5. Shelves(d, e, call, n)  BY <1>7, <2>4 DEF Shelves
  <2> QED  BY <1>4, <2>4, <2>5 DEF StepDone
<1> QED  BY <1>6, <1>7

\* The one step of deleting an item.
LEMMA DeletesAnItem ==
  ASSUME NEW d, NEW e, NEW k, NEW call, NEW c, NEW n, NEW item,
         ItemsOnDisk(d), SavedOK(d, k), MovesOn(d, e, c, n),
         call.name = "delete_library_node", call.arg = {item}, Known(d, item),
         Deleting(d, c, item.id)
  PROVE  StepDone(d, e, k, call, n)
<1>1. /\ c.steps # <<>> /\ e = Performed(d, Head(c.steps))
      /\ n.steps = Tail(c.steps) /\ n.answer = c.answer
  BY DEF MovesOn
<1>2. /\ c.steps = <<Step("remove", ItemPath(item.id), Torn)>> /\ c.answer.kind = "Ok"
      /\ ItemPath(item.id) \in DOMAIN d
  BY <1>1 DEF Deleting
<1>3. Head(c.steps) = Step("remove", ItemPath(item.id), Torn) /\ n.steps = <<>>
  BY <1>1, <1>2, NotDone
<1>4. e = Without(d, ItemPath(item.id))
  BY <1>1, <1>3, StepDoes
<1>5. item.id \in ItemIds /\ Stored(d, item.id)
  BY <1>2 DEF Known, Stored
<1>6. ItemsOnDisk(e) /\ Knows(d, e) /\ ShelfOf(e) = ShelfWithout(d, item.id)
  BY <1>4, <1>5, ItemRemoved
<1>7. SavedOK(e, k)
  <2>1. \A p : Project(p) # ItemPath(item.id)
    <3>1. ItemPath(item.id)[1] = "item" /\ \A p : Project(p)[1] = "project"  BY PathsDiffer
    <3> QED  BY <3>1
  <2>2. \A p \in ProjectPaths : Agree(d, e, Project(p))
    BY <1>4, <2>1, WithoutRemoves
  <2> QED  BY <2>2, SavedStays
<1>8. item.id \in DOMAIN ShelfOf(d)  BY <1>5, ShelfHolds
<1>9. n.answer.kind = "Ok"  BY <1>1, <1>2
<1>10. Shelves(d, e, call, n)
  BY <1>3, <1>6, <1>8, <1>9 DEF Shelves
<1>11. Deleting(e, n, item.id)  BY <1>3, <1>9, Zenon DEF Deleting
<1>12. StepsOK(e, call, n)  BY <1>11, Zenon DEF StepsOK
<1> QED  BY <1>6, <1>7, <1>10, <1>12 DEF StepDone, DiskMoves

\* A step of saving a project.
LEMMA SavesAProject ==
  ASSUME NEW d, NEW e, NEW k, NEW call, NEW c, NEW n, NEW a,
         ItemsOnDisk(d), SavedOK(d, k), MovesOn(d, e, c, n),
         call.name = "save_project", call.arg = {a},
         a.path \in ProjectPaths, k[a.path] # {} => a.graph \in k[a.path],
         UnderWay(d, c, Project(a.path), ProjectFile({PROJECT_SCHEMA_VERSION}, {a.graph}))
  PROVE  StepDone(d, e, k, call, n)
<1> DEFINE path == Project(a.path)
           content == ProjectFile({PROJECT_SCHEMA_VERSION}, {a.graph})
<1>1. UnderWay(d, c, path, content)  OBVIOUS
<1>2. Temporary(path) # path /\ ~IsItemFile(Temporary(path)) /\ ~IsItemFile(path)
      /\ \A p : Project(p) # Temporary(path) /\ (p # a.path => Project(p) # path)
  <2>1. Len(Temporary(path)) = 3 /\ Len(path) = 2 /\ path[2] = a.path  BY PathsDiffer
  <2>2. \A p : Project(p)[2] = p /\ Len(Project(p)) = 2  BY PathsDiffer
  <2>3. ~IsItemFile(Temporary(path)) /\ ~IsItemFile(path)  BY ItemPathsAreItemFiles
  <2> HIDE DEF path
  <2>4. \A p : Project(p) # Temporary(path) /\ (p # a.path => Project(p) # path)  BY <2>1, <2>2
  <2>5. Temporary(path) # path  BY <2>1
  <2> QED  BY <2>3, <2>4, <2>5
<1>3. /\ UnderWay(e, n, path, content)
      /\ OnlyAt(d, e, {path, Temporary(path)})
      /\ IF n.steps = <<>> THEN Holds(e, path, content) ELSE Agree(d, e, path)
  <2> HIDE DEF path, content
  <2> QED  BY <1>1, <1>2, ReplacementGoesOn
<1>4. StepsOK(e, call, n)
  BY <1>3 DEF StepsOK
<1>5. \A f : IsItemFile(f) => Agree(d, e, f)
  <2> HIDE DEF path
  <2> QED  BY <1>2, <1>3 DEF OnlyAt
<1>6. ItemsOnDisk(e) /\ ShelfOf(e) = ShelfOf(d)
  BY <1>5, ShelfStays
<1>7. Knows(d, e)
  <2> SUFFICES ASSUME NEW item, Known(d, item) PROVE Known(e, item)
    BY DEF Knows
  <2>1. IsItemFile(ItemPath(item.id))  BY ItemPathsAreItemFiles DEF Known
  <2> QED  BY <1>5, <2>1, KnownStays
<1>8. SavedOK(e, k)
  <2> SUFFICES ASSUME NEW p \in ProjectPaths, k[p] # {}
               PROVE  \E g \in k[p] : Holds(e, Project(p), ProjectFile({PROJECT_SCHEMA_VERSION}, {g}))
    BY DEF SavedOK
  <2>1. PICK g \in k[p] : Holds(d, Project(p), ProjectFile({PROJECT_SCHEMA_VERSION}, {g}))
    BY DEF SavedOK
  <2>2. CASE Agree(d, e, Project(p))
    BY <2>1, <2>2 DEF Agree, Holds
  <2>3. CASE p = a.path /\ Holds(e, path, content)
    BY <2>3
  <2>4. CASE p # a.path
    <3>1. Agree(d, e, Project(p))
      <4> HIDE DEF path
      <4> QED  BY <1>2, <1>3, <2>4 DEF OnlyAt
    <3> QED  BY <2>2, <3>1
  <2> QED  BY <1>3, <2>2, <2>3, <2>4
<1>9. Shelves(d, e, call, n)  BY <1>6 DEF Shelves
<1> QED  BY <1>4, <1>6, <1>7, <1>8, <1>9 DEF StepDone, DiskMoves

\* A step of writing the list of recent projects.
LEMMA WritesRecents ==
  ASSUME NEW d, NEW e, NEW k, NEW call, NEW c, NEW n,
         ItemsOnDisk(d), SavedOK(d, k), MovesOn(d, e, c, n),
         call.name \in {"push_recent", "load_recents"}, WritingRecents(c)
  PROVE  StepDone(d, e, k, call, n)
<1>1. /\ c.steps # <<>> /\ e = Performed(d, Head(c.steps))
      /\ n.steps = Tail(c.steps) /\ n.answer = c.answer
  BY DEF MovesOn
<1>2. PICK list : \/ c.steps = <<Step("open", Recents, Torn), Step("write", Recents, RecentsFile(list))>>
                  \/ c.steps = <<Step("write", Recents, RecentsFile(list))>>
  BY <1>1 DEF WritingRecents
<1>3. WritingRecents(n) /\ OnlyAt(d, e, {Recents})
  <2>1. CASE c.steps = <<Step("open", Recents, Torn), Step("write", Recents, RecentsFile(list))>>
    <3>1. Head(c.steps) = Step("open", Recents, Torn)  BY <2>1, NotDone
    <3>2. n.steps = <<Step("write", Recents, RecentsFile(list))>>  BY <1>1, <2>1, NotDone
    <3>3. e = Put(d, Recents, Torn)  BY <1>1, <3>1, StepDoes
    <3> QED  BY <3>2, <3>3, PutPlaces, Zenon DEF WritingRecents, OnlyAt
  <2>2. CASE c.steps = <<Step("write", Recents, RecentsFile(list))>>
    <3>1. Head(c.steps) = Step("write", Recents, RecentsFile(list))  BY <2>2, NotDone
    <3>2. n.steps = <<>>  BY <1>1, <2>2, NotDone
    <3>3. e = Put(d, Recents, RecentsFile(list))  BY <1>1, <3>1, StepDoes
    <3>4. OnlyAt(d, e, {Recents})  BY <3>3, PutPlaces DEF OnlyAt
    <3> QED  BY <3>2, <3>4 DEF WritingRecents
  <2> QED  BY <1>2, <2>1, <2>2
<1>4. \A f \in {Recents} : ~IsItemFile(f) /\ \A p \in ProjectPaths : f # Project(p)
  <2>1. \A p : Project(p)[1] = "project" /\ Recents[1] = "recents"  BY PathsDiffer
  <2> QED  BY <2>1, ItemPathsAreItemFiles
<1>5. DiskMoves(d, e, k) /\ ShelfOf(e) = ShelfOf(d)
  BY <1>3, <1>4, ElsewhereMoves
<1>6. StepsOK(e, call, n)  BY <1>3 DEF StepsOK
<1>7. Shelves(d, e, call, n)  BY <1>5 DEF Shelves
<1> QED  BY <1>5, <1>6, <1>7 DEF StepDone

LEMMA Performs ==
  ASSUME FilesInv, NEW c \in running, Perform(c), NEW n, MovesOn(disk, disk', c, n)
  PROVE  StepDone(disk, disk', kept, calls[c.caller], n)
<1> DEFINE call == calls[c.caller]
<1>1. /\ StepsOK(disk, call, c)
      /\ \/ c.caller = "panel" /\ call.name \in PanelNames
         \/ c.caller = "refresh" /\ call.name = "list_library_node"
         \/ c.caller = "session" /\ call.name \in SessionNames
  BY CommandsAreAwaited
<1>2. ItemsOnDisk(disk) /\ SavedOK(disk, kept) /\ c.steps # <<>>
  BY DEF FilesInv, MovesOn
<1>3. call.name \in {"save_library_node", "delete_library_node"} => PanelCallOK(disk, call)
  BY <1>1 DEF FilesInv, SessionNames
<1>4. call.name = "save_project" => SessionCallOK(kept, call)
  BY <1>1 DEF FilesInv, PanelNames
<1> SUFFICES StepDone(disk, disk', kept, call, n)
  OBVIOUS
<1> HIDE DEF call
<1>5. CASE call.name = "save_library_node"
  <2>1. PICK item : call.arg = {item} /\ UnderWay(disk, c, ItemPath(item.id), ItemFile({item}))
    BY <1>1, <1>5 DEF StepsOK
  <2>2. PICK i : call.arg = {i} /\ Known(disk, i)
    BY <1>3, <1>5 DEF PanelCallOK
  <2>3. item.id \in ItemIds
    <3>1. i = item  BY <2>1, <2>2
    <3> QED  BY <2>2, <3>1 DEF Known
  <2> QED  BY <1>2, <1>5, <2>1, <2>3, SavesAnItem
<1>6. CASE call.name = "delete_library_node"
  <2>1. PICK item : call.arg = {item} /\ Deleting(disk, c, item.id)
    BY <1>1, <1>6 DEF StepsOK
  <2>2. PICK i : call.arg = {i} /\ Known(disk, i)
    BY <1>3, <1>6 DEF PanelCallOK
  <2>3. Known(disk, item)
    <3>1. i = item  BY <2>1, <2>2
    <3> QED  BY <2>2, <3>1
  <2> QED  BY <1>2, <1>6, <2>1, <2>3, DeletesAnItem
<1>7. CASE call.name = "save_project"
  <2>1. PICK a : /\ call.arg = {a}
                 /\ UnderWay(disk, c, Project(a.path), ProjectFile({PROJECT_SCHEMA_VERSION}, {a.graph}))
    BY <1>1, <1>7 DEF StepsOK
  <2>2. PICK i : /\ call.arg = {i}
                 /\ i.path \in ProjectPaths /\ (kept[i.path] # {} => i.graph \in kept[i.path])
    BY <1>4, <1>7 DEF SessionCallOK
  <2>3. i = a  BY <2>1, <2>2
  <2> QED  BY <1>2, <1>7, <2>1, <2>2, <2>3, SavesAProject
<1>8. CASE call.name \in {"push_recent", "load_recents"}
  <2>1. WritingRecents(c)  BY <1>1, <1>8 DEF StepsOK
  <2> QED  BY <1>2, <1>8, <2>1, WritesRecents
<1>9. call.name \notin {"list_library_node", "load_project"}
  BY <1>1, <1>2 DEF StepsOK, Listing
<1> QED
  BY <1>1, <1>5, <1>6, <1>7, <1>8, <1>9 DEF PanelNames, SessionNames

-----------------------------------------------------------------------------
(* The calls.                                                               *)

LEMMA Callees ==
  /\ \A name, arg : Call(name, arg).name = name /\ Call(name, arg).arg = arg
  /\ NoCall.name = "none" /\ "panel" \in Callers /\ "refresh" \in Callers /\ "session" \in Callers
  /\ \A c \in Callers : c = "panel" \/ c = "refresh" \/ c = "session"
  BY DEF Call, NoCall, Callers

\* Asking for a command disturbs none that runs.
LEMMA Posts ==
  ASSUME FilesInv, NEW caller \in Callers, NEW name, NEW arg, Post(caller, name, arg)
  PROVE  /\ calls' = [c \in Callers |-> calls'[c]]
         /\ calls'[caller] = Call(name, {arg})
         /\ \A c \in Callers : c # caller => calls'[c] = calls[c]
         /\ \A c \in running : calls'[c.caller] = calls[c.caller]
<1>1. calls = [c \in Callers |-> calls[c]]  BY DEF FilesInv
<1>2. calls' = [calls EXCEPT ![caller] = Call(name, {arg})] /\ calls[caller] = NoCall
  BY DEF Post
<1>3. /\ calls' = [c \in Callers |-> calls'[c]]
      /\ calls'[caller] = Call(name, {arg})
      /\ \A c \in Callers : c # caller => calls'[c] = calls[c]
  BY <1>1, <1>2
<1>4. ASSUME NEW c \in running PROVE calls'[c.caller] = calls[c.caller]
  <2>1. c.caller \in Callers  BY DEF FilesInv, IsCommand
  <2>2. StepsOK(disk, calls[c.caller], c)  BY DEF FilesInv
  <2>3. calls[c.caller].name # "none"  BY <2>2 DEF StepsOK
  <2>4. c.caller # caller  BY <1>2, <2>3, Callees
  <2> QED  BY <1>3, <2>1, <2>4
<1> QED  BY <1>3, <1>4

\* The panel asks.
LEMMA PanelPosts ==
  ASSUME FilesInv, NEW name, NEW arg, Post("panel", name, arg),
         UNCHANGED <<disk, running, items, kept>>,
         PanelCallOK(disk, Call(name, {arg}))
  PROVE  FilesInv'
<1>1. /\ calls' = [c \in Callers |-> calls'[c]]
      /\ calls'["panel"] = Call(name, {arg})
      /\ calls'["session"] = calls["session"] /\ calls'["refresh"] = calls["refresh"]
      /\ \A c \in running : calls'[c.caller] = calls[c.caller]
  BY Posts, Callees
<1> QED  BY <1>1 DEF FilesInv

\* The session asks.
LEMMA SessionPosts ==
  ASSUME FilesInv, NEW name, NEW arg, Post("session", name, arg),
         UNCHANGED <<disk, running, items>>,
         SavedOK(disk, kept'), SessionCallOK(kept', Call(name, {arg}))
  PROVE  FilesInv'
<1>1. /\ calls' = [c \in Callers |-> calls'[c]]
      /\ calls'["session"] = Call(name, {arg})
      /\ calls'["panel"] = calls["panel"] /\ calls'["refresh"] = calls["refresh"]
      /\ \A c \in running : calls'[c.caller] = calls[c.caller]
  BY Posts, Callees
<1> QED  BY <1>1 DEF FilesInv

LEMMA InvSaveSelection ==
  ASSUME FilesInv, NEW selected, SaveSelection(selected)
  PROVE  FilesInv'
<1> DEFINE free == {id \in ItemIds : \A f \in DOMAIN disk : f[1] = "item" => f[2] # id}
           item == LibraryItem(CHOOSE id \in free : TRUE, Cardinality(selected),
                               PayloadFromSelection(graph, selected))
<1>1. free # {} /\ Post("panel", "save_library_node", item)
  BY DEF SaveSelection
<1>2. UNCHANGED <<disk, running, items, kept>>
  BY DEF SaveSelection, history
<1>3. item.id = CHOOSE id \in free : TRUE
  BY DEF LibraryItem
<1>4. item.id \in free
  <2> HIDE DEF free, item
  <2> QED  BY <1>1, <1>3
<1>5. item.id \in ItemIds /\ \A f \in DOMAIN disk : f[1] = "item" => f[2] # item.id
  <2> HIDE DEF item
  <2> QED  BY <1>4
<1> HIDE DEF free, item
<1>6. ItemPath(item.id) \notin DOMAIN disk
  BY <1>5, PathsDiffer
<1>7. Known(disk, item)  BY <1>5, <1>6 DEF Known
<1>8. PanelCallOK(disk, Call("save_library_node", {item}))
  BY <1>7, Callees DEF PanelCallOK
<1> QED  BY <1>1, <1>2, <1>8, PanelPosts

LEMMA InvDelete ==
  ASSUME FilesInv, NEW item \in ToSet(items), Delete(item)
  PROVE  FilesInv'
<1>1. Post("panel", "delete_library_node", item) /\ UNCHANGED <<disk, running, items, kept>>
  BY DEF Delete, history
<1>2. Known(disk, item)  BY DEF FilesInv
<1>3. PanelCallOK(disk, Call("delete_library_node", {item}))
  BY <1>2, Callees DEF PanelCallOK
<1> QED  BY <1>1, <1>3, PanelPosts

LEMMA InvRefresh ==
  ASSUME FilesInv, Refresh
  PROVE  FilesInv'
<1>1. Post("refresh", "list_library_node", "all") /\ UNCHANGED <<disk, running, items, kept>>
  BY DEF Refresh, history
<1>2. /\ calls' = [c \in Callers |-> calls'[c]]
      /\ calls'["refresh"] = Call("list_library_node", {"all"})
      /\ calls'["session"] = calls["session"] /\ calls'["panel"] = calls["panel"]
      /\ \A c \in running : calls'[c.caller] = calls[c.caller]
  <2>1. /\ calls' = [c \in Callers |-> calls'[c]]
        /\ calls'["refresh"] = Call("list_library_node", {"all"})
        /\ \A c \in Callers : c # "refresh" => calls'[c] = calls[c]
        /\ \A c \in running : calls'[c.caller] = calls[c.caller]
    BY <1>1, Posts, Callees
  <2> QED  BY <2>1, Callees
<1> QED  BY <1>1, <1>2, Callees DEF FilesInv

LEMMA InvSaveProject ==
  ASSUME FilesInv, NEW path \in ProjectPaths, SaveProject(path)
  PROVE  FilesInv'
<1> DEFINE a == [path |-> path, graph |-> graph]
<1>1. Post("session", "save_project", a) /\ UNCHANGED <<disk, running, items>>
  BY DEF SaveProject, web
<1>2. kept' = [kept EXCEPT ![path] = IF @ = {} THEN {} ELSE @ \cup {graph}]
  BY DEF SaveProject
<1>3. SavedOK(disk, kept)  BY DEF FilesInv
<1>4. kept = [p \in ProjectPaths |-> kept[p]]  BY <1>3 DEF SavedOK
<1>5. /\ kept' = [p \in ProjectPaths |-> kept'[p]]
      /\ \A p \in ProjectPaths : p # path => kept'[p] = kept[p]
      /\ kept'[path] = IF kept[path] = {} THEN {} ELSE kept[path] \cup {graph}
  BY <1>2, <1>4
<1>6. SavedOK(disk, kept')
  <2> SUFFICES ASSUME NEW p \in ProjectPaths, kept'[p] # {}
               PROVE  \E g \in kept'[p] : Holds(disk, Project(p), ProjectFile({PROJECT_SCHEMA_VERSION}, {g}))
    BY <1>5 DEF SavedOK
  <2>1. kept[p] # {} /\ kept[p] \subseteq kept'[p]  BY <1>5
  <2> QED  BY <1>3, <2>1 DEF SavedOK
<1>7. SessionCallOK(kept', Call("save_project", {a}))
  <2>1. a.path = path /\ a.graph = graph  OBVIOUS
  <2>2. kept'[path] # {} => graph \in kept'[path]  BY <1>5
  <2> HIDE DEF a
  <2> QED  BY <2>1, <2>2, Callees DEF SessionCallOK
<1> QED  BY <1>1, <1>6, <1>7, SessionPosts

\* The commands that save nothing.
LEMMA InvOpens ==
  ASSUME FilesInv, \/ \E path \in ProjectPaths : OpenProject(path)
                   \/ OpenRecentMenu
  PROVE  FilesInv'
<1>1. UNCHANGED <<disk, running, items, kept>>
  BY DEF OpenProject, OpenRecentMenu, web, history
<1>2. SavedOK(disk, kept')  BY <1>1 DEF FilesInv
<1>3. ASSUME NEW name \in {"load_project", "load_recents"}, NEW a, Post("session", name, a)
      PROVE  FilesInv'
  <2>1. SessionCallOK(kept', Call(name, {a}))
    <3> DEFINE call == Call(name, {a})
    <3>1. call.name = name /\ call.arg = {a}  BY Callees
    <3> SUFFICES SessionCallOK(kept', call)
      OBVIOUS
    <3> HIDE DEF call
    <3> QED  BY <1>3, <3>1 DEF SessionCallOK
  <2> QED  BY <1>1, <1>2, <1>3, <2>1, SessionPosts
<1> QED  BY <1>3 DEF OpenProject, OpenRecentMenu

-----------------------------------------------------------------------------
(* The main thread.                                                         *)

\* A command begins at its first step.
LEMMA PlanIsOK ==
  ASSUME FilesInv, NEW caller \in Callers, calls[caller].name # "none", NEW c,
         c.steps = Plan(calls[caller]).steps, c.answer = Plan(calls[caller]).answer
  PROVE  /\ StepsOK(disk, calls[caller], c)
         /\ calls[caller].name \in {"save_library_node", "delete_library_node"} =>
              ~(c.steps = <<>> /\ c.answer.kind = "Ok")
<1> DEFINE call == calls[caller]
<1>1. /\ \/ PanelCallOK(disk, call) /\ call.name \notin SessionNames
         \/ SessionCallOK(kept, call) /\ call.name \notin PanelNames
      /\ call.name # "none" /\ ItemsOnDisk(disk)
  <2>1. CASE caller = "panel"
    BY <2>1 DEF FilesInv, PanelCallOK, SessionNames
  <2>2. CASE caller = "refresh"
    BY <2>2 DEF FilesInv, PanelCallOK, SessionNames
  <2>3. CASE caller = "session"
    BY <2>3 DEF FilesInv, SessionCallOK, PanelNames
  <2> QED  BY <2>1, <2>2, <2>3, Callees
<1>2. c.steps = Plan(call).steps /\ c.answer = Plan(call).answer  OBVIOUS
<1> SUFFICES /\ StepsOK(disk, call, c)
             /\ call.name \in {"save_library_node", "delete_library_node"} =>
                  ~(c.steps = <<>> /\ c.answer.kind = "Ok")
  OBVIOUS
<1> HIDE DEF call
<1>3. \A v : Ok(v).kind = "Ok" /\ Ok(v).value = v  BY DEF Ok
<1>4. CASE call.name = "list_library_node"
  <2>1. Plan(call) = [steps |-> <<>>, answer |-> Ok({ListItems(disk)})]
    BY <1>4 DEF Plan
  <2>2. c.steps = <<>> /\ c.answer = Ok({ListItems(disk)})  BY <1>2, <2>1
  <2>3. \A item \in ToSet(ListItems(disk)) : Known(disk, item)
    <3> SUFFICES ASSUME NEW item \in ItemsIn(disk) PROVE Known(disk, item)
      BY ListsWhatIsFound
    <3>1. item.id \in ItemIds /\ Stored(disk, item.id)  BY <1>1, ListedAreStored
    <3> QED  BY <3>1 DEF Known, Stored
  <2>4. Listing(disk, c)  BY <2>2, <2>3 DEF Listing
  <2> QED  BY <1>4, <2>4 DEF StepsOK
<1>5. CASE call.name = "save_library_node"
  <2>1. PICK item : call.arg = {item}
    BY <1>1, <1>5 DEF PanelCallOK, SessionNames, PanelNames
  <2>2. Plan(call) = SaveItem(item)  BY <1>5, <2>1 DEF Plan
  <2>3. /\ c.steps = WriteAtomically(ItemPath(item.id), ItemFile({item}))
        /\ c.answer = Ok({})
    BY <1>2, <2>2 DEF SaveItem
  <2>4. UnderWay(disk, c, ItemPath(item.id), ItemFile({item}))
    BY <1>3, <2>3, StepsOfAWrite DEF UnderWay
  <2>5. c.steps # <<>>  BY <2>3, StepsOfAWrite, NotDone
  <2> QED  BY <1>5, <2>1, <2>4, <2>5 DEF StepsOK
<1>6. CASE call.name = "delete_library_node"
  <2>1. PICK item : call.arg = {item}
    BY <1>1, <1>6 DEF PanelCallOK, SessionNames, PanelNames
  <2>2. Plan(call) = DeleteItem(disk, item.id)  BY <1>6, <2>1 DEF Plan
  <2>3. Deleting(disk, c, item.id) /\ ~(c.steps = <<>> /\ c.answer.kind = "Ok")
    <3>1. CASE ItemPath(item.id) \in DOMAIN disk
      <4>1. c.steps = <<Step("remove", ItemPath(item.id), Torn)>> /\ c.answer = Ok({})
        BY <1>2, <2>2, <3>1 DEF DeleteItem
      <4>2. c.steps # <<>>  BY <4>1, NotDone
      <4> QED  BY <1>3, <3>1, <4>1, <4>2 DEF Deleting
    <3>2. CASE ItemPath(item.id) \notin DOMAIN disk
      <4>1. c.steps = <<>> /\ c.answer = LibraryError("NotFound")
        BY <1>2, <2>2, <3>2 DEF DeleteItem
      <4>2. c.answer.kind = "NotFound"  BY <4>1 DEF LibraryError
      <4> QED  BY <3>2, <4>1, <4>2 DEF Deleting
    <3> QED  BY <3>1, <3>2
  <2> QED  BY <1>6, <2>1, <2>3 DEF StepsOK
<1>7. CASE call.name = "save_project"
  <2>1. PICK a : call.arg = {a}
    BY <1>1, <1>7 DEF SessionCallOK, SessionNames, PanelNames
  <2>2. Plan(call) = [steps |-> SaveToFile(a.path, a.graph), answer |-> Ok({})]
    BY <1>7, <2>1 DEF Plan
  <2>3. /\ c.steps = WriteAtomically(Project(a.path), ProjectFile({PROJECT_SCHEMA_VERSION}, {a.graph}))
        /\ c.answer = Ok({})
    BY <1>2, <2>2 DEF SaveToFile
  <2>4. UnderWay(disk, c, Project(a.path), ProjectFile({PROJECT_SCHEMA_VERSION}, {a.graph}))
    BY <1>3, <2>3, StepsOfAWrite DEF UnderWay
  <2> QED  BY <1>7, <2>1, <2>4 DEF StepsOK
<1>8. CASE call.name = "load_project"
  <2>1. c.steps = <<>>
    BY <1>2, <1>8 DEF Plan
  <2> QED  BY <1>8, <2>1 DEF StepsOK
<1>9. CASE call.name = "push_recent"
  <2>1. PICK list : c.steps = WriteRecents(list)
    BY <1>2, <1>9 DEF Plan, PushRecent
  <2>2. WritingRecents(c)  BY <2>1, StepsOfAWrite DEF WritingRecents, WriteRecents
  <2> QED  BY <1>9, <2>2 DEF StepsOK
<1>10. CASE call.name = "load_recents"
  <2>1. c.steps = WriteRecents(Pruned(disk)) \/ c.steps = <<>>
    BY <1>2, <1>10 DEF Plan, LoadRecents
  <2>2. WritingRecents(c)  BY <2>1, StepsOfAWrite DEF WritingRecents, WriteRecents
  <2> QED  BY <1>10, <2>2 DEF StepsOK
<1> QED
  BY <1>1, <1>4, <1>5, <1>6, <1>7, <1>8, <1>9, <1>10
  DEF PanelCallOK, SessionCallOK, PanelNames, SessionNames

LEMMA InvBegin ==
  ASSUME FilesInv, NEW caller \in Callers, Begin(caller)
  PROVE  FilesInv'
<1> DEFINE plan == Plan(calls[caller])
           c == [caller |-> caller, steps |-> plan.steps, answer |-> plan.answer]
<1>1. running' = {c} /\ calls[caller].name # "none" /\ UNCHANGED <<disk, calls, items, kept>>
  BY DEF Begin, web, history
<1>2. IsCommand(c) /\ c.caller = caller  BY DEF IsCommand
<1>3. StepsOK(disk, calls[caller], c)
  <2>1. c.steps = plan.steps /\ c.answer = plan.answer  OBVIOUS
  <2> HIDE DEF c
  <2> QED  BY <1>1, <2>1, PlanIsOK
<1> HIDE DEF c
<1> QED  BY <1>1, <1>2, <1>3 DEF FilesInv

LEMMA InvPerform ==
  ASSUME FilesInv, NEW c \in running, Perform(c)
  PROVE  FilesInv'
<1>1. PICK n : /\ running' = {n} /\ IsCommand(n) /\ n.caller = c.caller
               /\ MovesOn(disk, disk', c, n)
  BY StepTaken
<1>2. StepDone(disk, disk', kept, calls[c.caller], n)
  BY <1>1, Performs
<1>3. UNCHANGED <<calls, items, kept>>  BY DEF Perform, web
<1>4. StepsOK(disk', calls'[n.caller], n) /\ ItemsOnDisk(disk') /\ Knows(disk, disk') /\ SavedOK(disk', kept')
  BY <1>1, <1>2, <1>3 DEF StepDone, DiskMoves
<1>5. \A item \in ToSet(items') : Known(disk', item)
  BY <1>3, <1>4 DEF FilesInv, Knows
<1>6. PanelCallOK(disk', calls'["panel"])
  BY <1>3, <1>4 DEF FilesInv, Knows, PanelCallOK
<1> QED  BY <1>1, <1>3, <1>4, <1>5, <1>6 DEF FilesInv

\* A command that fails has nothing left to do, and does not succeed.
LEMMA Fails ==
  ASSUME FilesInv, NEW c \in running, Fail(c)
  PROVE  \E n : /\ running' = {n} /\ IsCommand(n) /\ n.caller = c.caller /\ n.steps = <<>>
                /\ StepsOK(disk, calls[c.caller], n)
                /\ c.steps # <<>> \/ calls[c.caller].name \in {"list_library_node", "load_project"}
                /\ calls[c.caller].name # "load_recents" => n.answer = LibraryError("Io")
<1> DEFINE answer == IF calls[c.caller].name = "load_recents" THEN c.answer ELSE LibraryError("Io")
           n == [caller |-> c.caller, steps |-> <<>>, answer |-> answer]
<1>1. IsCommand(c) /\ StepsOK(disk, calls[c.caller], c)
  BY CommandsAreAwaited
<1>2. c.steps # <<>> \/ calls[c.caller].name \in {"list_library_node", "load_project"}
  BY DEF Fail
<1>3. running' = {n}  BY DEF Fail
<1>4. n.caller = c.caller /\ n.steps = <<>> /\ n.answer = answer
      /\ n = [caller |-> n.caller, steps |-> n.steps, answer |-> n.answer]
  OBVIOUS
<1> HIDE DEF n
<1>5. IsCommand(n)  BY <1>1, <1>4 DEF IsCommand
<1>6. StepsOK(disk, calls[c.caller], n)
  BY <1>1, <1>4 DEF StepsOK, Listing, UnderWay, Deleting, WritingRecents
<1>7. calls[c.caller].name # "load_recents" => n.answer = LibraryError("Io")
  BY <1>4
<1> QED  BY <1>2, <1>3, <1>4, <1>5, <1>6, <1>7

LEMMA InvFail ==
  ASSUME FilesInv, NEW c \in running, Fail(c)
  PROVE  FilesInv'
<1>1. PICK n : /\ running' = {n} /\ IsCommand(n) /\ n.caller = c.caller
               /\ StepsOK(disk, calls[c.caller], n)
  BY Fails
<1>2. UNCHANGED <<disk, calls, items, kept>>  BY DEF Fail, web, history
<1> QED  BY <1>1, <1>2 DEF FilesInv

-----------------------------------------------------------------------------
(* Answers, and what happens from outside.                                  *)

\* A listing that succeeds brings a list.
LEMMA ListAnswered ==
  ASSUME NEW d, NEW call, NEW c, StepsOK(d, call, c),
         call.name = "list_library_node", c.answer.kind = "Ok"
  PROVE  \E list : c.answer.value = {list} /\ \A item \in ToSet(list) : Known(d, item)
<1>1. Listing(d, c)  BY DEF StepsOK
<1>2. c.answer # LibraryError("Io")  BY DEF LibraryError
<1>3. PICK list : c.answer = Ok({list}) /\ \A item \in ToSet(list) : Known(d, item)
  BY <1>1, <1>2 DEF Listing
<1>4. c.answer.value = {list}  BY <1>3 DEF Ok
<1> QED  BY <1>3, <1>4

LEMMA InvAnswerPanel ==
  ASSUME FilesInv, NEW c \in running, Answer(c), c.caller \in {"panel", "refresh"}
  PROVE  FilesInv'
<1> DEFINE call == calls[c.caller]
<1>1. StepsOK(disk, call, c)
  BY CommandsAreAwaited
<1>2. PanelAnswered(c.caller, c.answer) /\ running' = {} /\ UNCHANGED <<disk, kept>>
  BY DEF Answer, PanelAnswered, history
<1>3. calls = [x \in Callers |-> calls[x]]  BY DEF FilesInv
<1>4. /\ calls' = [x \in Callers |-> calls'[x]]
      /\ calls'["session"] = calls["session"]
      /\ \A x \in {"panel", "refresh"} :
           calls'[x] = calls[x] \/ calls'[x] \in {NoCall, Call("list_library_node", {})}
  BY <1>2, <1>3, Callees DEF PanelAnswered, Listed, Changed
<1>5. \A item \in ToSet(items') : Known(disk, item)
  <2>1. CASE items' = items
    BY <2>1 DEF FilesInv
  <2>2. CASE items' # items
    <3>1. call.name = "list_library_node" /\ c.answer.kind = "Ok"
          /\ items' = CHOOSE list \in c.answer.value : TRUE
      <4>1. IF call.name = "list_library_node" THEN Listed(c.caller, c.answer) ELSE Changed(c.answer)
        BY <1>2 DEF PanelAnswered
      <4>2. ~ Changed(c.answer)
        BY <2>2 DEF Changed
      <4>3. call.name = "list_library_node" /\ Listed(c.caller, c.answer)
        BY <4>1, <4>2
      <4>4. c.answer.kind = "Ok" /\ items' = CHOOSE list \in c.answer.value : TRUE
        BY <2>2, <4>3 DEF Listed
      <4> QED  BY <4>3, <4>4
    <3>2. PICK list : c.answer.value = {list} /\ \A item \in ToSet(list) : Known(disk, item)
      BY <1>1, <3>1, ListAnswered
    <3>3. items' = list  BY <3>1, <3>2
    <3> QED  BY <3>2, <3>3
  <2> QED  BY <2>1, <2>2
<1>6. PanelCallOK(disk, calls'["panel"]) /\ calls'["refresh"].name \in {"none", "list_library_node"}
  BY <1>4, Callees DEF FilesInv, PanelCallOK
<1> QED  BY <1>2, <1>4, <1>5, <1>6 DEF FilesInv

LEMMA InvAnswerSession ==
  ASSUME FilesInv, NEW c \in running, Answer(c), c.caller = "session"
  PROVE  FilesInv'
<1>1. StepsOK(disk, calls["session"], c) /\ calls["session"].name \in SessionNames
  BY CommandsAreAwaited
<1>2. SessionAnswered(calls["session"], c.answer) /\ running' = {} /\ UNCHANGED <<disk, items>>
  BY DEF Answer, SessionAnswered
<1>3. SessionCallOK(kept, calls["session"]) /\ SavedOK(disk, kept)
      /\ calls = [x \in Callers |-> calls[x]]
  BY DEF FilesInv
<1>4. PICK a : calls["session"].arg = {a}
  BY <1>1, <1>3 DEF SessionCallOK, SessionNames
<1>5. CASE calls["session"].name \in {"save_project", "load_project"} /\ c.answer.kind = "Ok"
  <2>1. /\ calls' = [calls EXCEPT !["session"] = Call("push_recent", {a})]
        /\ kept' = IF calls["session"].name = "save_project" THEN [kept EXCEPT ![a.path] = {a.graph}] ELSE kept
    BY <1>2, <1>4, <1>5 DEF SessionAnswered
  <2>2. /\ calls' = [x \in Callers |-> calls'[x]]
        /\ calls'["panel"] = calls["panel"] /\ calls'["refresh"] = calls["refresh"]
        /\ calls'["session"] = Call("push_recent", {a})
    BY <1>3, <2>1, Callees
  <2>3. SessionCallOK(kept', calls'["session"])
    <3> DEFINE next == calls'["session"]
    <3>1. next.name = "push_recent" /\ next.arg = {a}  BY <2>2, Callees
    <3> SUFFICES SessionCallOK(kept', next)
      OBVIOUS
    <3> HIDE DEF next
    <3> QED  BY <3>1 DEF SessionCallOK
  <2>4. SavedOK(disk, kept')
    <3>1. CASE calls["session"].name = "load_project"
      BY <1>3, <2>1, <3>1
    <3>2. CASE calls["session"].name = "save_project"
      <4>1. Holds(disk, Project(a.path), ProjectFile({PROJECT_SCHEMA_VERSION}, {a.graph}))
        <5>1. PICK b : /\ calls["session"].arg = {b}
                       /\ UnderWay(disk, c, Project(b.path), ProjectFile({PROJECT_SCHEMA_VERSION}, {b.graph}))
          BY <1>1, <3>2 DEF StepsOK
        <5>2. b = a  BY <1>4, <5>1
        <5>3. c.steps = <<>>  BY DEF Answer
        <5>4. c.answer # LibraryError("Io")  BY <1>5 DEF LibraryError
        <5> QED  BY <5>1, <5>2, <5>3, <5>4, NotDone, Zenon DEF UnderWay
      <4>2. kept = [p \in ProjectPaths |-> kept[p]]  BY <1>3 DEF SavedOK
      <4>3. kept' = [kept EXCEPT ![a.path] = {a.graph}]  BY <2>1, <3>2
      <4>4. /\ kept' = [p \in ProjectPaths |-> kept'[p]]
            /\ \A p \in ProjectPaths : kept'[p] = IF p = a.path THEN {a.graph} ELSE kept[p]
        BY <4>2, <4>3
      <4>5. ASSUME NEW p \in ProjectPaths, kept'[p] # {}
            PROVE  \E g \in kept'[p] : Holds(disk, Project(p), ProjectFile({PROJECT_SCHEMA_VERSION}, {g}))
        <5>1. CASE p = a.path
          <6>1. kept'[p] = {a.graph}  BY <4>4, <5>1
          <6> QED  BY <4>1, <5>1, <6>1
        <5>2. CASE p # a.path
          BY <1>3, <4>4, <4>5, <5>2 DEF SavedOK
        <5> QED  BY <5>1, <5>2
      <4> QED  BY <4>4, <4>5 DEF SavedOK
    <3> QED  BY <1>5, <3>1, <3>2
  <2> QED  BY <1>2, <2>2, <2>3, <2>4 DEF FilesInv
<1>6. CASE ~(calls["session"].name \in {"save_project", "load_project"} /\ c.answer.kind = "Ok")
  <2>1. calls' = [calls EXCEPT !["session"] = NoCall] /\ kept' = kept
    BY <1>2, <1>4, <1>6 DEF SessionAnswered
  <2>2. /\ calls' = [x \in Callers |-> calls'[x]]
        /\ calls'["panel"] = calls["panel"] /\ calls'["refresh"] = calls["refresh"]
        /\ calls'["session"] = NoCall
    BY <1>3, <2>1, Callees
  <2>3. SessionCallOK(kept', calls'["session"])
    BY <2>2, Callees DEF SessionCallOK
  <2> QED  BY <1>2, <2>1, <2>2, <2>3 DEF FilesInv
<1> QED  BY <1>5, <1>6

LEMMA InvRelaunch ==
  ASSUME FilesInv, Relaunch
  PROVE  FilesInv'
<1>1. UNCHANGED <<disk, kept>> /\ running' = {} /\ items' = <<>> /\ calls' = Mounted
  BY DEF Relaunch
<1>2. /\ calls' = [c \in Callers |-> calls'[c]]
      /\ calls'["refresh"].name = "list_library_node"
      /\ calls'["panel"] = NoCall /\ calls'["session"] = NoCall
  BY <1>1, Callees DEF Mounted
<1>3. PanelCallOK(disk, calls'["panel"]) /\ SessionCallOK(kept, calls'["session"])
  BY <1>2, Callees DEF PanelCallOK, SessionCallOK
<1> QED  BY <1>1, <1>2, <1>3, EmptyList DEF FilesInv

LEMMA InvRemoveProject ==
  ASSUME FilesInv, NEW path \in ProjectPaths, RemoveProject(path)
  PROVE  FilesInv' /\ ShelfOf(disk') = ShelfOf(disk)
<1>1. /\ disk' = Without(disk, Project(path)) /\ kept' = [kept EXCEPT ![path] = {}]
      /\ running' = {} /\ UNCHANGED <<calls, items>>
  BY DEF RemoveProject, Without, web
<1>2. \A f : f # Project(path) => Agree(disk, disk', f)
  BY <1>1, WithoutRemoves
<1>3. \A f : IsItemFile(f) => Agree(disk, disk', f)
  BY <1>2, ItemPathsAreItemFiles
<1>4. ItemsOnDisk(disk') /\ ShelfOf(disk') = ShelfOf(disk)
  BY <1>3, ShelfStays DEF FilesInv
<1>5. Knows(disk, disk')
  <2> SUFFICES ASSUME NEW item, Known(disk, item) PROVE Known(disk', item)
    BY DEF Knows
  <2>1. IsItemFile(ItemPath(item.id))  BY ItemPathsAreItemFiles DEF Known
  <2> QED  BY <1>3, <2>1, KnownStays
<1>6. SavedOK(disk, kept)  BY DEF FilesInv
<1>7. kept = [p \in ProjectPaths |-> kept[p]]  BY <1>6 DEF SavedOK
<1>8. /\ kept' = [p \in ProjectPaths |-> kept'[p]] /\ kept'[path] = {}
      /\ \A p \in ProjectPaths : p # path => kept'[p] = kept[p]
  BY <1>1, <1>7
<1>9. \A p : p # path => Agree(disk, disk', Project(p))
  <2>1. \A p : Project(p)[2] = p  BY PathsDiffer
  <2> QED  BY <1>2, <2>1
<1>10. SavedOK(disk', kept')
  <2> SUFFICES ASSUME NEW p \in ProjectPaths, kept'[p] # {}
               PROVE  \E g \in kept'[p] : Holds(disk', Project(p), ProjectFile({PROJECT_SCHEMA_VERSION}, {g}))
    BY <1>8 DEF SavedOK
  <2>1. p # path /\ kept'[p] = kept[p]  BY <1>8
  <2>2. PICK g \in kept[p] : Holds(disk, Project(p), ProjectFile({PROJECT_SCHEMA_VERSION}, {g}))
    BY <1>6, <2>1 DEF SavedOK
  <2>3. Agree(disk, disk', Project(p))  BY <1>9, <2>1
  <2> QED  BY <2>1, <2>2, <2>3 DEF Agree, Holds
<1>11. PanelCallOK(disk', calls'["panel"])
  BY <1>1, <1>5 DEF FilesInv, Knows, PanelCallOK
<1>12. SessionCallOK(kept', calls'["session"])
  <2>1. SessionCallOK(kept, calls["session"])  BY DEF FilesInv
  <2>2. \A p \in ProjectPaths : kept'[p] = kept[p] \/ kept'[p] = {}  BY <1>8
  <2> QED  BY <1>1, <2>1, <2>2 DEF SessionCallOK
<1>13. \A item \in ToSet(items') : Known(disk', item)
  BY <1>1, <1>5 DEF FilesInv, Knows
<1> QED  BY <1>1, <1>4, <1>10, <1>11, <1>12, <1>13 DEF FilesInv

LEMMA FilesInit ==
  ASSUME Init
  PROVE  FilesInv
<1>1. ASSUME NEW f \in DOMAIN disk, IsItemFile(f), disk[f].whole
      PROVE  f = ItemPath(f[2]) /\ \E item : item.id = f[2] /\ disk[f] = ItemFile({item})
  <2>1. f \notin DOMAIN Foreign
    BY <1>1, FilesAssumption DEF IsItemFile
  <2>2. f \in DOMAIN OtherFiles /\ disk[f] = OtherFiles[f]  BY <2>1 DEF Init
  <2>3. PICK item : f = ItemPath(item.id) /\ OtherFiles[f] = ItemFile({item})
    BY <1>1, <2>2, FilesAssumption
  <2>4. f[2] = item.id  BY <2>3, PathsDiffer
  <2> QED  BY <2>2, <2>3, <2>4
<1>2. ItemsOnDisk(disk)  BY <1>1 DEF ItemsOnDisk
<1>3. running = {} /\ items = <<>> /\ kept = [p \in ProjectPaths |-> {}] /\ calls = Mounted
  BY DEF Init
<1>4. /\ calls = [c \in Callers |-> calls[c]]
      /\ calls["refresh"].name = "list_library_node"
      /\ calls["panel"] = NoCall /\ calls["session"] = NoCall
  BY <1>3, Callees DEF Mounted
<1>5. PanelCallOK(disk, calls["panel"]) /\ SessionCallOK(kept, calls["session"])
  BY <1>4, Callees DEF PanelCallOK, SessionCallOK
<1>6. SavedOK(disk, kept)  BY <1>3 DEF SavedOK
<1> QED  BY <1>2, <1>3, <1>4, <1>5, <1>6, EmptyList DEF FilesInv

LEMMA FilesNext ==
  ASSUME FilesInv, [Next]_vars
  PROVE  FilesInv'
<1>1. ASSUME NEW selected, SaveSelection(selected) PROVE FilesInv'
  BY <1>1, InvSaveSelection
<1>2. ASSUME NEW item \in ToSet(items), Delete(item) PROVE FilesInv'
  BY <1>2, InvDelete
<1>3. ASSUME NEW item \in ToSet(items), Insert(item) PROVE FilesInv'
  <2>1. UNCHANGED <<disk, running, calls, items, kept>>  BY <1>3 DEF Insert, history
  <2> QED  BY <2>1 DEF FilesInv
<1>4. ASSUME NEW path \in ProjectPaths, SaveProject(path) PROVE FilesInv'
  BY <1>4, InvSaveProject
<1>5. ASSUME NEW path \in ProjectPaths, OpenProject(path) PROVE FilesInv'
  BY <1>5, InvOpens
<1>6. ASSUME NEW path \in ProjectPaths, RemoveProject(path) PROVE FilesInv'
  BY <1>6, InvRemoveProject
<1>7. CASE Refresh  BY <1>7, InvRefresh
<1>8. CASE OpenRecentMenu  BY <1>8, InvOpens
<1>9. ASSUME NEW caller \in Callers, Begin(caller) PROVE FilesInv'
  BY <1>9, InvBegin
<1>10. ASSUME NEW c \in running, Perform(c) PROVE FilesInv'
  BY <1>10, InvPerform
<1>11. ASSUME NEW c \in running, Fail(c) PROVE FilesInv'
  BY <1>11, InvFail
<1>12. ASSUME NEW c \in running, Answer(c) PROVE FilesInv'
  <2>1. c.caller \in {"panel", "refresh"} \/ c.caller = "session"
    BY DEF FilesInv, IsCommand, Callers
  <2> QED  BY <1>12, <2>1, InvAnswerPanel, InvAnswerSession
<1>13. CASE Relaunch  BY <1>13, InvRelaunch
<1>14. CASE UNCHANGED vars
  <2>1. UNCHANGED <<disk, running, calls, items, kept>>  BY <1>14 DEF vars, web, history
  <2> QED  BY <2>1 DEF FilesInv
<1> QED
  BY <1>1, <1>2, <1>3, <1>4, <1>5, <1>6, <1>7, <1>8, <1>9, <1>10, <1>11, <1>12, <1>13, <1>14
  DEF Next

LEMMA FilesInvariant == Spec => []FilesInv
<1>1. Init => FilesInv  BY FilesInit
<1>2. FilesInv /\ [Next]_vars => FilesInv'  BY FilesNext
<1> QED  BY <1>1, <1>2, PTL DEF Spec

-----------------------------------------------------------------------------
(* A project that has been saved loads, whatever fails and whenever the     *)
(* process ends: its saved is replaced by a rename, never written itself.    *)
THEOREM SavedProjectsAlwaysLoad == Spec => []SavedProjectsLoad
<1>1. FilesInv => SavedProjectsLoad
  <2> SUFFICES ASSUME FilesInv, NEW path \in ProjectPaths, kept[path] # {}
               PROVE  \E project \in kept[path] : LoadFromFile(disk, path) = Ok({project})
    BY DEF SavedProjectsLoad
  <2>1. PICK g \in kept[path] : Holds(disk, Project(path), ProjectFile({PROJECT_SCHEMA_VERSION}, {g}))
    BY DEF FilesInv, SavedOK
  <2> DEFINE saved == ProjectFile({PROJECT_SCHEMA_VERSION}, {g})
  <2>2. LoadFromFile(disk, path) = FromJson(saved)
    BY <2>1 DEF LoadFromFile, Holds
  <2>3. saved.whole /\ saved.version = {1} /\ saved.project = {g}
    BY DEF ProjectFile, PROJECT_SCHEMA_VERSION
  <2>4. FromJson(saved) = Ok({g})
    <3> HIDE DEF saved
    <3> QED  BY <2>3 DEF FromJson, PROJECT_SCHEMA_VERSION
  <2> QED  BY <2>2, <2>4
<1> QED  BY <1>1, FilesInvariant, PTL

-----------------------------------------------------------------------------
(* The list of recent projects.                                             *)

InOrder(list, t) ==
  /\ list \in Seq(ProjectPaths) /\ Len(list) <= MAX_RECENTS
  /\ \A i, j \in 1..Len(list) : i < j => t[list[i]] > t[list[j]]

\* The list is in order but for its first, which is about to become the latest.
LedBy(list, path, t) ==
  /\ list \in Seq(ProjectPaths) /\ Len(list) \in 1..MAX_RECENTS
  /\ list[1] = path
  /\ \A i \in 2..Len(list) : list[i] # path
  /\ \A i, j \in 2..Len(list) : i < j => t[list[i]] > t[list[j]]

WritesOut(c, list) ==
  \/ c.steps = <<Step("open", Recents, Torn), Step("write", Recents, RecentsFile(list))>>
  \/ c.steps = <<Step("write", Recents, RecentsFile(list))>>

\* What the command c will write is a list in order by then.
ListGoesOn(t, call, c) ==
  c.steps # <<>> =>
    /\ call.name = "push_recent" =>
         \E list, a : WritesOut(c, list) /\ call.arg = {a} /\ LedBy(list, a.path, t)
    /\ call.name = "load_recents" => \E list : WritesOut(c, list) /\ InOrder(list, t)

OfAProject(call) ==
  call.name \in {"save_project", "load_project", "push_recent"} =>
    \E a : call.arg = {a} /\ a.path \in ProjectPaths

Turns(t) ==
  /\ t \in [ProjectPaths -> Nat]
  /\ ProjectPaths # {} => \E m \in ProjectPaths : \A p \in ProjectPaths : t[p] <= t[m]

RecentsInv ==
  /\ Turns(turn)
  /\ InOrder(ReadRecentsRaw(disk), turn)
  /\ OfAProject(calls["session"])
  /\ \A c \in running : ListGoesOn(turn, calls[c.caller], c)

\* A set of numbers has a least one.
LEMMA LeastNumber ==
  ASSUME NEW S \in SUBSET Nat, S # {}
  PROVE  \E n \in S : \A m \in S : n <= m
<1> DEFINE Less == OpToRel(<, Nat)
<1>1. \A x, y \in Nat : x < y => <<x, y>> \in Less
  BY Zenon DEF OpToRel
<1>2. IsWellFoundedOn(Less, Nat)
  BY NatLessThanWellFounded
<1> HIDE DEF Less
<1>3. \E x \in S : \A y \in S : ~ (<<y, x>> \in Less)
  BY <1>2, WFMin
<1>4. PICK x \in S : \A y \in S : ~ (<<y, x>> \in Less)
  BY <1>3
<1>5. ASSUME NEW m \in S PROVE x <= m
  <2>1. ~ (m < x)
    BY <1>1, <1>4
  <2> QED BY <2>1
<1> QED BY <1>5

\* The filter of a list, entry by entry.
LEMMA AmongSteps ==
  ASSUME NEW T, NEW list \in Seq(T), NEW S
  PROVE  \E f : /\ f = [k \in 0..Len(list) |->
                          IF k = 0 THEN <<>>
                          ELSE IF list[k] \in S THEN Append(f[k-1], list[k]) ELSE f[k-1]]
                /\ Among(list, S) = f[Len(list)]
<1> DEFINE N == Len(list)
           Next1(r, k) == IF list[k] \in S THEN Append(r, list[k]) ELSE r
           Steps(g, n) == g = [k \in 0..n |-> IF k = 0 THEN <<>> ELSE Next1(g[k-1], k)]
           Bad == {n \in Nat : ~ \E g : Steps(g, n)}
<1>0. N \in Nat
  OBVIOUS
<1>1. ASSUME Bad # {} PROVE FALSE
  <2> HIDE DEF Next1
  <2>1. PICK n \in Bad : \A m \in Bad : n <= m
    BY <1>1, LeastNumber, Zenon
  <2>2. CASE n = 0
    <3>1. Steps([k \in 0..0 |-> <<>>], 0)
      OBVIOUS
    <3> QED BY <3>1, <2>2
  <2>3. CASE n # 0
    <3>1. n \in Nat
      BY <2>1
    <3> HIDE DEF Bad
    <3>2. n - 1 \in Nat /\ n - 1 \notin Bad
      BY <2>1, <2>3, <3>1
    <3> USE DEF Bad
    <3>3. n - 1 \in Nat /\ n - 1 \notin Bad
      BY <3>2, Zenon
    <3>4. PICK g : Steps(g, n - 1)
      BY <3>3
    <3> DEFINE h == [k \in 0..n |-> IF k = n THEN Next1(g[n-1], n) ELSE g[k]]
    <3>5. ASSUME NEW k \in 0..n
          PROVE  h[k] = IF k = 0 THEN <<>> ELSE Next1(h[k-1], k)
      <4>1. CASE k = n
        <5>1. h[k-1] = g[n-1]
          BY <4>1, <2>3
        <5> QED BY <4>1, <5>1, <2>3
      <4>2. CASE k # n
        <5>1. k \in 0..n-1 /\ (k # 0 => k-1 \in 0..n-1 /\ k-1 # n /\ k-1 \in 0..n)
          BY <4>2
        <5>2. g[k] = IF k = 0 THEN <<>> ELSE Next1(g[k-1], k)
          BY <3>4, <5>1
        <5> QED BY <4>2, <5>1, <5>2
      <4> QED BY <4>1, <4>2
    <3>6. Steps(h, n)
      BY <3>5
    <3> QED BY <3>6
  <2> QED BY <2>2, <2>3
<1> DEFINE f == CHOOSE g : g = [k \in 0..Len(list) |->
                   IF k = 0 THEN <<>>
                   ELSE IF list[k] \in S THEN Append(g[k-1], list[k]) ELSE g[k-1]]
<1>2. \E g : Steps(g, N)
  BY <1>0, <1>1
<1>3. Steps(f, N)
  BY <1>2
<1>4. Among(list, S) = f[N]
  BY DEF Among
<1> QED BY <1>3, <1>4

\* Filtering keeps the order: what is left is in S and was in the list.
LEMMA AmongKeepsOrder ==
  ASSUME NEW T, NEW list \in Seq(T), NEW S, NEW t \in [T -> Nat],
         \A i, j \in 1..Len(list) : i < j => t[list[i]] > t[list[j]]
  PROVE  LET r == Among(list, S)
         IN  /\ r \in Seq(T) /\ Len(r) <= Len(list)
             /\ \A i \in 1..Len(r) : r[i] \in S
             /\ \A i, j \in 1..Len(r) : i < j => t[r[i]] > t[r[j]]
<1> DEFINE N == Len(list)
           Good(r, k) == /\ r \in Seq(T) /\ Len(r) <= k
                         /\ \A i \in 1..Len(r) : r[i] \in S /\ \E m \in 1..k : r[i] = list[m]
                         /\ \A i, j \in 1..Len(r) : i < j => t[r[i]] > t[r[j]]
<1>1. PICK f : /\ f = [k \in 0..N |->
                         IF k = 0 THEN <<>>
                         ELSE IF list[k] \in S THEN Append(f[k-1], list[k]) ELSE f[k-1]]
               /\ Among(list, S) = f[N]
  BY AmongSteps
<1>2. N \in Nat
  OBVIOUS
<1>3. f[0] = <<>>
  <2>1. 0 \in 0..N  BY <1>2
  <2> QED BY ONLY <2>1, <1>1
<1>4. \A k \in 0..N : k # 0 => f[k] = IF list[k] \in S THEN Append(f[k-1], list[k]) ELSE f[k-1]
  BY ONLY <1>1, Zenon
<1>5. ASSUME NEW k \in 1..N, NEW r, Good(r, k-1)
      PROVE  Good(r, k) /\ (list[k] \in S => Good(Append(r, list[k]), k))
  <2>1. Good(r, k)
    BY <1>2, <1>5
  <2>2. ASSUME list[k] \in S PROVE Good(Append(r, list[k]), k)
    <3> DEFINE s == Append(r, list[k])
    <3>1. r \in Seq(T) /\ list[k] \in T /\ Len(r) \in Nat
      BY <1>5
    <3>2. /\ s \in Seq(T) /\ Len(s) = Len(r) + 1 /\ s[Len(r)+1] = list[k]
          /\ \A i \in 1..Len(r) : s[i] = r[i]
      BY <3>1
    <3> HIDE DEF s
    <3>3. \A i \in 1..Len(s) : i \in 1..Len(r) \/ i = Len(r) + 1
      BY <3>1, <3>2
    <3>4. Len(s) <= k
      BY <3>2, <1>5
    <3>5. ASSUME NEW i \in 1..Len(s) PROVE s[i] \in S /\ \E m \in 1..k : s[i] = list[m]
      <4>1. CASE i \in 1..Len(r)
        <5>1. PICK m \in 1..k-1 : r[i] = list[m]
          BY <1>5, <4>1
        <5>2. m \in 1..k /\ s[i] = list[m]
          BY <5>1, <4>1, <3>2
        <5>3. r[i] \in S
          BY <4>1, <1>5
        <5> QED BY <5>2, <5>3, <4>1, <3>2
      <4>2. CASE i = Len(r) + 1
        BY <4>2, <3>2, <2>2
      <4> QED BY <3>3, <4>1, <4>2
    <3>6. ASSUME NEW i \in 1..Len(s), NEW j \in 1..Len(s), i < j PROVE t[s[i]] > t[s[j]]
      <4>0. i \in 1..Len(r)
        BY <3>1, <3>2, <3>6
      <4>1. CASE j \in 1..Len(r)
        BY <4>0, <4>1, <3>2, <1>5, <3>6
      <4>2. CASE j = Len(r) + 1
        <5>1. PICK m \in 1..k-1 : r[i] = list[m]
          BY <1>5, <4>0
        <5>2. t[list[m]] > t[list[k]]
          BY <5>1
        <5> QED BY <4>0, <4>2, <5>1, <5>2, <3>2
      <4> QED BY <3>3, <4>1, <4>2
    <3> QED BY <3>2, <3>4, <3>5, <3>6 DEF s
  <2> QED BY <2>1, <2>2
<1>6. Good(<<>>, 0)
  OBVIOUS
<1> HIDE DEF Good
<1>7. \A k \in 0..N : Good(f[k], k)
  <2> DEFINE Bad == {k \in 0..N : ~Good(f[k], k)}
  <2>1. Bad \in SUBSET Nat
    OBVIOUS
  <2>2. ASSUME Bad # {} PROVE FALSE
    <3>1. PICK k \in Bad : \A m \in Bad : k <= m
      BY <2>1, <2>2, LeastNumber, Zenon
    <3>2. k # 0
      BY <3>1, <1>3, <1>6
    <3>3. k \in 1..N /\ k - 1 \in 0..N /\ k - 1 \notin Bad
      BY <3>1, <3>2, <1>2
    <3>4. Good(f[k-1], k-1)
      BY <3>3
    <3>5. f[k] = IF list[k] \in S THEN Append(f[k-1], list[k]) ELSE f[k-1]
      BY <3>2, <3>3, <1>4
    <3>6. Good(f[k-1], k) /\ (list[k] \in S => Good(Append(f[k-1], list[k]), k))
      BY <3>3, <3>4, <1>5
    <3>7. Good(f[k], k)
      BY <3>5, <3>6
    <3> QED BY <3>1, <3>7
  <2> QED BY <2>2
<1>8. Good(f[N], N)
  BY <1>2, <1>7
<1> QED BY <1>1, <1>8 DEF Good

\* The list that push_recent writes.
LEMMA PushedIsLed ==
  ASSUME NEW list, NEW t, Turns(t), InOrder(list, t), NEW path \in ProjectPaths
  PROVE  LedBy(Pushed(list, path), path, t)
<1> DEFINE others == Among(list, Range(list) \ {path})
           front == <<path>> \o others
           n == IF Len(others) < MAX_RECENTS THEN Len(others) + 1 ELSE MAX_RECENTS
<1>1. /\ others \in Seq(ProjectPaths) /\ Len(others) <= Len(list)
      /\ \A i \in 1..Len(others) : others[i] # path
      /\ \A i, j \in 1..Len(others) : i < j => t[others[i]] > t[others[j]]
  <2>1. list \in Seq(ProjectPaths) /\ t \in [ProjectPaths -> Nat]
        /\ \A i, j \in 1..Len(list) : i < j => t[list[i]] > t[list[j]]
    BY DEF InOrder, Turns
  <2>2. LET r == Among(list, Range(list) \ {path})
        IN  /\ r \in Seq(ProjectPaths) /\ Len(r) <= Len(list)
            /\ \A i \in 1..Len(r) : r[i] \in Range(list) \ {path}
            /\ \A i, j \in 1..Len(r) : i < j => t[r[i]] > t[r[j]]
    BY <2>1, AmongKeepsOrder, Zenon
  <2> QED BY <2>2
<1> HIDE DEF others
<1>2. Len(others) \in Nat /\ MAX_RECENTS \in Nat \ {0}
  BY <1>1, StoreAssumption
<1>3. <<path>> \in Seq(ProjectPaths) /\ Len(<<path>>) = 1 /\ <<path>>[1] = path
  OBVIOUS
<1>4. /\ front \in Seq(ProjectPaths) /\ Len(front) = Len(others) + 1 /\ front[1] = path
      /\ \A i \in 2..Len(front) : front[i] = others[i-1]
  BY <1>1, <1>2, <1>3
<1> HIDE DEF front
<1>5. n \in 1..MAX_RECENTS /\ n <= Len(front)
  BY <1>2, <1>4
<1>6. Pushed(list, path) = SubSeq(front, 1, n)
  BY DEF Pushed, front, others
<1> HIDE DEF n
<1>7. /\ SubSeq(front, 1, n) \in Seq(ProjectPaths) /\ Len(SubSeq(front, 1, n)) = n
      /\ \A i \in 1..n : SubSeq(front, 1, n)[i] = front[i]
  BY <1>4, <1>5
<1>8. \A i \in 2..n : i \in 1..n /\ i \in 2..Len(front) /\ i-1 \in 1..Len(others)
  BY <1>2, <1>4, <1>5
<1> DEFINE r == Pushed(list, path)
<1> HIDE DEF r
<1>9. /\ r \in Seq(ProjectPaths) /\ Len(r) = n
      /\ \A i \in 1..n : r[i] = front[i]
  BY <1>6, <1>7 DEF r
<1>10. Len(r) \in 1..MAX_RECENTS /\ r[1] = path
  BY <1>2, <1>4, <1>5, <1>9
<1>11. \A i \in 2..n : r[i] = others[i-1]
  BY <1>4, <1>8, <1>9
<1>12. \A i \in 2..n : r[i] # path
  BY <1>1, <1>8, <1>11
<1>13. ASSUME NEW i \in 2..n, NEW j \in 2..n, i < j PROVE t[r[i]] > t[r[j]]
  <2>1. i-1 < j-1 /\ i-1 \in 1..Len(others) /\ j-1 \in 1..Len(others)
    BY <1>8, <1>13, <1>5
  <2>2. t[others[i-1]] > t[others[j-1]]
    BY <2>1, <1>1
  <2> QED BY <2>2, <1>11
<1>14. LedBy(r, path, t)
  BY <1>9, <1>10, <1>12, <1>13 DEF LedBy
<1> QED BY <1>14 DEF r

\* The list that load_recents writes.
LEMMA PrunedIsInOrder ==
  ASSUME NEW d, NEW t, Turns(t), InOrder(ReadRecentsRaw(d), t)
  PROVE  InOrder(Pruned(d), t)
<1> DEFINE list == ReadRecentsRaw(d)
           there == {p \in Range(list) : Project(p) \in DOMAIN d}
<1>1. /\ list \in Seq(ProjectPaths) /\ t \in [ProjectPaths -> Nat] /\ Len(list) <= MAX_RECENTS
      /\ \A i, j \in 1..Len(list) : i < j => t[list[i]] > t[list[j]]
  BY DEF InOrder, Turns
<1>2. Pruned(d) = Among(list, there)
  BY DEF Pruned
<1> HIDE DEF list, there
<1>3. /\ Pruned(d) \in Seq(ProjectPaths) /\ Len(Pruned(d)) <= Len(list)
      /\ \A i, j \in 1..Len(Pruned(d)) : i < j => t[Pruned(d)[i]] > t[Pruned(d)[j]]
  <2>1. LET r == Among(list, there)
        IN  /\ r \in Seq(ProjectPaths) /\ Len(r) <= Len(list)
            /\ \A i \in 1..Len(r) : r[i] \in there
            /\ \A i, j \in 1..Len(r) : i < j => t[r[i]] > t[r[j]]
    BY <1>1, AmongKeepsOrder, Zenon
  <2> QED BY <2>1, <1>2
<1>4. Len(Pruned(d)) <= MAX_RECENTS
  BY <1>1, <1>3, StoreAssumption
<1> HIDE DEF Pruned
<1> QED BY <1>3, <1>4 DEF InOrder

LEMMA EmptyIsInOrder == \A t : InOrder(<<>>, t)
  BY StoreAssumption DEF InOrder

\* Its turn makes the first of the list the latest.
LEMMA TurnTaken ==
  ASSUME NEW t, Turns(t), NEW path \in ProjectPaths, NEW list, LedBy(list, path, t), NEW u,
         u = [p \in ProjectPaths |-> IF p = path THEN 1 + Max(Range(t)) ELSE t[p]]
  PROVE  Turns(u) /\ InOrder(list, u)
<1> DEFINE top == Max(Range(t))
<1>1. t \in [ProjectPaths -> Nat] /\ \E m \in ProjectPaths : \A p \in ProjectPaths : t[p] <= t[m]
  BY DEF Turns
<1>2. top \in Nat /\ \A p \in ProjectPaths : t[p] <= top
  <2>1. Range(t) = {t[p] : p \in ProjectPaths}
    BY <1>1 DEF Range
  <2>2. \E x \in Range(t) : \A y \in Range(t) : x >= y
    BY <1>1, <2>1
  <2>3. top \in Range(t) /\ \A y \in Range(t) : top >= y
    BY <2>2 DEF Max
  <2> HIDE DEF top
  <2> QED BY <1>1, <2>1, <2>3
<1> HIDE DEF top
<1>3. u = [p \in ProjectPaths |-> IF p = path THEN 1 + top ELSE t[p]]
  BY DEF top
<1>4. u \in [ProjectPaths -> Nat] /\ u[path] = 1 + top /\ \A p \in ProjectPaths : p # path => u[p] = t[p]
  BY <1>1, <1>2, <1>3
<1>5. Turns(u)
  <2>1. \A p \in ProjectPaths : u[p] <= u[path]
    BY <1>1, <1>2, <1>4
  <2> QED BY <1>4, <2>1 DEF Turns
<1>6. list \in Seq(ProjectPaths) /\ Len(list) \in 1..MAX_RECENTS /\ list[1] = path
  BY DEF LedBy
<1>7. ASSUME NEW i \in 1..Len(list), NEW j \in 1..Len(list), i < j
      PROVE  u[list[i]] > u[list[j]]
  <2>1. j \in 2..Len(list) /\ list[j] \in ProjectPaths /\ list[i] \in ProjectPaths
    BY <1>6, <1>7
  <2>2. list[j] # path /\ u[list[j]] = t[list[j]]
    BY <2>1, <1>4 DEF LedBy
  <2>3. CASE i = 1
    BY <2>1, <2>2, <2>3, <1>1, <1>2, <1>4, <1>6
  <2>4. CASE i # 1
    <3>1. i \in 2..Len(list)
      BY <1>6, <2>4
    <3>2. list[i] # path /\ t[list[i]] > t[list[j]]
      BY <2>1, <3>1, <1>7 DEF LedBy
    <3> QED BY <2>1, <2>2, <3>2, <1>4
  <2> QED BY <2>3, <2>4
<1> QED BY <1>5, <1>6, <1>7, StoreAssumption DEF InOrder

LEMMA ReadsTheSame ==
  ASSUME NEW d, NEW e, Agree(d, e, Recents)
  PROVE  ReadRecentsRaw(e) = ReadRecentsRaw(d)
BY DEF Agree, ReadRecentsRaw

\* Where the file and the turns stay, the calls and commands decide.
LEMMA RecentsStay ==
  ASSUME RecentsInv, Agree(disk, disk', Recents), turn' = turn,
         OfAProject(calls'["session"]),
         \A c \in running' : ListGoesOn(turn, calls'[c.caller], c)
  PROVE  RecentsInv'
BY ReadsTheSame DEF RecentsInv

LEMMA SameAgrees == \A d, f : Agree(d, d, f)
  BY DEF Agree

\* A command that has nothing left to do.
LEMMA NothingToList == \A t, call, c : c.steps = <<>> => ListGoesOn(t, call, c)
  BY DEF ListGoesOn

\* Asking for a command changes no list.
LEMMA RecentsPosts ==
  ASSUME FilesInv, RecentsInv, NEW caller \in Callers, NEW name, NEW arg,
         Post(caller, name, arg), UNCHANGED <<disk, running, turn>>,
         caller = "session" => OfAProject(Call(name, {arg}))
  PROVE  RecentsInv'
<1>1. /\ calls'[caller] = Call(name, {arg})
      /\ \A c \in Callers : c # caller => calls'[c] = calls[c]
      /\ \A c \in running : calls'[c.caller] = calls[c.caller]
  BY Posts
<1>2. OfAProject(calls'["session"])
  BY <1>1, Callees DEF RecentsInv
<1>3. \A c \in running' : ListGoesOn(turn, calls'[c.caller], c)
  BY <1>1 DEF RecentsInv
<1> QED BY <1>2, <1>3, SameAgrees, RecentsStay

\* Commands that are not about the list leave its file alone.
LEMMA OtherSteps ==
  ASSUME FilesInv, NEW c \in running, Perform(c),
         calls[c.caller].name \notin {"push_recent", "load_recents"}
  PROVE  Agree(disk, disk', Recents)
<1> DEFINE call == calls[c.caller]
<1>1. PICK n : MovesOn(disk, disk', c, n)
  BY StepTaken
<1>2. StepsOK(disk, call, c) /\ c.steps # <<>> /\ disk' = Performed(disk, Head(c.steps))
  BY <1>1, CommandsAreAwaited DEF MovesOn
<1>3. /\ \A id : ItemPath(id) # Recents /\ Temporary(ItemPath(id)) # Recents /\ Temporary(ItemPath(id)) # ItemPath(id)
      /\ \A p : Project(p) # Recents /\ Temporary(Project(p)) # Recents /\ Temporary(Project(p)) # Project(p)
  <2>1. \A id : Len(ItemPath(id)) = 2 /\ Len(Temporary(ItemPath(id))) = 3
    BY PathsDiffer
  <2>2. \A p : Len(Project(p)) = 2 /\ Len(Temporary(Project(p))) = 3
    BY PathsDiffer
  <2>3. Len(Recents) = 1
    BY DEF Recents
  <2> QED BY <2>1, <2>2, <2>3
<1>4. ASSUME NEW path, NEW content, UnderWay(disk, c, path, content),
             path # Recents, Temporary(path) # Recents, Temporary(path) # path
      PROVE  Agree(disk, disk', Recents)
  BY <1>1, <1>4, ReplacementGoesOn DEF OnlyAt
<1>5. ASSUME NEW id, Deleting(disk, c, id) PROVE Agree(disk, disk', Recents)
  <2>1. c.steps = <<Step("remove", ItemPath(id), Torn)>>
    BY <1>2, <1>5 DEF Deleting
  <2>2. disk' = Without(disk, ItemPath(id))
    BY <1>2, <2>1, NotDone, StepDoes
  <2> QED BY <2>2, <1>3, WithoutRemoves
<1> HIDE DEF call
<1>6. \/ \E item : UnderWay(disk, c, ItemPath(item.id), ItemFile({item}))
      \/ \E item : Deleting(disk, c, item.id)
      \/ \E a : UnderWay(disk, c, Project(a.path), ProjectFile({PROJECT_SCHEMA_VERSION}, {a.graph}))
  BY <1>2 DEF StepsOK, Listing, call
<1>7. CASE \E item : UnderWay(disk, c, ItemPath(item.id), ItemFile({item}))
  BY <1>3, <1>4, <1>7
<1>8. CASE \E item : Deleting(disk, c, item.id)
  BY <1>5, <1>8
<1>9. CASE \E a : UnderWay(disk, c, Project(a.path), ProjectFile({PROJECT_SCHEMA_VERSION}, {a.graph}))
  BY <1>3, <1>4, <1>9
<1> QED BY <1>6, <1>7, <1>8, <1>9

\* What a command about the list does to it, step by step.
LEMMA WritesGoOn ==
  ASSUME NEW d, NEW e, NEW c, NEW n, MovesOn(d, e, c, n), NEW list, WritesOut(c, list)
  PROVE  \/ /\ Head(c.steps).op = "open" /\ n.steps # <<>> /\ WritesOut(n, list)
            /\ ReadRecentsRaw(e) = <<>>
         \/ /\ Head(c.steps).op = "write" /\ n.steps = <<>>
            /\ ReadRecentsRaw(e) = list
<1>1. e = Performed(d, Head(c.steps)) /\ n.steps = Tail(c.steps)
  BY DEF MovesOn
<1>2. CASE c.steps = <<Step("open", Recents, Torn), Step("write", Recents, RecentsFile(list))>>
  <2>1. /\ Head(c.steps) = Step("open", Recents, Torn)
        /\ n.steps = <<Step("write", Recents, RecentsFile(list))>>
    BY <1>1, <1>2, NotDone
  <2>2. e = Put(d, Recents, Torn)
    BY <1>1, <2>1, StepDoes
  <2>3. ReadRecentsRaw(e) = <<>>
    BY <2>2, PutPlaces DEF Holds, ReadRecentsRaw, Torn
  <2>4. Head(c.steps).op = "open"
    BY <2>1 DEF Step
  <2> QED BY <2>1, <2>3, <2>4, NotDone DEF WritesOut
<1>3. CASE c.steps = <<Step("write", Recents, RecentsFile(list))>>
  <2>1. Head(c.steps) = Step("write", Recents, RecentsFile(list)) /\ n.steps = <<>>
    BY <1>1, <1>3, NotDone
  <2>2. e = Put(d, Recents, RecentsFile(list))
    BY <1>1, <2>1, StepDoes
  <2>3. ReadRecentsRaw(e) = list
    BY <2>2, PutPlaces DEF Holds, ReadRecentsRaw, RecentsFile
  <2>4. Head(c.steps).op = "write"
    BY <2>1 DEF Step
  <2> QED BY <2>1, <2>3, <2>4
<1> QED BY <1>2, <1>3 DEF WritesOut

LEMMA RecentsPerform ==
  ASSUME FilesInv, RecentsInv, NEW c \in running, Perform(c)
  PROVE  RecentsInv'
<1> DEFINE call == calls[c.caller]
<1>1. PICK n : /\ running' = {n} /\ n.caller = c.caller /\ MovesOn(disk, disk', c, n)
  BY StepTaken
<1>2. /\ calls' = calls /\ c.steps # <<>>
      /\ turn' = IF Head(c.steps).op = "write" /\ call.name = "push_recent"
                 THEN [p \in ProjectPaths |-> IF \E arg \in call.arg : arg.path = p
                                              THEN 1 + Max(Range(turn)) ELSE turn[p]]
                 ELSE turn
  BY DEF Perform
<1>3. /\ Turns(turn) /\ ListGoesOn(turn, call, c)
      /\ OfAProject(calls["session"])
  BY DEF RecentsInv
<1>4. call.name = "push_recent" => call = calls["session"]
  BY CommandsAreAwaited DEF PanelNames
<1>5. /\ calls'[n.caller] = call /\ OfAProject(calls'["session"])
  BY <1>1, <1>2, <1>3
<1>6. SUFFICES /\ Turns(turn') /\ InOrder(ReadRecentsRaw(disk'), turn')
               /\ ListGoesOn(turn', call, n)
  BY <1>1, <1>5 DEF RecentsInv
<1>7. CASE call.name \notin {"push_recent", "load_recents"}
  <2>1. Agree(disk, disk', Recents) /\ turn' = turn
    BY <1>2, <1>7, OtherSteps
  <2>2. ListGoesOn(turn', call, n)
    BY <1>7 DEF ListGoesOn
  <2> QED BY <2>1, <2>2, ReadsTheSame DEF RecentsInv
<1> HIDE DEF call
<1>8. CASE call.name = "load_recents"
  <2>1. PICK list : WritesOut(c, list) /\ InOrder(list, turn)
    BY <1>2, <1>3, <1>8 DEF ListGoesOn
  <2>2. turn' = turn
    BY <1>2, <1>8
  <2>3. InOrder(ReadRecentsRaw(disk'), turn)
    BY <1>1, <2>1, WritesGoOn, EmptyIsInOrder
  <2>4. ListGoesOn(turn, call, n)
    BY <1>1, <1>8, <2>1, WritesGoOn DEF ListGoesOn
  <2> QED BY <1>3, <2>2, <2>3, <2>4
<1>9. CASE call.name = "push_recent"
  <2>1. PICK list, a : WritesOut(c, list) /\ call.arg = {a} /\ LedBy(list, a.path, turn)
    BY <1>2, <1>3, <1>9 DEF ListGoesOn
  <2>2. a.path \in ProjectPaths
    <3>1. PICK b : call.arg = {b} /\ b.path \in ProjectPaths
      BY <1>3, <1>4, <1>9 DEF OfAProject
    <3>2. b = a
      BY <2>1, <3>1
    <3> QED BY <3>1, <3>2
  <2>3. CASE /\ Head(c.steps).op = "open" /\ n.steps # <<>> /\ WritesOut(n, list)
             /\ ReadRecentsRaw(disk') = <<>>
    <3>1. turn' = turn
      BY <1>2, <2>3
    <3>2. ListGoesOn(turn, call, n)
      BY <1>9, <2>1, <2>3 DEF ListGoesOn
    <3> QED BY <1>3, <2>3, <3>1, <3>2, EmptyIsInOrder
  <2>4. CASE /\ Head(c.steps).op = "write" /\ n.steps = <<>>
             /\ ReadRecentsRaw(disk') = list
    <3>1. turn' = [p \in ProjectPaths |-> IF p = a.path THEN 1 + Max(Range(turn)) ELSE turn[p]]
      <4>1. \A p : (\E arg \in call.arg : arg.path = p) <=> p = a.path
        BY <2>1
      <4> DEFINE top == 1 + Max(Range(turn))
      <4>2. turn' = [p \in ProjectPaths |-> IF \E arg \in call.arg : arg.path = p THEN top ELSE turn[p]]
        BY <1>2, <1>9, <2>4
      <4> HIDE DEF top
      <4>3. turn' = [p \in ProjectPaths |-> IF p = a.path THEN top ELSE turn[p]]
        BY <4>1, <4>2
      <4> QED BY <4>3 DEF top
    <3>2. Turns(turn') /\ InOrder(list, turn')
      BY <1>3, <2>1, <2>2, <3>1, TurnTaken
    <3> QED BY <2>4, <3>2, NothingToList
  <2> QED BY <1>1, <2>1, <2>3, <2>4, WritesGoOn
<1> QED BY <1>7, <1>8, <1>9

\* A command begins with a list made of the file as it is then.
LEMMA RecentsBegin ==
  ASSUME FilesInv, RecentsInv, NEW caller \in Callers, Begin(caller)
  PROVE  RecentsInv'
<1> DEFINE call == calls[caller]
           c == [caller |-> caller, steps |-> Plan(call).steps, answer |-> Plan(call).answer]
<1>1. running' = {c} /\ UNCHANGED <<disk, calls, turn>>
  BY DEF Begin, web, history
<1>2. c.caller = caller /\ c.steps = Plan(call).steps
  OBVIOUS
<1> HIDE DEF c
<1>3. Turns(turn) /\ InOrder(ReadRecentsRaw(disk), turn) /\ OfAProject(calls["session"])
  BY DEF RecentsInv
<1>4. call.name = "push_recent" => call = calls["session"]
  BY Callees DEF FilesInv, PanelCallOK
<1>5. ASSUME call.name = "push_recent" PROVE ListGoesOn(turn, call, c)
  <2>1. PICK a : call.arg = {a} /\ a.path \in ProjectPaths
    BY <1>3, <1>4, <1>5 DEF OfAProject
  <2> DEFINE list == Pushed(ReadRecentsRaw(disk), a.path)
  <2>2. c.steps = WriteRecents(list)
    <3>1. Plan(call) = PushRecent(disk, a.path)
      BY <1>5, <2>1 DEF Plan
    <3> QED BY <1>2, <3>1 DEF PushRecent
  <2>3. WritesOut(c, list)
    BY <2>2, StepsOfAWrite DEF WritesOut, WriteRecents
  <2>4. LedBy(list, a.path, turn)
    BY <1>3, <2>1, PushedIsLed
  <2> HIDE DEF list
  <2> QED BY <1>5, <2>1, <2>3, <2>4 DEF ListGoesOn
<1>6. ASSUME call.name = "load_recents" PROVE ListGoesOn(turn, call, c)
  <2>1. Plan(call) = LoadRecents(disk)
    BY <1>6 DEF Plan
  <2>2. c.steps = WriteRecents(Pruned(disk)) \/ c.steps = <<>>
    BY <1>2, <2>1 DEF LoadRecents
  <2>3. c.steps = <<>> \/ WritesOut(c, Pruned(disk))
    BY <2>2, StepsOfAWrite DEF WritesOut, WriteRecents
  <2>4. InOrder(Pruned(disk), turn)
    BY <1>3, PrunedIsInOrder
  <2> QED BY <1>6, <2>3, <2>4 DEF ListGoesOn
<1>7. ListGoesOn(turn, call, c)
  BY <1>5, <1>6 DEF ListGoesOn
<1> QED BY <1>1, <1>2, <1>3, <1>7, SameAgrees, RecentsStay

\* An answer ends the command; a project that was saved or loaded is to be the latest.
LEMMA RecentsAnswer ==
  ASSUME FilesInv, RecentsInv, NEW c \in running, Answer(c)
  PROVE  RecentsInv'
<1>1. running' = {} /\ UNCHANGED <<disk, turn>>
  BY DEF Answer, PanelAnswered, SessionAnswered, history
<1>2. calls = [x \in Callers |-> calls[x]]
  BY DEF FilesInv
<1>3. OfAProject(calls'["session"])
  <2>1. CASE c.caller \in {"panel", "refresh"}
    <3>1. PanelAnswered(c.caller, c.answer)
      BY <2>1 DEF Answer
    <3>2. calls'["session"] = calls["session"]
      BY <2>1, <3>1, <1>2, Callees DEF PanelAnswered, Listed, Changed
    <3> QED BY <3>2 DEF RecentsInv
  <2>2. CASE c.caller = "session"
    <3>1. SessionAnswered(calls["session"], c.answer)
      BY <2>2 DEF Answer
    <3>2. PICK a : /\ a \in calls["session"].arg
                   /\ \/ /\ calls["session"].name \in {"save_project", "load_project"}
                         /\ calls' = [calls EXCEPT !["session"] = Call("push_recent", {a})]
                      \/ calls' = [calls EXCEPT !["session"] = NoCall]
      BY <3>1 DEF SessionAnswered
    <3>3. CASE /\ calls["session"].name \in {"save_project", "load_project"}
               /\ calls' = [calls EXCEPT !["session"] = Call("push_recent", {a})]
      <4>1. calls'["session"] = Call("push_recent", {a})
        BY <3>3, <1>2, Callees
      <4>2. a.path \in ProjectPaths
        BY <3>2, <3>3 DEF RecentsInv, OfAProject
      <4> DEFINE next == calls'["session"]
      <4>3. next.arg = {a}
        BY <4>1, Callees
      <4> HIDE DEF next
      <4>4. OfAProject(next)
        BY <4>2, <4>3 DEF OfAProject
      <4> QED BY <4>4 DEF next
    <3>4. CASE calls' = [calls EXCEPT !["session"] = NoCall]
      <4>1. calls'["session"] = NoCall
        BY <3>4, <1>2, Callees
      <4> QED BY <4>1, Callees DEF OfAProject
    <3> QED BY <3>2, <3>3, <3>4
  <2> QED BY <2>1, <2>2, CommandsAreAwaited
<1> QED BY <1>1, <1>3, SameAgrees, RecentsStay

LEMMA RecentsFail ==
  ASSUME FilesInv, RecentsInv, NEW c \in running, Fail(c)
  PROVE  RecentsInv'
<1>1. PICK n : running' = {n} /\ n.steps = <<>>
  BY Fails
<1>2. UNCHANGED <<disk, calls, turn>>
  BY DEF Fail, web, history
<1>3. OfAProject(calls'["session"])
  BY <1>2 DEF RecentsInv
<1> QED BY <1>1, <1>2, <1>3, NothingToList, SameAgrees, RecentsStay

LEMMA RecentsRelaunch ==
  ASSUME RecentsInv, Relaunch
  PROVE  RecentsInv'
<1>1. UNCHANGED <<disk, turn>> /\ running' = {} /\ calls' = Mounted
  BY DEF Relaunch
<1>2. calls'["session"] = NoCall
  BY <1>1, Callees DEF Mounted
<1>3. OfAProject(calls'["session"])
  BY <1>2, Callees DEF OfAProject
<1> QED BY <1>1, <1>3, SameAgrees, RecentsStay

LEMMA RecentsRemoveProject ==
  ASSUME RecentsInv, NEW path \in ProjectPaths, RemoveProject(path)
  PROVE  RecentsInv'
<1>1. disk' = Without(disk, Project(path)) /\ running = {} /\ UNCHANGED <<running, calls, turn>>
  BY DEF RemoveProject, Without, web
<1>2. Project(path) # Recents
  BY PathsDiffer
<1>3. Agree(disk, disk', Recents)
  BY <1>1, <1>2, WithoutRemoves
<1>4. OfAProject(calls'["session"])
  BY <1>1 DEF RecentsInv
<1> QED BY <1>1, <1>3, <1>4, RecentsStay

LEMMA RecentsInit ==
  ASSUME Init
  PROVE  RecentsInv
<1>1. Recents \notin DOMAIN disk
  <2>1. Recents \notin DOMAIN OtherFiles
    BY PathsDiffer, FilesAssumption
  <2>2. Recents \notin DOMAIN Foreign
    BY PathsDiffer, FilesAssumption
  <2> QED BY <2>1, <2>2 DEF Init
<1>2. InOrder(ReadRecentsRaw(disk), turn)
  BY <1>1, EmptyIsInOrder DEF ReadRecentsRaw
<1>3. Turns(turn)
  BY DEF Init, Turns
<1>4. OfAProject(calls["session"])
  <2>1. calls = Mounted
    BY DEF Init
  <2>2. calls["session"] = NoCall
    BY <2>1, Callees DEF Mounted
  <2> QED BY <2>2, Callees DEF OfAProject
<1>5. running = {}
  BY DEF Init
<1> QED BY <1>2, <1>3, <1>4, <1>5 DEF RecentsInv

LEMMA RecentsNext ==
  ASSUME FilesInv, RecentsInv, [Next]_vars
  PROVE  RecentsInv'
<1>1. ASSUME NEW selected, SaveSelection(selected) PROVE RecentsInv'
  <2>1. UNCHANGED <<disk, running, turn>>
    BY <1>1 DEF SaveSelection, history
  <2>2. \E item : Post("panel", "save_library_node", item)
    BY <1>1 DEF SaveSelection
  <2> QED BY <2>1, <2>2, RecentsPosts, Callees
<1>2. ASSUME NEW item, Delete(item) PROVE RecentsInv'
  <2>1. UNCHANGED <<disk, running, turn>> /\ Post("panel", "delete_library_node", item)
    BY <1>2 DEF Delete, history
  <2> QED BY <2>1, RecentsPosts, Callees
<1>3. ASSUME NEW item, Insert(item) PROVE RecentsInv'
  <2>1. UNCHANGED <<disk, running, calls, turn>>
    BY <1>3 DEF Insert, history
  <2> QED BY <2>1 DEF RecentsInv
<1>4. ASSUME NEW name, NEW arg, Post("session", name, arg), UNCHANGED <<disk, running, turn>>,
             name = "load_recents" \/ arg.path \in ProjectPaths
      PROVE  RecentsInv'
  <2>1. OfAProject(Call(name, {arg}))
    BY <1>4, Callees DEF OfAProject
  <2> QED BY <1>4, <2>1, RecentsPosts, Callees
<1>5. ASSUME NEW path \in ProjectPaths, SaveProject(path) PROVE RecentsInv'
  <2>1. Post("session", "save_project", [path |-> path, graph |-> graph])
    BY <1>5 DEF SaveProject
  <2>2. UNCHANGED <<disk, running, turn>>
    BY <1>5 DEF SaveProject
  <2> QED BY <2>1, <2>2, <1>4
<1>6. ASSUME NEW path \in ProjectPaths, OpenProject(path) PROVE RecentsInv'
  <2>1. Post("session", "load_project", [path |-> path, graph |-> EmptyGraph])
    BY <1>6 DEF OpenProject
  <2>2. UNCHANGED <<disk, running, turn>>
    BY <1>6 DEF OpenProject, history
  <2> QED BY <2>1, <2>2, <1>4
<1>7. CASE OpenRecentMenu
  <2>1. Post("session", "load_recents", [path |-> "", graph |-> EmptyGraph])
    BY <1>7 DEF OpenRecentMenu
  <2>2. UNCHANGED <<disk, running, turn>>
    BY <1>7 DEF OpenRecentMenu, history
  <2> QED BY <2>1, <2>2, <1>4
<1>8. CASE Refresh
  <2>1. UNCHANGED <<disk, running, turn>> /\ Post("refresh", "list_library_node", "all")
    BY <1>8 DEF Refresh, history
  <2> QED BY <2>1, RecentsPosts, Callees
<1>9. ASSUME NEW path \in ProjectPaths, RemoveProject(path) PROVE RecentsInv'
  BY <1>9, RecentsRemoveProject
<1>10. ASSUME NEW caller \in Callers, Begin(caller) PROVE RecentsInv'
  BY <1>10, RecentsBegin
<1>11. ASSUME NEW c \in running, Perform(c) \/ Fail(c) \/ Answer(c) PROVE RecentsInv'
  BY <1>11, RecentsPerform, RecentsFail, RecentsAnswer
<1>12. CASE Relaunch
  BY <1>12, RecentsRelaunch
<1>13. CASE UNCHANGED vars
  <2>1. UNCHANGED <<disk, running, calls, turn>>
    BY <1>13 DEF vars, history
  <2> QED BY <2>1 DEF RecentsInv
<1> QED
  BY <1>1, <1>2, <1>3, <1>5, <1>6, <1>7, <1>8, <1>9, <1>10, <1>11, <1>12, <1>13 DEF Next

(* Projects and the list of recent ones survive: the list is whole or empty,*)
(* within its limit and in the order of use, whatever fails and whenever    *)
(* the process ends.                                                        *)
THEOREM SessionFilesAlwaysHold == Spec => []SessionFilesHold
<1>1. Init => RecentsInv
  BY RecentsInit
<1>2. FilesInv /\ RecentsInv /\ [Next]_vars => RecentsInv'
  BY RecentsNext
<1>3. RecentsInv => RecentsAreInOrder
  <2>1. ASSUME NEW list \in Seq(ProjectPaths) PROVE DOMAIN list = 1..Len(list)
    OBVIOUS
  <2> QED BY <2>1 DEF RecentsInv, InOrder, RecentsAreInOrder
<1>4. SavedProjectsLoad /\ RecentsAreInOrder => SessionFilesHold
  BY DEF SessionFilesHold
<1> QED BY <1>1, <1>2, <1>3, <1>4, FilesInvariant, SavedProjectsAlwaysLoad, PTL DEF Spec

-----------------------------------------------------------------------------
(* Copies of items.                                                         *)

\* The filter of a list has the entries in the set and no other.
LEMMA AmongSelects ==
  ASSUME NEW T, NEW list \in Seq(T), NEW S
  PROVE  LET r == Among(list, S)
         IN  /\ r \in Seq(T)
             /\ \A i \in 1..Len(r) : r[i] \in S /\ \E m \in 1..Len(list) : r[i] = list[m]
             /\ \A m \in 1..Len(list) : list[m] \in S => \E i \in 1..Len(r) : r[i] = list[m]
<1> DEFINE N == Len(list)
           Good(r, k) == /\ r \in Seq(T)
                         /\ \A i \in 1..Len(r) : r[i] \in S /\ \E m \in 1..k : r[i] = list[m]
                         /\ \A m \in 1..k : list[m] \in S => \E i \in 1..Len(r) : r[i] = list[m]
<1>1. PICK f : /\ f = [k \in 0..N |->
                         IF k = 0 THEN <<>>
                         ELSE IF list[k] \in S THEN Append(f[k-1], list[k]) ELSE f[k-1]]
               /\ Among(list, S) = f[N]
  BY AmongSteps
<1>2. N \in Nat
  OBVIOUS
<1>3. f[0] = <<>>
  <2>1. 0 \in 0..N  BY <1>2
  <2> QED BY ONLY <2>1, <1>1
<1>4. \A k \in 0..N : k # 0 => f[k] = IF list[k] \in S THEN Append(f[k-1], list[k]) ELSE f[k-1]
  BY ONLY <1>1, Zenon
<1>5. ASSUME NEW k \in 1..N, NEW r, Good(r, k-1)
      PROVE  IF list[k] \in S THEN Good(Append(r, list[k]), k) ELSE Good(r, k)
  <2>0. \A m \in 1..k : m \in 1..k-1 \/ m = k
    BY <1>2
  <2>1. CASE list[k] \notin S
    <3>1. \A m \in 1..k-1 : m \in 1..k
      BY <1>2
    <3>2. Good(r, k)
      BY <2>0, <2>1, <3>1, <1>5
    <3> QED BY <2>1, <3>2
  <2>2. CASE list[k] \in S
    <3> DEFINE s == Append(r, list[k])
    <3>1. r \in Seq(T) /\ list[k] \in T /\ Len(r) \in Nat
      BY <1>5
    <3>2. /\ s \in Seq(T) /\ Len(s) = Len(r) + 1 /\ s[Len(r)+1] = list[k]
          /\ \A i \in 1..Len(r) : s[i] = r[i]
      BY <3>1
    <3> HIDE DEF s
    <3>3. \A i \in 1..Len(s) : i \in 1..Len(r) \/ i = Len(r) + 1
      BY <3>1, <3>2
    <3>4. ASSUME NEW i \in 1..Len(s) PROVE s[i] \in S /\ \E m \in 1..k : s[i] = list[m]
      <4>1. CASE i \in 1..Len(r)
        <5>1. PICK m \in 1..k-1 : r[i] = list[m]
          BY <1>5, <4>1
        <5>2. m \in 1..k /\ s[i] = list[m] /\ r[i] \in S
          BY <5>1, <4>1, <3>2, <1>5
        <5> QED BY <5>2, <4>1, <3>2
      <4>2. CASE i = Len(r) + 1
        BY <4>2, <3>2, <2>2
      <4> QED BY <3>3, <4>1, <4>2
    <3>5. ASSUME NEW m \in 1..k, list[m] \in S PROVE \E i \in 1..Len(s) : s[i] = list[m]
      <4>1. CASE m \in 1..k-1
        <5>1. PICK i \in 1..Len(r) : r[i] = list[m]
          BY <1>5, <3>5, <4>1
        <5>2. i \in 1..Len(s) /\ s[i] = list[m]
          BY <5>1, <3>1, <3>2
        <5> QED BY <5>2
      <4>2. CASE m = k
        <5>1. Len(r) + 1 \in 1..Len(s)
          BY <3>1, <3>2
        <5> QED BY <4>2, <5>1, <3>2
      <4> QED BY <2>0, <4>1, <4>2
    <3>6. Good(s, k)
      BY <3>2, <3>4, <3>5
    <3> QED BY <3>6, <2>2 DEF s
  <2> QED BY <2>1, <2>2
<1>6. Good(<<>>, 0)
  OBVIOUS
<1> HIDE DEF Good
<1>7. \A k \in 0..N : Good(f[k], k)
  <2> DEFINE Bad == {k \in 0..N : ~Good(f[k], k)}
  <2>1. Bad \in SUBSET Nat
    OBVIOUS
  <2>2. ASSUME Bad # {} PROVE FALSE
    <3>1. PICK k \in Bad : \A m \in Bad : k <= m
      BY <2>1, <2>2, LeastNumber, Zenon
    <3>2. k # 0
      BY <3>1, <1>3, <1>6
    <3>3. k \in 1..N /\ k - 1 \in 0..N /\ k - 1 \notin Bad
      BY <3>1, <3>2, <1>2
    <3>4. Good(f[k-1], k-1)
      BY <3>3
    <3>5. f[k] = IF list[k] \in S THEN Append(f[k-1], list[k]) ELSE f[k-1]
      BY <3>2, <3>3, <1>4
    <3>6. IF list[k] \in S THEN Good(Append(f[k-1], list[k]), k) ELSE Good(f[k-1], k)
      BY <3>3, <3>4, <1>5
    <3>7. Good(f[k], k)
      BY <3>5, <3>6
    <3> QED BY <3>1, <3>7
  <2> QED BY <2>2
<1>8. Good(f[N], N)
  BY <1>2, <1>7
<1> QED BY <1>1, <1>8 DEF Good

\* The entries of a list are finitely many, and so are the ids of its nodes.
LEMMA EntriesAreFinite ==
  ASSUME NEW nodes, IsFiniteSet(DOMAIN nodes)
  PROVE  IsFiniteSet({nodes[k].id : k \in DOMAIN nodes})
<1> DEFINE ids == {nodes[k].id : k \in DOMAIN nodes}
           f == [k \in DOMAIN nodes |-> nodes[k].id]
<1>1. f \in Surjection(DOMAIN nodes, ids)
  BY DEF Surjection
<1> QED BY <1>1, FS_Surjection

LEMMA ListsAreFinite ==
  ASSUME NEW T, NEW list \in Seq(T)
  PROVE  DOMAIN list = 1..Len(list) /\ IsFiniteSet(DOMAIN list)
BY FS_Interval

LEMMA ListOfNodes ==
  ASSUME NEW g, g.nodes \in Seq(Range(g.nodes))
  PROVE  IsFiniteSet(IdsOf(g))
BY ListsAreFinite, EntriesAreFinite DEF IdsOf

\* What an item is made of is whole.
LEMMA SelectionIsWhole ==
  ASSUME NEW g, WholeGraph(g), NEW selected \in SUBSET IdsOf(g), selected # {}
  PROVE  WholePayload(PayloadFromSelection(g, selected))
<1> DEFINE S == {n \in Range(g.nodes) : n.id \in selected}
           chosen == Among(g.nodes, S)
           inside == {e \in g.edges : e.source \in selected /\ e.target \in selected}
           into   == {e \in g.edges : e.source \notin selected /\ e.target \in selected}
           outof  == {e \in g.edges : e.source \in selected /\ e.target \notin selected}
           s == Subgraph(chosen, inside, {BoundaryPort("in", e.target) : e \in into}
                                         \cup {BoundaryPort("out", e.source) : e \in outof})
<1>0. PayloadFromSelection(g, selected) =
        IF Cardinality(selected) > 1 THEN Node(0, {s}) ELSE chosen[1]
  BY DEF PayloadFromSelection
<1>1. g.nodes \in Seq(Range(g.nodes)) /\ \A n \in Range(g.nodes) : n.id \in Nat /\ WholePayload(n)
  BY DEF WholeGraph
<1>2. /\ chosen \in Seq(Range(g.nodes))
      /\ \A i \in 1..Len(chosen) : chosen[i] \in S
      /\ \A m \in 1..Len(g.nodes) : g.nodes[m] \in S => \E i \in 1..Len(chosen) : chosen[i] = g.nodes[m]
  <2>1. LET r == Among(g.nodes, S)
        IN  /\ r \in Seq(Range(g.nodes))
            /\ \A i \in 1..Len(r) : r[i] \in S /\ \E m \in 1..Len(g.nodes) : r[i] = g.nodes[m]
            /\ \A m \in 1..Len(g.nodes) : g.nodes[m] \in S => \E i \in 1..Len(r) : r[i] = g.nodes[m]
    <3>1. g.nodes \in Seq(Range(g.nodes))
      BY <1>1
    <3> HIDE DEF S, chosen, s
    <3> QED BY ONLY <3>1, AmongSelects
  <2> QED BY <2>1
<1>3. DOMAIN g.nodes = 1..Len(g.nodes) /\ DOMAIN chosen = 1..Len(chosen) /\ IsFiniteSet(DOMAIN chosen)
  BY <1>1, <1>2, ListsAreFinite
<1> HIDE DEF chosen
<1>4. \A id \in selected : \E i \in DOMAIN chosen : chosen[i].id = id
  <2> SUFFICES ASSUME NEW id \in selected PROVE \E i \in DOMAIN chosen : chosen[i].id = id
    OBVIOUS
  <2>1. PICK m \in DOMAIN g.nodes : g.nodes[m].id = id
    BY DEF IdsOf
  <2>2. g.nodes[m] \in S
    BY <2>1 DEF Range
  <2>3. PICK i \in DOMAIN chosen : chosen[i] = g.nodes[m]
    BY <2>2, <1>2, <1>3
  <2> QED BY <2>1, <2>3
<1>5. CASE Cardinality(selected) > 1
  <2>1. s.nodes = chosen /\ s.edges = inside
        /\ s.boundaryPorts = {BoundaryPort("in", e.target) : e \in into}
                             \cup {BoundaryPort("out", e.source) : e \in outof}
    BY DEF Subgraph
  <2> HIDE DEF s
  <2>2. IdsOf(s) = {chosen[k].id : k \in DOMAIN chosen}
    BY <2>1 DEF IdsOf
  <2>3. IsFiniteSet(IdsOf(s))
    BY <2>2, <1>3, EntriesAreFinite
  <2>4. selected \subseteq IdsOf(s)
    BY <2>2, <1>4
  <2>5. IdsOf(s) \subseteq Nat
    BY <2>2, <1>1, <1>2, <1>3
  <2>6. \A e \in s.edges : {e.source, e.target} \subseteq IdsOf(s)
    BY <2>1, <2>4
  <2>7. \A p \in s.boundaryPorts : p.interiorNode \in IdsOf(s)
    <3>1. \A d, n : BoundaryPort(d, n).interiorNode = n
      BY DEF BoundaryPort
    <3>2. \A e \in into : e.target \in IdsOf(s)
      BY <2>4
    <3>3. \A e \in outof : e.source \in IdsOf(s)
      BY <2>4
    <3> HIDE DEF into, outof
    <3> QED BY <2>1, <3>1, <3>2, <3>3
  <2>8. WholeSubgraph(s)
    BY <2>3, <2>5, <2>6, <2>7 DEF WholeSubgraph
  <2>9. Node(0, {s}).body = {s} /\ IsFiniteSet({s})
    <3>1. IsFiniteSet({} \cup {s})
      BY FS_EmptySet, FS_AddElement
    <3>2. {} \cup {s} = {s}
      OBVIOUS
    <3> QED BY <3>1, <3>2 DEF Node
  <2> QED BY <1>0, <1>5, <2>8, <2>9 DEF WholePayload
<1>6. CASE ~(Cardinality(selected) > 1)
  <2>1. PICK i \in DOMAIN chosen : TRUE
    BY <1>4
  <2>2. 1 \in 1..Len(chosen)
    BY <2>1, <1>2, <1>3
  <2>3. WholePayload(chosen[1])
    BY <2>2, <1>1, <1>2
  <2> QED BY <1>0, <1>6, <2>3
<1> QED BY <1>5, <1>6

\* The ids of a copy are new ones, one for each node of the original.
LEMMA NewIds ==
  ASSUME NEW s, WholeSubgraph(s), NEW from \in Nat
  PROVE  \A n \in IdsOf(s) :
           /\ NewId(s, from, n) \in Nat
           /\ from < NewId(s, from, n) /\ NewId(s, from, n) <= from + Cardinality(IdsOf(s))
<1> SUFFICES ASSUME NEW n \in IdsOf(s)
             PROVE  /\ NewId(s, from, n) \in Nat
                    /\ from < NewId(s, from, n)
                    /\ NewId(s, from, n) <= from + Cardinality(IdsOf(s))
  OBVIOUS
<1> DEFINE below == {m \in IdsOf(s) : m <= n}
<1>1. IsFiniteSet(IdsOf(s)) /\ n \in Nat
  BY DEF WholeSubgraph
<1>2. IsFiniteSet(below) /\ Cardinality(below) <= Cardinality(IdsOf(s))
  BY <1>1, FS_Subset
<1>3. below # {}
  BY <1>1
<1>4. Cardinality(below) \in Nat /\ Cardinality(IdsOf(s)) \in Nat /\ Cardinality(below) # 0
  BY <1>1, <1>2, <1>3, FS_CardinalityType, FS_EmptySet
<1>5. NewId(s, from, n) = from + Cardinality(below)
  BY DEF NewId
<1> HIDE DEF below
<1> QED BY <1>2, <1>4, <1>5

LEMMA NewIdsDiffer ==
  ASSUME NEW s, WholeSubgraph(s), NEW from \in Nat, NEW a \in IdsOf(s), NEW b \in IdsOf(s),
         NewId(s, from, a) = NewId(s, from, b)
  PROVE  a = b
<1> DEFINE below(n) == {m \in IdsOf(s) : m <= n}
<1>1. IsFiniteSet(IdsOf(s)) /\ IdsOf(s) \subseteq Nat
  BY DEF WholeSubgraph
<1>2. \A n \in IdsOf(s) : IsFiniteSet(below(n)) /\ Cardinality(below(n)) \in Nat
  <2> TAKE n \in IdsOf(s)
  <2>1. below(n) \in SUBSET IdsOf(s)
    OBVIOUS
  <2> QED BY <1>1, <2>1, FS_Subset, FS_CardinalityType
<1>3. NewId(s, from, a) = from + Cardinality(below(a)) /\ NewId(s, from, b) = from + Cardinality(below(b))
  BY DEF NewId
<1>4. Cardinality(below(a)) = Cardinality(below(b))
  <2> DEFINE ca == Cardinality(below(a))
             cb == Cardinality(below(b))
  <2>1. ca \in Nat /\ cb \in Nat
    BY <1>2
  <2>2. from + ca = from + cb
    BY <1>3
  <2> HIDE DEF ca, cb
  <2>3. ca = cb
    BY <2>1, <2>2
  <2> QED BY <2>3 DEF ca, cb
<1>5. ASSUME NEW m \in IdsOf(s), NEW n \in IdsOf(s), m < n, Cardinality(below(m)) = Cardinality(below(n))
      PROVE  FALSE
  <2>1. below(m) \in SUBSET below(n)
    BY <1>1, <1>5
  <2>2. n \in below(n) /\ n \notin below(m)
    BY <1>1, <1>5
  <2> HIDE DEF below
  <2>3. IsFiniteSet(below(n)) /\ Cardinality(below(n)) = Cardinality(below(m))
    BY <1>2, <1>5
  <2>4. below(n) = below(m)
    BY ONLY <2>1, <2>3, FS_Subset
  <2> QED BY <2>2, <2>4
<1>6. a < b \/ b < a \/ a = b
  BY <1>1
<1> QED BY <1>4, <1>5, <1>6

\* A copy of a subgraph has those ids, and is wired as the original.
LEMMA CopyIsWired ==
  ASSUME NEW s, WholeSubgraph(s), NEW from \in Nat
  PROVE  LET t == Renumbered(s, from)
         IN  /\ IdsOf(t) = {NewId(s, from, n) : n \in IdsOf(s)}
             /\ WiredAlike(s, t) /\ WholeSubgraph(t)
<1> DEFINE t == Renumbered(s, from)
           new(n) == NewId(s, from, n)
           f == [id \in IdsOf(s) |-> t.nodes[CHOOSE k \in DOMAIN s.nodes : s.nodes[k].id = id].id]
<1>1. /\ t.nodes = [k \in DOMAIN s.nodes |-> Node(new(s.nodes[k].id), s.nodes[k].body)]
      /\ t.edges = {Edge(new(e.source), new(e.target)) : e \in s.edges}
      /\ t.boundaryPorts = {BoundaryPort(p.direction, new(p.interiorNode)) : p \in s.boundaryPorts}
  BY DEF Renumbered, Subgraph
<1>2. /\ IdsOf(s) \subseteq Nat /\ IsFiniteSet(IdsOf(s))
      /\ \A e \in s.edges : e.source \in IdsOf(s) /\ e.target \in IdsOf(s)
      /\ \A p \in s.boundaryPorts : p.interiorNode \in IdsOf(s)
  BY DEF WholeSubgraph
<1>3. \A n \in IdsOf(s) : new(n) \in Nat /\ new(n) > from /\ new(n) <= from + Cardinality(IdsOf(s))
  BY NewIds
<1> HIDE DEF t, new
<1>4. /\ DOMAIN t.nodes = DOMAIN s.nodes
      /\ \A k \in DOMAIN s.nodes : t.nodes[k].id = new(s.nodes[k].id)
  BY <1>1 DEF Node
<1>5. IdsOf(t) = {new(n) : n \in IdsOf(s)}
  BY <1>4 DEF IdsOf
<1>6. \A id \in IdsOf(s) : f[id] = new(id)
  <2> SUFFICES ASSUME NEW id \in IdsOf(s) PROVE f[id] = new(id)
    OBVIOUS
  <2> DEFINE k == CHOOSE k \in DOMAIN s.nodes : s.nodes[k].id = id
  <2>1. k \in DOMAIN s.nodes /\ s.nodes[k].id = id
    BY DEF IdsOf
  <2>2. f[id] = t.nodes[k].id
    OBVIOUS
  <2> HIDE DEF k, f
  <2> QED BY <1>4, <2>1, <2>2
<1>7. WiredAlike(s, t)
  <2> HIDE DEF f
  <2>1. \A e \in s.edges : f[e.source] = new(e.source) /\ f[e.target] = new(e.target)
    BY <1>2, <1>6
  <2>2. \A p \in s.boundaryPorts : f[p.interiorNode] = new(p.interiorNode)
    BY <1>2, <1>6
  <2>3. t.edges = {Edge(f[e.source], f[e.target]) : e \in s.edges}
    BY <1>1, <2>1
  <2>4. t.boundaryPorts = {BoundaryPort(p.direction, f[p.interiorNode]) : p \in s.boundaryPorts}
    BY <1>1, <2>2
  <2> USE DEF f
  <2>5. f \in {[id \in IdsOf(s) |-> t.nodes[CHOOSE k \in DOMAIN s.nodes : s.nodes[k].id = id].id]}
    OBVIOUS
  <2> HIDE DEF f
  <2>6. \A a, b \in IdsOf(s) : f[a] = f[b] => a = b
    BY <1>6, NewIdsDiffer DEF new
  <2> QED BY <1>4, <2>3, <2>4, <2>5, <2>6 DEF WiredAlike
<1>8. WholeSubgraph(t)
  <2>1. IsFiniteSet(IdsOf(t))
    <3> DEFINE h == [n \in IdsOf(s) |-> new(n)]
    <3>1. h \in Surjection(IdsOf(s), IdsOf(t))
      BY <1>5 DEF Surjection
    <3> QED BY <3>1, <1>2, FS_Surjection
  <2>2. \A e \in t.edges : {e.source, e.target} \subseteq IdsOf(t)
    BY <1>1, <1>2, <1>5 DEF Edge
  <2>3. \A p \in t.boundaryPorts : p.interiorNode \in IdsOf(t)
    BY <1>1, <1>2, <1>5 DEF BoundaryPort
  <2>4. IdsOf(t) \subseteq Nat
    BY <1>3, <1>5
  <2> QED BY <2>1, <2>2, <2>3, <2>4 DEF WholeSubgraph
<1> QED BY <1>5, <1>7, <1>8 DEF t, new

\* The ids a copy takes are as many as are counted.
LEMMA IdsCounted ==
  ASSUME NEW p, WholePayload(p)
  PROVE  /\ Minted(p) \in Nat /\ Minted(p) > 0
         /\ \A s \in p.body : Cardinality(IdsOf(s)) \in Nat /\ Cardinality(IdsOf(s)) < Minted(p)
<1> DEFINE all == {IdsOf(s) : s \in p.body}
<1>1. IsFiniteSet(p.body) /\ \A s \in p.body : IsFiniteSet(IdsOf(s))
  BY DEF WholePayload, WholeSubgraph
<1>2. IsFiniteSet(all)
  <2> DEFINE h == [s \in p.body |-> IdsOf(s)]
  <2>1. h \in Surjection(p.body, all)
    BY DEF Surjection
  <2> QED BY <2>1, <1>1, FS_Surjection
<1>3. \A T \in all : IsFiniteSet(T)
  BY <1>1
<1>4. IsFiniteSet(UNION all)
  BY <1>2, <1>3, FS_UNION
<1>5. Cardinality(UNION all) \in Nat
  BY <1>4, FS_CardinalityType
<1>6. ASSUME NEW s \in p.body
      PROVE  Cardinality(IdsOf(s)) \in Nat /\ Cardinality(IdsOf(s)) <= Cardinality(UNION all)
  <2>1. IdsOf(s) \in SUBSET (UNION all)
    OBVIOUS
  <2>2. Cardinality(IdsOf(s)) <= Cardinality(UNION all)
    <3> HIDE DEF all
    <3> QED BY <2>1, <1>4, FS_Subset
  <2>3. Cardinality(IdsOf(s)) \in Nat
    BY <1>1, FS_CardinalityType
  <2> QED BY <2>2, <2>3
<1>7. Minted(p) = IF p.body = {} THEN 2 ELSE 1 + Cardinality(UNION all)
  BY DEF Minted
<1> HIDE DEF all
<1> DEFINE n == Cardinality(UNION all)
<1> HIDE DEF n
<1>8. n \in Nat /\ Minted(p) = (IF p.body = {} THEN 2 ELSE 1 + n)
  BY <1>5, <1>7 DEF n
<1>9. \A s \in p.body : Cardinality(IdsOf(s)) \in Nat /\ Cardinality(IdsOf(s)) <= n
  BY <1>6 DEF n
<1>10. CASE p.body = {}
  BY <1>8, <1>10
<1>11. CASE p.body # {}
  <2>1. Minted(p) = 1 + n
    BY <1>8, <1>11
  <2> QED BY <1>8, <1>9, <2>1
<1> QED BY <1>10, <1>11

-----------------------------------------------------------------------------
(* What lies on the disk is whole or torn, what is open and shown is whole. *)

Fits(f, content) ==
  /\ f[1] = "item" => ItemContent(content)
  /\ f[1] = "project" => ProjectContent(content)

DiskOK(d) == \A f \in DOMAIN d : Fits(f, d[f])

ListOK(list) == \A item \in ToSet(list) : WholePayload(item.payload)

\* What a command brings is whole.
AnswerOK(call, c) ==
  /\ call.name = "list_library_node" => \A list \in c.answer.value : ListOK(list)
  /\ call.name = "load_project" /\ c.answer.kind = "Ok" =>
       c.answer.value # {} /\ \A g \in c.answer.value : WholeGraph(g)

WholeInv ==
  /\ DiskOK(disk) /\ ListOK(items) /\ WholeGraph(graph) /\ minted \in Nat
  /\ calls["panel"].name = "save_library_node" =>
       \A item \in calls["panel"].arg : WholePayload(item.payload)
  /\ calls["session"].name = "save_project" =>
       \A a \in calls["session"].arg : WholeGraph(a.graph)
  /\ \A c \in running : AnswerOK(calls[c.caller], c)

LEMMA Writable ==
  /\ \A item : WholePayload(item.payload) => ItemContent(ItemFile({item}))
  /\ \A v, g : WholeGraph(g) => ProjectContent(ProjectFile(v, {g}))
  /\ ItemContent(Torn) /\ ProjectContent(Torn)
<1>1. ASSUME NEW item, WholePayload(item.payload) PROVE ItemContent(ItemFile({item}))
  BY <1>1, ItemFileIs DEF ItemContent
<1>2. ASSUME NEW v, NEW g, WholeGraph(g) PROVE ProjectContent(ProjectFile(v, {g}))
  <2>1. ProjectFile(v, {g}).version = v /\ ProjectFile(v, {g}).project = {g}
    BY DEF ProjectFile
  <2> QED BY <1>2, <2>1 DEF ProjectContent
<1>3. ItemContent(Torn) /\ ProjectContent(Torn)
  BY DEF ItemContent, ProjectContent
<1> QED BY <1>1, <1>2, <1>3

LEMMA KindsOfPaths ==
  /\ \A id : ItemPath(id)[1] = "item" /\ Temporary(ItemPath(id))[1] = "item"
             /\ Temporary(ItemPath(id)) # ItemPath(id)
  /\ \A p : Project(p)[1] = "project" /\ Temporary(Project(p))[1] = "project"
            /\ Temporary(Project(p)) # Project(p)
  /\ Recents[1] = "recents"
<1>1. \A id : Temporary(ItemPath(id))[1] = "item"
  BY DEF Temporary, ItemPath
<1> QED BY <1>1, PathsDiffer

LEMMA PutFits ==
  ASSUME NEW d, DiskOK(d), NEW f, NEW content, Fits(f, content)
  PROVE  DiskOK(Put(d, f, content))
BY DEF DiskOK, Put

LEMMA WithoutFits ==
  ASSUME NEW d, DiskOK(d), NEW f
  PROVE  DiskOK(Without(d, f))
BY DEF DiskOK, Without, Restrict

\* A step of a replacement.
LEMMA ReplacementFits ==
  ASSUME NEW d, DiskOK(d), NEW c, NEW e, NEW n, MovesOn(d, e, c, n), NEW path, NEW content,
         UnderWay(d, c, path, content), Fits(path, content), Fits(Temporary(path), content),
         Fits(Temporary(path), Torn)
  PROVE  DiskOK(e)
<1> DEFINE tmp == Temporary(path)
<1>1. e = Performed(d, Head(c.steps)) /\ c.steps # <<>>
  BY DEF MovesOn
<1>2. \/ Head(c.steps) = Step("open", tmp, Torn)
      \/ Head(c.steps) = Step("write", tmp, content)
      \/ Head(c.steps) = Step("rename", tmp, path) /\ Holds(d, tmp, content)
  BY <1>1, NotDone DEF UnderWay
<1> HIDE DEF tmp
<1>3. \/ e = Put(d, tmp, Torn)
      \/ e = Put(d, tmp, content)
      \/ e = Put(Without(d, tmp), path, d[tmp]) /\ d[tmp] = content
  BY <1>1, <1>2, StepDoes DEF Holds
<1> QED BY <1>3, PutFits, WithoutFits DEF tmp

LEMMA WholePerform ==
  ASSUME FilesInv, WholeInv, NEW c \in running, Perform(c)
  PROVE  WholeInv'
<1> DEFINE call == calls[c.caller]
<1>1. PICK n : running' = {n} /\ n.caller = c.caller /\ MovesOn(disk, disk', c, n)
  BY StepTaken
<1>2. UNCHANGED <<calls, items, graph, minted>>
  BY DEF Perform, web
<1>3. n.answer = c.answer /\ c.steps # <<>> /\ disk' = Performed(disk, Head(c.steps))
  BY <1>1 DEF MovesOn
<1>4. DiskOK(disk) /\ AnswerOK(call, c)
  BY DEF WholeInv
<1>5. AnswerOK(call, n)
  BY <1>3, <1>4 DEF AnswerOK
<1>6. /\ StepsOK(disk, call, c)
      /\ call.name = "save_library_node" => \A item \in call.arg : WholePayload(item.payload)
      /\ call.name = "save_project" => \A a \in call.arg : WholeGraph(a.graph)
  BY CommandsAreAwaited DEF WholeInv, PanelNames, SessionNames
<1> HIDE DEF call
<1>7. DiskOK(disk')
  <2>1. CASE call.name = "save_library_node"
    <3>1. PICK item : call.arg = {item} /\ UnderWay(disk, c, ItemPath(item.id), ItemFile({item}))
      BY <1>6, <2>1 DEF StepsOK
    <3>2. ItemContent(ItemFile({item})) /\ ItemContent(Torn)
      BY <1>6, <2>1, <3>1, Writable
    <3>3. /\ Fits(ItemPath(item.id), ItemFile({item})) /\ Fits(Temporary(ItemPath(item.id)), ItemFile({item}))
          /\ Fits(Temporary(ItemPath(item.id)), Torn)
      BY <3>2, KindsOfPaths DEF Fits
    <3> QED BY <1>1, <1>4, <3>1, <3>3, ReplacementFits
  <2>2. CASE call.name = "save_project"
    <3>1. PICK a : call.arg = {a} /\
            UnderWay(disk, c, Project(a.path), ProjectFile({PROJECT_SCHEMA_VERSION}, {a.graph}))
      BY <1>6, <2>2 DEF StepsOK
    <3> DEFINE saved == ProjectFile({PROJECT_SCHEMA_VERSION}, {a.graph})
    <3>2. ProjectContent(saved) /\ ProjectContent(Torn)
      BY <1>6, <2>2, <3>1, Writable
    <3>a. UnderWay(disk, c, Project(a.path), saved)
      BY <3>1
    <3> HIDE DEF saved
    <3>3. /\ Fits(Project(a.path), saved) /\ Fits(Temporary(Project(a.path)), saved)
          /\ Fits(Temporary(Project(a.path)), Torn)
      BY <3>2, KindsOfPaths DEF Fits
    <3> QED BY <1>1, <1>4, <3>a, <3>3, ReplacementFits
  <2>3. CASE call.name = "delete_library_node"
    <3>1. PICK item : Deleting(disk, c, item.id)
      BY <1>6, <2>3 DEF StepsOK
    <3>2. c.steps = <<Step("remove", ItemPath(item.id), Torn)>>
      BY <3>1, <1>3 DEF Deleting
    <3>3. disk' = Without(disk, ItemPath(item.id))
      BY <3>2, <1>3, NotDone, StepDoes
    <3> QED BY <3>3, <1>4, WithoutFits
  <2>4. CASE call.name \in {"push_recent", "load_recents"}
    <3>1. PICK list : Head(c.steps) \in {Step("open", Recents, Torn), Step("write", Recents, RecentsFile(list))}
      BY <1>3, <1>6, <2>4, NotDone DEF StepsOK, WritingRecents
    <3>2. \E content : disk' = Put(disk, Recents, content)
      BY <3>1, <1>3, StepDoes
    <3>3. \A content : Fits(Recents, content)
      BY KindsOfPaths DEF Fits
    <3> QED BY <3>2, <3>3, <1>4, PutFits
  <2> QED BY <1>3, <1>6, <2>1, <2>2, <2>3, <2>4 DEF StepsOK, Listing
<1> QED BY <1>1, <1>2, <1>5, <1>7 DEF WholeInv, call

\* What is found in the library's directory is whole.
LEMMA FoundIsWhole ==
  ASSUME NEW d, DiskOK(d)
  PROVE  ListOK(ListItems(d))
<1> SUFFICES ASSUME NEW item \in ItemsIn(d) PROVE WholePayload(item.payload)
  BY ListsWhatIsFound DEF ListOK
<1>1. PICK f \in DOMAIN d : IsItemFile(f) /\ d[f].whole /\ item \in d[f].item
  BY DEF ItemsIn
<1>2. ItemContent(d[f])
  BY <1>1 DEF DiskOK, Fits, IsItemFile
<1>3. d[f] # Torn
  BY <1>1 DEF Torn
<1>4. PICK i \in d[f].item : d[f] = ItemFile({i}) /\ WholePayload(i.payload)
  BY <1>2, <1>3 DEF ItemContent
<1>5. d[f].item = {i}
  BY <1>4, ItemFileIs
<1> QED BY <1>1, <1>4, <1>5

LEMMA LoadedIsWhole ==
  ASSUME NEW d, DiskOK(d), NEW path, LoadFromFile(d, path).kind = "Ok"
  PROVE  LoadFromFile(d, path).value # {} /\ \A g \in LoadFromFile(d, path).value : WholeGraph(g)
<1> DEFINE saved == d[Project(path)]
<1>1. \A k : ProjectLoadError(k).kind = k
  BY DEF ProjectLoadError
<1>2. Project(path) \in DOMAIN d /\ LoadFromFile(d, path) = FromJson(saved)
  BY <1>1 DEF LoadFromFile
<1>3. ProjectContent(saved)
  BY <1>2, KindsOfPaths DEF DiskOK, Fits
<1> HIDE DEF saved
<1>4. saved.whole /\ saved.project # {} /\ FromJson(saved) = Ok(saved.project)
  BY <1>1, <1>2 DEF FromJson
<1>5. saved # Torn
  BY <1>4 DEF Torn
<1>6. \A g \in saved.project : WholeGraph(g)
  BY <1>3, <1>5 DEF ProjectContent
<1> QED BY <1>2, <1>4, <1>6 DEF Ok

LEMMA WholeBegin ==
  ASSUME FilesInv, WholeInv, NEW caller \in Callers, Begin(caller)
  PROVE  WholeInv'
<1> DEFINE call == calls[caller]
           c == [caller |-> caller, steps |-> Plan(call).steps, answer |-> Plan(call).answer]
<1>1. running' = {c} /\ UNCHANGED <<disk, calls, items, graph, minted>>
  BY DEF Begin, web
<1>2. c.caller = caller /\ c.answer = Plan(call).answer
  OBVIOUS
<1> HIDE DEF c
<1>3. DiskOK(disk)
  BY DEF WholeInv
<1>4. call.name = "list_library_node" => \A list \in c.answer.value : ListOK(list)
  BY <1>2, <1>3, FoundIsWhole DEF Plan, Ok
<1>5. call.name = "load_project" /\ c.answer.kind = "Ok" =>
        c.answer.value # {} /\ \A g \in c.answer.value : WholeGraph(g)
  <2>1. call.name = "load_project" => \E path : c.answer = LoadFromFile(disk, path)
    BY <1>2 DEF Plan
  <2> QED BY <1>3, <2>1, LoadedIsWhole
<1>6. AnswerOK(call, c)
  BY <1>4, <1>5 DEF AnswerOK
<1> QED BY <1>1, <1>2, <1>6 DEF WholeInv

LEMMA WholeFail ==
  ASSUME FilesInv, WholeInv, NEW c \in running, Fail(c)
  PROVE  WholeInv'
<1>1. PICK n : /\ running' = {n} /\ n.caller = c.caller
               /\ calls[c.caller].name # "load_recents" => n.answer = LibraryError("Io")
  BY Fails
<1>2. UNCHANGED <<disk, calls, items, graph, minted>>
  BY DEF Fail, web
<1>3. LibraryError("Io").kind = "Io" /\ LibraryError("Io").value = {}
  BY DEF LibraryError
<1>4. AnswerOK(calls[c.caller], n)
  BY <1>1, <1>3 DEF AnswerOK
<1> QED BY <1>1, <1>2, <1>4 DEF WholeInv

\* The panel has its answer, and a list that is whole.
LEMMA AnsweredIsWhole ==
  ASSUME FilesInv, WholeInv, running' = {}, UNCHANGED <<disk, graph, minted>>, ListOK(items'),
         NEW x \in {"panel", "refresh"}, NEW next \in {NoCall, Call("list_library_node", {})},
         calls' = [calls EXCEPT ![x] = next]
  PROVE  WholeInv'
<1>1. calls = [y \in Callers |-> calls[y]]
  BY DEF FilesInv
<1>2. calls'["session"] = calls["session"]
      /\ (calls'["panel"] = calls["panel"] \/ calls'["panel"].name \in {"none", "list_library_node"})
  BY <1>1, Callees
<1> QED BY <1>2 DEF WholeInv

LEMMA WholeAnswer ==
  ASSUME FilesInv, WholeInv, NEW c \in running, Answer(c)
  PROVE  WholeInv'
<1>1. running' = {} /\ disk' = disk
  BY DEF Answer
<1>2. calls = [x \in Callers |-> calls[x]]
  BY DEF FilesInv
<1>3. CASE c.caller \in {"panel", "refresh"}
  <2> DEFINE call == calls[c.caller]
  <2>1. PanelAnswered(c.caller, c.answer) /\ UNCHANGED <<graph, minted>>
    BY <1>3 DEF Answer, PanelAnswered
  <2>2. AnswerOK(call, c) /\ StepsOK(disk, call, c)
    BY CommandsAreAwaited DEF WholeInv
  <2>3. ASSUME call.name = "list_library_node", Listed(c.caller, c.answer) PROVE WholeInv'
    <3>1. ASSUME c.answer.kind = "Ok" PROVE ListOK(items')
      <4>1. items' = CHOOSE list \in c.answer.value : TRUE
        BY <2>3, <3>1 DEF Listed
      <4>2. \E list : c.answer.value = {list}
        BY <2>2, <2>3, <3>1, ListAnswered
      <4> QED BY <2>2, <2>3, <4>1, <4>2 DEF AnswerOK
    <3>2. ASSUME c.answer.kind # "Ok" PROVE ListOK(items')
      <4>1. items' = items  BY <2>3, <3>2 DEF Listed
      <4> QED BY <4>1 DEF WholeInv
    <3>3. ListOK(items')
      BY <3>1, <3>2
    <3>4. calls' = [calls EXCEPT ![c.caller] = NoCall]
      BY <2>3 DEF Listed
    <3> QED BY <1>1, <1>3, <2>1, <3>3, <3>4, AnsweredIsWhole
  <2>4. ASSUME Changed(c.answer) PROVE WholeInv'
    <3>1. /\ items' = items
          /\ \E next \in {NoCall, Call("list_library_node", {})} : calls' = [calls EXCEPT !["panel"] = next]
      BY <2>4 DEF Changed
    <3> QED BY <1>1, <2>1, <3>1, AnsweredIsWhole, Callees DEF WholeInv
  <2> QED BY <2>1, <2>3, <2>4 DEF PanelAnswered
<1>4. CASE c.caller = "session"
  <2>1. SessionAnswered(calls["session"], c.answer) /\ UNCHANGED <<items, minted>>
    BY <1>4 DEF Answer, SessionAnswered
  <2>2. AnswerOK(calls["session"], c)
    BY <1>4 DEF WholeInv
  <2>3. PICK a \in calls["session"].arg :
          IF calls["session"].name \in {"save_project", "load_project"} /\ c.answer.kind = "Ok"
          THEN /\ calls' = [calls EXCEPT !["session"] = Call("push_recent", {a})]
               /\ graph' = IF calls["session"].name = "load_project"
                           THEN CHOOSE g \in c.answer.value : TRUE ELSE graph
          ELSE calls' = [calls EXCEPT !["session"] = NoCall] /\ graph' = graph
    BY <2>1 DEF SessionAnswered
  <2>4. calls'["panel"] = calls["panel"] /\ calls'["session"].name # "save_project"
    <3>1. \E next \in {NoCall, Call("push_recent", {a})} : calls' = [calls EXCEPT !["session"] = next]
      BY <2>3
    <3> QED BY <3>1, <1>2, Callees
  <2>5. WholeGraph(graph')
    BY <2>2, <2>3 DEF AnswerOK, WholeInv
  <2> QED BY <1>1, <2>1, <2>4, <2>5 DEF WholeInv
<1> QED BY <1>3, <1>4, CommandsAreAwaited

\* Asking for a command.
LEMMA WholePosts ==
  ASSUME FilesInv, WholeInv, NEW caller \in Callers, NEW name, NEW arg,
         Post(caller, name, arg), UNCHANGED <<disk, running, items, graph, minted>>,
         name = "save_library_node" => WholePayload(arg.payload),
         name = "save_project" => WholeGraph(arg.graph)
  PROVE  WholeInv'
<1>1. /\ calls'[caller] = Call(name, {arg})
      /\ \A c \in Callers : c # caller => calls'[c] = calls[c]
      /\ \A c \in running : calls'[c.caller] = calls[c.caller]
  BY Posts
<1>2. calls'["panel"].name = "save_library_node" =>
        \A item \in calls'["panel"].arg : WholePayload(item.payload)
  BY <1>1, Callees DEF WholeInv
<1>3. calls'["session"].name = "save_project" =>
        \A a \in calls'["session"].arg : WholeGraph(a.graph)
  BY <1>1, Callees DEF WholeInv
<1> QED BY <1>1, <1>2, <1>3 DEF WholeInv

\* A copy is inserted as the last of the nodes.
LEMMA NodeInserted ==
  ASSUME NEW g, WholeGraph(g), NEW payload, NEW id
  PROVE  LET h == InsertPayload(g, payload, id)
         IN  /\ Last(h.nodes) = Node(id, payload.body)
             /\ id \in Nat /\ WholePayload(Node(id, payload.body)) => WholeGraph(h)
<1> DEFINE copy == Node(id, payload.body)
           h == InsertPayload(g, payload, id)
           T == Range(g.nodes) \cup {copy}
<1>1. copy.id = id
  BY DEF Node
<1>2. h.nodes = Append(g.nodes, copy)
  BY DEF InsertPayload, Graph
<1> HIDE DEF copy, h
<1>3. g.nodes \in Seq(Range(g.nodes)) /\ \A n \in Range(g.nodes) : n.id \in Nat /\ WholePayload(n)
  BY DEF WholeGraph
<1>4. /\ h.nodes \in Seq(T) /\ Len(h.nodes) = Len(g.nodes) + 1 /\ Len(g.nodes) \in Nat
      /\ h.nodes[Len(h.nodes)] = copy /\ DOMAIN h.nodes = 1..Len(h.nodes)
      /\ \A i \in 1..Len(h.nodes) : h.nodes[i] \in T
  <2> HIDE DEF T
  <2>1. g.nodes \in Seq(T) /\ copy \in T
    BY <1>3 DEF T
  <2> QED BY <2>1, <1>2
<1>5. Last(h.nodes) = copy
  BY <1>4 DEF Last
<1>6. ASSUME id \in Nat, WholePayload(copy) PROVE WholeGraph(h)
  <2>1. \A n \in Range(h.nodes) : n.id \in Nat /\ WholePayload(n)
    BY <1>1, <1>3, <1>4, <1>6 DEF Range
  <2>2. h.nodes \in Seq(Range(h.nodes))
    <3> HIDE DEF T
    <3>1. \A i \in 1..Len(h.nodes) : h.nodes[i] \in Range(h.nodes)
      BY <1>4 DEF Range
    <3> QED BY <1>4, <3>1
  <2> QED BY <2>1, <2>2 DEF WholeGraph
<1> QED BY <1>5, <1>6 DEF copy, h

LEMMA CopyIsWhole ==
  ASSUME NEW p, WholePayload(p), NEW from \in Nat, NEW id
  PROVE  WholePayload(Node(id, Instantiate(p, from).body))
<1> DEFINE body == {Renumbered(s, from) : s \in p.body}
<1>1. Node(id, Instantiate(p, from).body).body = body
  BY DEF Node, Instantiate
<1>2. IsFiniteSet(p.body) /\ \A s \in p.body : WholeSubgraph(s)
  BY DEF WholePayload
<1>3. IsFiniteSet(body)
  <2> DEFINE f == [s \in p.body |-> Renumbered(s, from)]
  <2>1. f \in Surjection(p.body, body)
    BY DEF Surjection
  <2> QED BY <2>1, <1>2, FS_Surjection
<1>4. \A t \in body : WholeSubgraph(t)
  BY <1>2, CopyIsWired
<1> QED BY <1>1, <1>3, <1>4 DEF WholePayload

LEMMA WholeInsert ==
  ASSUME WholeInv, NEW item \in ToSet(items), Insert(item)
  PROVE  WholeInv'
<1>1. /\ UNCHANGED <<disk, running, calls, items>>
      /\ minted' = minted + Minted(item.payload)
      /\ graph' = InsertPayload(graph, Instantiate(item.payload, minted), minted')
  BY DEF Insert
<1>2. WholePayload(item.payload) /\ WholeGraph(graph) /\ minted \in Nat
  BY DEF WholeInv, ListOK
<1>3. minted' \in Nat
  BY <1>1, <1>2, IdsCounted
<1>4. WholePayload(Node(minted', Instantiate(item.payload, minted).body))
  BY <1>2, CopyIsWhole
<1>5. WholeGraph(graph')
  BY <1>1, <1>2, <1>3, <1>4, NodeInserted
<1> QED BY <1>1, <1>3, <1>5 DEF WholeInv

LEMMA EmptyIsWhole == WholeGraph(EmptyGraph)
<1>1. EmptyGraph.nodes = <<>>
  BY DEF EmptyGraph, Graph
<1>2. Range(<<>>) = {}
  BY DEF Range
<1> QED BY <1>1, <1>2 DEF WholeGraph

LEMMA WholeRelaunch ==
  ASSUME WholeInv, Relaunch
  PROVE  WholeInv'
<1>1. /\ disk' = disk /\ running' = {} /\ items' = <<>> /\ graph' = EmptyGraph /\ minted' = 0
      /\ calls' = Mounted
  BY DEF Relaunch
<1>2. calls'["panel"].name = "none" /\ calls'["session"].name = "none"
  BY <1>1, Callees DEF Mounted
<1>3. ListOK(items')
  BY <1>1, EmptyList DEF ListOK
<1> QED BY <1>1, <1>2, <1>3, EmptyIsWhole DEF WholeInv

LEMMA WholeInit ==
  ASSUME Init
  PROVE  WholeInv
<1>1. /\ disk = [f \in DOMAIN OtherFiles \cup DOMAIN Foreign |->
                   IF f \in DOMAIN Foreign THEN Foreign[f] ELSE OtherFiles[f]]
      /\ running = {} /\ items = <<>> /\ calls = Mounted
      /\ \E made \in Graphs : graph = made.graph /\ minted = made.minted
  BY DEF Init
<1>2. DiskOK(disk)
  <2> SUFFICES ASSUME NEW f \in DOMAIN disk PROVE Fits(f, disk[f])
    BY DEF DiskOK
  <2>1. CASE f \in DOMAIN Foreign
    BY <1>1, <2>1, FilesAssumption DEF Fits
  <2>2. CASE f \notin DOMAIN Foreign
    BY <1>1, <2>2, FilesAssumption DEF Fits
  <2> QED BY <2>1, <2>2
<1>3. WholeGraph(graph) /\ minted \in Nat
  BY <1>1, FilesAssumption
<1>4. calls["panel"].name = "none" /\ calls["session"].name = "none"
  BY <1>1, Callees DEF Mounted
<1>5. ListOK(items)
  BY <1>1, EmptyList DEF ListOK
<1> QED BY <1>1, <1>2, <1>3, <1>4, <1>5 DEF WholeInv

LEMMA WholeNext ==
  ASSUME FilesInv, WholeInv, [Next]_vars
  PROVE  WholeInv'
<1>1. ASSUME NEW selected \in (SUBSET IdsOf(graph)) \ {{}}, SaveSelection(selected) PROVE WholeInv'
  <2> DEFINE payload == PayloadFromSelection(graph, selected)
  <2>1. PICK id : Post("panel", "save_library_node", LibraryItem(id, Cardinality(selected), payload))
    BY <1>1 DEF SaveSelection
  <2>2. UNCHANGED <<disk, running, items, graph, minted>>
    BY <1>1 DEF SaveSelection
  <2>3. WholePayload(payload)
    BY <1>1, SelectionIsWhole DEF WholeInv
  <2>4. LibraryItem(id, Cardinality(selected), payload).payload = payload
    BY DEF LibraryItem
  <2> HIDE DEF payload
  <2> QED BY <2>1, <2>2, <2>3, <2>4, WholePosts, Callees
<1>2. ASSUME NEW item, Delete(item) PROVE WholeInv'
  <2>1. UNCHANGED <<disk, running, items, graph, minted>> /\ Post("panel", "delete_library_node", item)
    BY <1>2 DEF Delete
  <2> QED BY <2>1, WholePosts, Callees
<1>3. ASSUME NEW item \in ToSet(items), Insert(item) PROVE WholeInv'
  BY <1>3, WholeInsert
<1>4. ASSUME NEW path, SaveProject(path) PROVE WholeInv'
  <2>1. /\ UNCHANGED <<disk, running, items, graph, minted>>
        /\ Post("session", "save_project", [path |-> path, graph |-> graph])
    BY <1>4 DEF SaveProject, web
  <2>2. WholeGraph([path |-> path, graph |-> graph].graph)
    BY DEF WholeInv
  <2> QED BY <2>1, <2>2, WholePosts, Callees
<1>5. ASSUME NEW path, OpenProject(path) PROVE WholeInv'
  <2>1. /\ UNCHANGED <<disk, running, items, graph, minted>>
        /\ Post("session", "load_project", [path |-> path, graph |-> EmptyGraph])
    BY <1>5 DEF OpenProject, web
  <2> QED BY <2>1, WholePosts, Callees
<1>6. CASE OpenRecentMenu
  <2>1. /\ UNCHANGED <<disk, running, items, graph, minted>>
        /\ Post("session", "load_recents", [path |-> "", graph |-> EmptyGraph])
    BY <1>6 DEF OpenRecentMenu, web
  <2> QED BY <2>1, WholePosts, Callees
<1>7. CASE Refresh
  <2>1. UNCHANGED <<disk, running, items, graph, minted>> /\ Post("refresh", "list_library_node", "all")
    BY <1>7 DEF Refresh
  <2> QED BY <2>1, WholePosts, Callees
<1>8. ASSUME NEW path \in ProjectPaths, RemoveProject(path) PROVE WholeInv'
  <2>1. /\ UNCHANGED <<running, calls, items, graph, minted>>
        /\ disk' = Without(disk, Project(path))
    BY <1>8 DEF RemoveProject, Without, web
  <2>2. DiskOK(disk')
    BY <2>1, WithoutFits DEF WholeInv
  <2> QED BY <2>1, <2>2 DEF WholeInv
<1>9. ASSUME NEW caller \in Callers, Begin(caller) PROVE WholeInv'
  BY <1>9, WholeBegin
<1>10. ASSUME NEW c \in running, Perform(c) \/ Fail(c) \/ Answer(c) PROVE WholeInv'
  BY <1>10, WholePerform, WholeFail, WholeAnswer
<1>11. CASE Relaunch
  BY <1>11, WholeRelaunch
<1>12. CASE UNCHANGED vars
  <2>1. UNCHANGED <<disk, running, calls, items, graph, minted>>
    BY <1>12 DEF vars, web
  <2> QED BY <2>1 DEF WholeInv
<1> QED
  BY <1>1, <1>2, <1>3, <1>4, <1>5, <1>6, <1>7, <1>8, <1>9, <1>10, <1>11, <1>12 DEF Next

\* Until a project is loaded, the ids of the document are of this session.
MadeHere ==
  loaded \in BOOLEAN /\ (~loaded => \A id \in AllIds(graph) : id <= minted)

\* The ids of a graph are numbers.
LEMMA IdsAreNumbers ==
  ASSUME NEW g, WholeGraph(g)
  PROVE  AllIds(g) \subseteq Nat
<1>1. g.nodes \in Seq(Range(g.nodes)) /\ \A n \in Range(g.nodes) : n.id \in Nat /\ WholePayload(n)
  BY DEF WholeGraph
<1>2. \A k \in DOMAIN g.nodes : g.nodes[k] \in Range(g.nodes)
  BY DEF Range
<1>3. IdsOf(g) \subseteq Nat
  BY <1>1, <1>2 DEF IdsOf
<1>4. \A k \in DOMAIN g.nodes : \A s \in g.nodes[k].body : IdsOf(s) \subseteq Nat
  BY <1>1, <1>2 DEF WholePayload, WholeSubgraph
<1> QED  BY <1>3, <1>4 DEF AllIds

\* A graph with a node more has its ids and the node's.
LEMMA IdsOfTheLarger ==
  ASSUME NEW g, WholeGraph(g), NEW payload, NEW id
  PROVE  AllIds(InsertPayload(g, payload, id))
           \subseteq AllIds(g) \cup AllIds(Graph(<<Node(id, payload.body)>>, {}))
<1> DEFINE copy == Node(id, payload.body)
           h == InsertPayload(g, payload, id)
           one == Graph(<<copy>>, {})
<1>1. h.nodes = Append(g.nodes, copy)
  BY DEF InsertPayload, Graph
<1>2. one.nodes = <<copy>>
  BY DEF Graph
<1>3. g.nodes \in Seq(Range(g.nodes))
  BY DEF WholeGraph
<1> HIDE DEF h, one, copy
<1>4. one.nodes[1] = copy /\ DOMAIN one.nodes = {1}
  BY <1>2
<1>5. \A k \in DOMAIN h.nodes : (k \in DOMAIN g.nodes /\ h.nodes[k] = g.nodes[k]) \/ h.nodes[k] = copy
  <2> DEFINE T == Range(g.nodes) \cup {copy}
  <2>1. g.nodes \in Seq(T) /\ copy \in T
    BY <1>3
  <2> HIDE DEF T
  <2> QED  BY <1>1, <2>1
<1>6. IdsOf(h) \subseteq IdsOf(g) \cup IdsOf(one)
  BY <1>4, <1>5 DEF IdsOf
<1>7. ASSUME NEW k \in DOMAIN h.nodes, NEW s \in h.nodes[k].body
      PROVE  IdsOf(s) \subseteq AllIds(g) \cup AllIds(one)
  <2>1. CASE k \in DOMAIN g.nodes /\ h.nodes[k] = g.nodes[k]
    BY <2>1, <1>7 DEF AllIds
  <2>2. CASE h.nodes[k] = copy
    BY <2>2, <1>4, <1>7 DEF AllIds
  <2> QED  BY <1>5, <2>1, <2>2
<1>8. AllIds(h) \subseteq AllIds(g) \cup AllIds(one)
  <2>1. IdsOf(h) \subseteq AllIds(g) \cup AllIds(one)
    BY <1>6 DEF AllIds
  <2> QED  BY <1>7, <2>1 DEF AllIds
<1> QED  BY <1>8 DEF h, one, copy

\* An item inserted into a document whose ids are of this session.
LEMMA InsertedIsNew ==
  ASSUME WholeInv, NEW item \in ToSet(items), Insert(item),
         \A id \in AllIds(graph) : id <= minted
  PROVE  IsNewCopy(item, graph, graph') /\ \A id \in AllIds(graph') : id <= minted'
<1> DEFINE copy == Node(minted', Instantiate(item.payload, minted).body)
<1>1. /\ minted' = minted + Minted(item.payload)
      /\ graph' = InsertPayload(graph, Instantiate(item.payload, minted), minted')
  BY DEF Insert
<1>2. WholePayload(item.payload) /\ WholeGraph(graph) /\ minted \in Nat
  BY DEF WholeInv, ListOK
<1>3. /\ minted' \in Nat /\ minted < minted'
      /\ \A s \in item.payload.body :
           Cardinality(IdsOf(s)) \in Nat /\ minted + Cardinality(IdsOf(s)) < minted'
  <2>1. Minted(item.payload) \in Nat /\ Minted(item.payload) > 0
    BY <1>2, IdsCounted
  <2>2. \A s \in item.payload.body :
          Cardinality(IdsOf(s)) \in Nat /\ Cardinality(IdsOf(s)) < Minted(item.payload)
    BY <1>2, IdsCounted
  <2> QED BY <1>1, <1>2, <2>1, <2>2
<1>4. /\ copy.id = minted' /\ copy.body = {Renumbered(s, minted) : s \in item.payload.body}
      /\ Last(graph'.nodes) = copy
  <2>1. copy.id = minted' /\ copy.body = {Renumbered(s, minted) : s \in item.payload.body}
    BY DEF Instantiate, Node
  <2>2. Last(graph'.nodes) = copy
    BY <1>1, <1>2, NodeInserted
  <2> QED BY <2>1, <2>2
<1> HIDE DEF copy
<1>5. ASSUME NEW s \in item.payload.body
      PROVE  /\ WiredAlike(s, Renumbered(s, minted))
             /\ \A id \in IdsOf(Renumbered(s, minted)) : id \in Nat /\ minted < id /\ id < minted'
  <2>1. WholeSubgraph(s)
    BY <1>2 DEF WholePayload
  <2>2. /\ IdsOf(Renumbered(s, minted)) = {NewId(s, minted, n) : n \in IdsOf(s)}
        /\ WiredAlike(s, Renumbered(s, minted))
    BY <1>2, <2>1, CopyIsWired
  <2>3. ASSUME NEW n \in IdsOf(s)
        PROVE  NewId(s, minted, n) \in Nat /\ minted < NewId(s, minted, n) /\ NewId(s, minted, n) < minted'
    <3>1. /\ NewId(s, minted, n) \in Nat /\ minted < NewId(s, minted, n)
          /\ NewId(s, minted, n) <= minted + Cardinality(IdsOf(s))
      BY <1>2, <2>1, NewIds
    <3>2. Cardinality(IdsOf(s)) \in Nat /\ minted + Cardinality(IdsOf(s)) < minted'
      BY <1>3
    <3> QED BY <1>2, <1>3, <3>1, <3>2
  <2> QED BY <2>2, <2>3
<1>6. \A s \in item.payload.body : \E t \in copy.body : WiredAlike(s, t)
  BY <1>4, <1>5
<1>7. \A t \in copy.body : \A id \in IdsOf(t) : id \in Nat /\ minted < id /\ id < minted'
  BY <1>4, <1>5
<1>8. \A t \in copy.body : copy.id \notin IdsOf(t)
  BY <1>3, <1>4, <1>7
<1>9. \A id \in AllIds(Graph(<<copy>>, {})) : id \in Nat /\ minted < id /\ id <= minted'
  <2> DEFINE g == Graph(<<copy>>, {})
  <2>1. g.nodes = <<copy>> /\ DOMAIN <<copy>> = {1} /\ <<copy>>[1] = copy
    BY DEF Graph
  <2> HIDE DEF g
  <2>2. AllIds(g) = {copy.id} \cup UNION {IdsOf(t) : t \in copy.body}
    BY <2>1 DEF AllIds, IdsOf
  <2> QED BY <2>2, <1>3, <1>4, <1>7 DEF g
<1>10. AllIds(Graph(<<copy>>, {})) \cap AllIds(graph) = {}
  <2> SUFFICES ASSUME NEW id \in AllIds(Graph(<<copy>>, {})), id \in AllIds(graph) PROVE FALSE
    OBVIOUS
  <2> QED BY <1>2, <1>9
<1>11. IsNewCopy(item, graph, graph')
  BY <1>4, <1>6, <1>8, <1>10 DEF IsNewCopy
<1>12. ASSUME NEW id \in AllIds(graph') PROVE id <= minted'
  <2>1. AllIds(graph') \subseteq AllIds(graph) \cup AllIds(Graph(<<copy>>, {}))
    BY <1>1, <1>2, IdsOfTheLarger DEF copy
  <2>2. AllIds(graph) \subseteq Nat
    BY <1>2, IdsAreNumbers
  <2>3. CASE id \in AllIds(graph)
    BY <1>2, <1>3, <2>2, <2>3
  <2>4. CASE id \in AllIds(Graph(<<copy>>, {}))
    BY <1>9, <2>4
  <2> QED BY <2>1, <2>3, <2>4
<1> QED BY <1>11, <1>12

\* The ids stay of this session until a project is loaded, and are again after the
\* process was started anew.
LEMMA MadeHereStays ==
  ASSUME WholeInv, MadeHere, [Next]_vars
  PROVE  MadeHere'
<1>1. CASE UNCHANGED <<graph, minted, loaded>>
  BY <1>1 DEF MadeHere
<1>2. ASSUME NEW item \in ToSet(items), Insert(item) PROVE MadeHere'
  <2>1. loaded' = loaded  BY <1>2 DEF Insert, history
  <2>2. CASE loaded  BY <2>1, <2>2 DEF MadeHere
  <2>3. CASE ~loaded
    <3>1. \A id \in AllIds(graph') : id <= minted'
      BY <1>2, <2>3, InsertedIsNew DEF MadeHere
    <3> QED  BY <2>1, <3>1 DEF MadeHere
  <2> QED  BY <2>2, <2>3
<1>3. ASSUME NEW c \in running, Answer(c), c.caller = "session" PROVE MadeHere'
  <2>1. SessionAnswered(calls["session"], c.answer)
    BY <1>3 DEF Answer
  <2>2. minted' = minted /\ (UNCHANGED <<graph, loaded>>
          \/ (loaded' = TRUE)
          \/ (loaded' = loaded /\ graph' = graph))
    <3>1. minted' = minted  BY <2>1 DEF SessionAnswered
    <3>2. CASE calls["session"].name = "load_project"
      BY <2>1, <3>1, <3>2 DEF SessionAnswered, MadeHere
    <3>3. CASE calls["session"].name # "load_project"
      BY <2>1, <3>1, <3>3 DEF SessionAnswered, MadeHere
    <3> QED  BY <3>2, <3>3
  <2>3. CASE loaded' = TRUE  BY <2>3 DEF MadeHere
  <2>4. CASE UNCHANGED <<graph, loaded, minted>>  BY <2>4 DEF MadeHere
  <2> QED  BY <2>2, <2>3, <2>4
<1>4. CASE Relaunch
  <2>1. graph' = EmptyGraph /\ loaded' = FALSE  BY <1>4 DEF Relaunch
  <2>2. AllIds(EmptyGraph) = {}
    BY DEF AllIds, IdsOf, EmptyGraph, Graph
  <2> QED  BY <2>1, <2>2 DEF MadeHere
<1>5. ASSUME NEW c \in running, Answer(c), c.caller # "session" PROVE UNCHANGED <<graph, minted, loaded>>
  BY <1>5 DEF Answer, PanelAnswered, history
<1>6. ASSUME NEW c \in running, Perform(c) \/ Fail(c) PROVE UNCHANGED <<graph, minted, loaded>>
  BY <1>6 DEF Perform, Fail, web, history
<1>7. ASSUME \/ \E selected : SaveSelection(selected)
             \/ \E item : Delete(item)
             \/ \E path : SaveProject(path) \/ OpenProject(path) \/ RemoveProject(path)
             \/ Refresh \/ OpenRecentMenu
             \/ \E caller \in Callers : Begin(caller)
             \/ UNCHANGED vars
      PROVE  UNCHANGED <<graph, minted, loaded>>
  BY <1>7 DEF SaveSelection, Delete, SaveProject, OpenProject, RemoveProject, Refresh,
              OpenRecentMenu, Begin, vars, web, history
<1> QED  BY <1>1, <1>2, <1>3, <1>4, <1>5, <1>6, <1>7 DEF Next

(* In a document made in this session a copy of an item is wired as the     *)
(* item is, and the ids of its node and of its subgraph's are in use        *)
(* nowhere in the document and its nodes' subgraphs, whatever was saved,    *)
(* deleted and copied before (instantiate.ts).                              *)
THEOREM CopiesAreAlwaysNew == Spec => CopiesAreNew
<1>1. Init => WholeInv
  BY WholeInit
<1>2. FilesInv /\ WholeInv /\ [Next]_vars => WholeInv'
  BY WholeNext
<1>3. Init => MadeHere
  <2>1. SUFFICES ASSUME Init PROVE MadeHere  OBVIOUS
  <2>2. PICK made \in Graphs : graph = made.graph /\ minted = made.minted
    BY <2>1 DEF Init
  <2>3. \A id \in AllIds(made.graph) : id <= made.minted
    BY FilesAssumption
  <2>4. AllIds(graph) = AllIds(made.graph)  BY <2>2
  <2>5. loaded = FALSE  BY <2>1 DEF Init
  <2> QED  BY <2>2, <2>3, <2>4, <2>5 DEF MadeHere
<1>4. WholeInv /\ MadeHere /\ [Next]_vars => MadeHere'
  BY MadeHereStays
<1>5. WholeInv /\ MadeHere => \A item \in ToSet(items) :
        Insert(item) /\ ~loaded => IsNewCopy(item, graph, graph')
  BY InsertedIsNew DEF MadeHere
<1> QED BY <1>1, <1>2, <1>3, <1>4, <1>5, FilesInvariant, PTL DEF Spec, CopiesAreNew

-----------------------------------------------------------------------------
(* The library implements Shelf.                                            *)

RequestOf(call) ==
  IF call.name \in {"save_library_node", "delete_library_node"}
  THEN [op |-> IF call.name = "save_library_node" THEN "save" ELSE "delete",
        item |-> CHOOSE a \in call.arg : TRUE]
  ELSE [op |-> IF call.name = "list_library_node" THEN "look" ELSE "none", item |-> {}]

LEMMA RequestIsOf ==
  Request = RequestOf(calls["panel"]) /\ Request' = RequestOf(calls'["panel"])
  BY DEF Request, RequestOf

LEMMA Requests ==
  ASSUME NEW call
  PROVE  /\ call.name = "save_library_node" => RequestOf(call).op = "save"
         /\ call.name = "delete_library_node" => RequestOf(call).op = "delete"
         /\ call.name = "list_library_node" => RequestOf(call).op = "look"
         /\ call.name \notin PanelNames => RequestOf(call).op = "none"
         /\ call.name \in {"save_library_node", "delete_library_node"} =>
              \A item : call.arg = {item} => RequestOf(call).item = item
  BY DEF RequestOf, PanelNames

\* While no command of the panel has succeeded nothing is done.
LEMMA NothingDone ==
  /\ (\A c \in running : c.caller # "panel" \/ c.steps # <<>> \/ c.answer.kind # "Ok") => ~Done
  /\ Request.op \notin {"save", "delete"} => ~Done
  BY DEF Done

\* Nothing the panel or the shelf sees.
LEMMA Stutters ==
  ASSUME ShelfOf(disk') = ShelfOf(disk), calls'["panel"] = calls["panel"],
         ~Done, ~Done', error' = error
  PROVE  UNCHANGED Library!vars
<1>1. OnShelf' = OnShelf /\ Request' = Request  BY ShelfIsOf, RequestIsOf
<1>2. Done' = Done  BY Zenon DEF Done
<1> QED  BY <1>1, <1>2 DEF Library!vars

\* A running command of the session, or one with steps left, has done nothing
\* for the panel.
LEMMA Undone ==
  ASSUME FilesInv, \/ calls["panel"] = NoCall
                   \/ running = {}
                   \/ \E c \in running : c.caller # "panel" \/ c.steps # <<>>
  PROVE  ~Done
<1>1. CASE calls["panel"] = NoCall
  <2>1. Request.op = "none"  BY <1>1, RequestIsOf, Requests, Callees DEF PanelNames
  <2> QED  BY <2>1, NothingDone
<1>2. CASE running = {}
  BY <1>2, NothingDone
<1>3. CASE \E c \in running : c.caller # "panel" \/ c.steps # <<>>
  <2>1. PICK c \in running : c.caller # "panel" \/ c.steps # <<>>  BY <1>3
  <2>2. \A r \in running : r = c  BY <2>1 DEF FilesInv
  <2> QED  BY <2>1, <2>2, NothingDone
<1> QED  BY <1>1, <1>2, <1>3

\* onSave and onDelete ask.
LEMMA Asks ==
  ASSUME FilesInv, NEW name \in {"save_library_node", "delete_library_node"}, NEW arg,
         Post("panel", name, arg), UNCHANGED <<disk, running>>, error' = "none"
  PROVE  Library!Ask
<1>1. calls["panel"] = NoCall /\ calls'["panel"] = Call(name, {arg})
  BY Posts, Callees DEF Post
<1>2. Request.op = "none" /\ ~Done
  BY <1>1, Undone, RequestIsOf, Requests, Callees DEF PanelNames
<1>3. Request'.op \in {"save", "delete"}
  BY <1>1, RequestIsOf, Requests, Callees
<1>4. ~Done'
  <2>1. \A c \in running : c.caller # "panel"
    <3> SUFFICES ASSUME NEW c \in running, c.caller = "panel" PROVE FALSE
      OBVIOUS
    <3>1. StepsOK(disk, calls["panel"], c)  BY DEF FilesInv
    <3> QED  BY <1>1, <3>1, Callees DEF StepsOK
  <2> QED  BY <2>1 DEF Done
<1>5. OnShelf' = OnShelf  BY ShelfIsOf
<1> QED  BY <1>2, <1>3, <1>4, <1>5 DEF Library!Ask

\* The Refresh button.
LEMMA Looks ==
  ASSUME FilesInv, Refresh
  PROVE  Library!Look
<1>1. /\ Post("refresh", "list_library_node", "all") /\ calls["panel"] = NoCall
      /\ UNCHANGED <<disk, running>> /\ error' = "none"
  BY DEF Refresh
<1>2. calls'["panel"] = calls["panel"]
  BY <1>1, Posts, Callees
<1>3. Request' = Request /\ OnShelf' = OnShelf  BY <1>1, <1>2, RequestIsOf, ShelfIsOf
<1>4. Request.op = "none"  BY <1>1, RequestIsOf, Requests, Callees DEF PanelNames
<1>5. Done' = Done  BY <1>1, <1>3, Zenon DEF Done
<1> QED  BY <1>1, <1>3, <1>4, <1>5 DEF Library!Look

\* A new start of the process.
LEMMA Restarts ==
  ASSUME FilesInv, Relaunch
  PROVE  Library!Restart
<1>1. disk' = disk /\ error' = "none" /\ calls' = Mounted  BY DEF Relaunch
<1>2. calls'["panel"] = NoCall
  BY <1>1, Callees DEF Mounted
<1>3. Request'.op = "none"  BY <1>2, RequestIsOf, Requests, Callees DEF PanelNames
<1>4. ~Done'  BY <1>3 DEF Done
<1>5. OnShelf' = OnShelf  BY <1>1, ShelfIsOf
<1> QED  BY <1>1, <1>3, <1>4, <1>5 DEF Library!Restart

\* The session asks: nothing of the panel's.
LEMMA SessionAsks ==
  ASSUME FilesInv, NEW name, NEW arg, Post("session", name, arg),
         UNCHANGED <<disk, running, error>>
  PROVE  UNCHANGED Library!vars
<1>1. calls'["panel"] = calls["panel"]  BY Posts, Callees
<1>2. Request' = Request /\ OnShelf' = OnShelf  BY <1>1, RequestIsOf, ShelfIsOf
<1>3. Done' = Done  BY <1>2, Zenon DEF Done
<1> QED  BY <1>2, <1>3 DEF Library!vars

LEMMA Begins ==
  ASSUME FilesInv, NEW caller \in Callers, Begin(caller)
  PROVE  UNCHANGED Library!vars
<1> DEFINE plan == Plan(calls[caller])
           c == [caller |-> caller, steps |-> plan.steps, answer |-> plan.answer]
<1>1. /\ running = {} /\ running' = {c} /\ calls[caller].name # "none"
      /\ UNCHANGED <<disk, calls, error>>
  BY DEF Begin, web
<1>2. c.steps = plan.steps /\ c.answer = plan.answer /\ c.caller = caller
  OBVIOUS
<1>3. calls[caller].name \in {"save_library_node", "delete_library_node"} =>
        ~(c.steps = <<>> /\ c.answer.kind = "Ok")
  <2> HIDE DEF c
  <2> QED  BY <1>1, <1>2, PlanIsOK
<1> HIDE DEF c
<1>4. ~Done  BY <1>1, Undone
<1>5. ~Done'
  <2>1. CASE caller = "panel" /\ calls[caller].name \in {"save_library_node", "delete_library_node"}
    BY <1>1, <1>3, <2>1 DEF Done
  <2>2. CASE caller # "panel"
    BY <1>1, <1>2, <2>2 DEF Done
  <2>3. CASE caller = "panel" /\ calls[caller].name \notin {"save_library_node", "delete_library_node"}
    <3>1. Request'.op \in {"none", "look"}
      <4>1. calls'["panel"].name \notin {"save_library_node", "delete_library_node"}
        BY <1>1, <2>3
      <4> QED  BY <4>1, RequestIsOf, Requests DEF PanelNames
    <3> QED  BY <3>1 DEF Done
  <2> QED  BY <2>1, <2>2, <2>3
<1> QED  BY <1>1, <1>4, <1>5, Stutters

\* The step that moves an item is the shelf's.
LEMMA PerformsOnShelf ==
  ASSUME FilesInv, NEW c \in running, Perform(c)
  PROVE  Library!Save \/ Library!Delete \/ UNCHANGED Library!vars
<1>1. PICK n : /\ running' = {n} /\ IsCommand(n) /\ n.caller = c.caller
               /\ MovesOn(disk, disk', c, n)
  BY StepTaken
<1>2. Shelves(disk, disk', calls[c.caller], n)
  BY <1>1, Performs DEF StepDone
<1>3. UNCHANGED <<calls, error>>  BY DEF Perform, web
<1>4. \/ c.caller = "panel"
      \/ c.caller # "panel" /\ calls[c.caller].name \in SessionNames \cup {"list_library_node"}
  <2>1. CASE c.caller = "refresh" /\ calls["refresh"].name = "list_library_node"
    <3>1. calls[c.caller].name = "list_library_node" /\ c.caller # "panel"  BY <2>1
    <3> QED  BY <3>1
  <2>2. CASE c.caller = "session" /\ calls["session"].name \in SessionNames
    <3>1. calls[c.caller].name \in SessionNames /\ c.caller # "panel"  BY <2>2
    <3> QED  BY <3>1
  <2>3. \/ c.caller = "panel" /\ calls["panel"].name \in PanelNames
        \/ c.caller = "refresh" /\ calls["refresh"].name = "list_library_node"
        \/ c.caller = "session" /\ calls["session"].name \in SessionNames
    BY CommandsAreAwaited
  <2> QED  BY <2>1, <2>2, <2>3
<1>5. ~Done
  <2>1. c.steps # <<>>  BY DEF Perform
  <2> QED  BY <2>1, Undone
<1>6. CASE c.caller # "panel"
  <2>1. ShelfOf(disk') = ShelfOf(disk)
    BY <1>2, <1>4, <1>6 DEF Shelves, SessionNames
  <2>2. ~Done'  BY <1>1, <1>6 DEF Done
  <2> QED  BY <1>3, <1>5, <2>1, <2>2, Stutters
<1>7. CASE c.caller = "panel"
  <2> DEFINE call == calls["panel"]
  <2>1. OnShelf = ShelfOf(disk) /\ OnShelf' = ShelfOf(disk')  BY ShelfIsOf
  <2>2. Request = RequestOf(call) /\ Request' = Request
    BY <1>3, RequestIsOf
  <2>3. Shelves(disk, disk', call, n)  BY <1>2, <1>7
  <2> HIDE DEF call
  <2>4. CASE /\ ShelfOf(disk') = ShelfOf(disk)
             /\ call.name \in {"save_library_node", "delete_library_node"} => n.steps # <<>>
    <3>1. ~Done'
      <4>1. CASE call.name \in {"save_library_node", "delete_library_node"}
        BY <1>1, <2>4, <4>1 DEF Done
      <4>2. CASE call.name \notin {"save_library_node", "delete_library_node"}
        <5>1. Request'.op \in {"none", "look"}  BY <2>2, <4>2, Requests DEF PanelNames
        <5> QED  BY <5>1 DEF Done
      <4> QED  BY <4>1, <4>2
    <3> QED  BY <1>3, <1>5, <2>4, <3>1, Stutters
  <2>5. CASE /\ call.name = "save_library_node" /\ n.steps = <<>> /\ n.answer.kind = "Ok"
             /\ \E item : call.arg = {item} /\ ShelfOf(disk') = ShelfWith(disk, item)
    <3>1. PICK item : call.arg = {item} /\ ShelfOf(disk') = ShelfWith(disk, item)
      BY <2>5
    <3>2. Request.op = "save" /\ Request.item = item
      BY <2>2, <2>5, <3>1, Requests
    <3>3. Done'  BY <1>1, <1>7, <2>2, <2>5, <3>2 DEF Done
    <3>4. OnShelf' = [id \in DOMAIN OnShelf \cup {Request.item.id} |->
                        IF id = Request.item.id THEN Request.item ELSE OnShelf[id]]
      BY <2>1, <3>1, <3>2 DEF ShelfWith
    <3> QED  BY <1>3, <1>5, <2>2, <3>2, <3>3, <3>4 DEF Library!Save
  <2>6. CASE /\ call.name = "delete_library_node" /\ n.steps = <<>> /\ n.answer.kind = "Ok"
             /\ \E item : /\ call.arg = {item} /\ item.id \in DOMAIN ShelfOf(disk)
                          /\ ShelfOf(disk') = ShelfWithout(disk, item.id)
    <3>1. PICK item : /\ call.arg = {item} /\ item.id \in DOMAIN ShelfOf(disk)
                      /\ ShelfOf(disk') = ShelfWithout(disk, item.id)
      BY <2>6
    <3>2. Request.op = "delete" /\ Request.item = item
      BY <2>2, <2>6, <3>1, Requests
    <3>3. Done'  BY <1>1, <1>7, <2>2, <2>6, <3>2 DEF Done
    <3>4. /\ Request.item.id \in DOMAIN OnShelf
          /\ OnShelf' = [id \in DOMAIN OnShelf \ {Request.item.id} |-> OnShelf[id]]
      BY <2>1, <3>1, <3>2 DEF ShelfWithout
    <3>5. OnShelf' = Library!Restrict(OnShelf, DOMAIN OnShelf \ {Request.item.id})
      BY <3>4 DEF Library!Restrict
    <3> QED  BY <1>3, <1>5, <2>2, <3>2, <3>3, <3>4, <3>5 DEF Library!Delete
  <2> QED  BY <2>3, <2>4, <2>5, <2>6 DEF Shelves
<1> QED  BY <1>4, <1>6, <1>7

LEMMA FailsBesideShelf ==
  ASSUME FilesInv, NEW c \in running, Fail(c)
  PROVE  UNCHANGED Library!vars
<1>1. PICK n : /\ running' = {n} /\ n.caller = c.caller
               /\ c.steps # <<>> \/ calls[c.caller].name \in {"list_library_node", "load_project"}
               /\ calls[c.caller].name # "load_recents" => n.answer = LibraryError("Io")
  BY Fails
<1>2. UNCHANGED <<disk, calls, error>>  BY DEF Fail, web
<1>3. ~Done
  <2>1. CASE c.steps # <<>> \/ c.caller # "panel"
    BY <2>1, Undone
  <2>2. CASE calls["panel"].name \in {"list_library_node", "load_project"}
    <3>1. Request.op \in {"none", "look"}  BY <2>2, RequestIsOf, Requests DEF PanelNames
    <3> QED  BY <3>1, NothingDone
  <2> QED  BY <1>1, <2>1, <2>2
<1>4. ~Done'
  <2>1. CASE calls["panel"].name # "load_recents"
    BY <1>1, <2>1 DEF Done, LibraryError
  <2>2. CASE calls["panel"].name = "load_recents"
    <3>1. Request'.op = "none"  BY <1>2, <2>2, RequestIsOf, Requests DEF PanelNames
    <3> QED  BY <3>1 DEF Done
  <2> QED  BY <2>1, <2>2
<1> QED  BY <1>2, <1>3, <1>4, Stutters

\* The panel hears what a listing found that it did not wait for.
LEMMA Hears ==
  ASSUME FilesInv, NEW c \in running, Answer(c), c.caller = "refresh"
  PROVE  Library!Tell \/ UNCHANGED Library!vars
<1>1. /\ calls["refresh"].name = "list_library_node" /\ calls = [x \in Callers |-> calls[x]]
      /\ ~Done
  BY CommandsAreAwaited, Undone DEF FilesInv
<1>2. Listed("refresh", c.answer) /\ running' = {} /\ disk' = disk
  BY <1>1 DEF Answer, PanelAnswered
<1>3. calls'["panel"] = calls["panel"] /\ error' \in {error, "failed"}
  BY <1>1, <1>2, Callees DEF Listed
<1>4. ~Done'  BY <1>2 DEF Done
<1>5. Request' = Request /\ OnShelf' = OnShelf  BY <1>2, <1>3, RequestIsOf, ShelfIsOf
<1>6. Done' = Done  BY <1>1, <1>4 DEF Done
<1> QED  BY <1>3, <1>5, <1>6 DEF Library!Tell, Library!vars

\* The panel hears what became of what it asked for.
LEMMA Replies ==
  ASSUME FilesInv, NEW c \in running, Answer(c), c.caller = "panel"
  PROVE  Library!Confirm \/ Library!Refuse \/ Library!Seen
<1> DEFINE call == calls["panel"]
<1>1. /\ StepsOK(disk, call, c) /\ call.name \in PanelNames /\ running = {c}
      /\ c.steps = <<>>
  BY CommandsAreAwaited DEF Answer
<1>2. PanelAnswered("panel", c.answer) /\ running' = {} /\ disk' = disk
  BY DEF Answer
<1>3. OnShelf' = OnShelf /\ OnShelf = ShelfOf(disk)  BY <1>2, ShelfIsOf
<1>4. ~Done'  BY <1>2 DEF Done
<1>5. calls = [x \in Callers |-> calls[x]]
  BY DEF FilesInv
<1>6. Request = RequestOf(call) /\ Request' = RequestOf(calls'["panel"])
  BY RequestIsOf
<1>7. CASE call.name = "list_library_node"
  <2>1. Listed("panel", c.answer)
    BY <1>2, <1>7 DEF PanelAnswered
  <2>2. error' \in {error, "failed"} /\ calls'["panel"] = NoCall
    BY <1>5, <2>1, Callees DEF Listed
  <2>3. Request.op = "look" /\ Request'.op = "none"
    BY <1>6, <1>7, <2>2, Requests, Callees DEF PanelNames
  <2>4. ~Done  BY <2>3, NothingDone
  <2>5. Done' = Done  BY <1>4, <2>4 DEF Done
  <2> QED  BY <1>3, <2>2, <2>3, <2>5 DEF Library!Seen
<1>8. CASE call.name \in {"save_library_node", "delete_library_node"}
  <2>1. Changed(c.answer)
    BY <1>2, <1>8 DEF PanelAnswered
  <2>2. Request.op \in {"save", "delete"}
    BY <1>6, <1>8, Requests
  <2>3. Done <=> c.answer.kind = "Ok"
    BY <1>1, <2>2 DEF Done
  <2>4. CASE c.answer.kind = "Ok"
    <3>1. error' = "none" /\ calls'["panel"] = Call("list_library_node", {})
      BY <1>5, <2>1, <2>4, Callees DEF Changed
    <3>2. Request'.op = "look"  BY <1>6, <3>1, Requests, Callees
    <3> QED  BY <1>3, <1>4, <2>2, <2>3, <2>4, <3>1, <3>2 DEF Library!Confirm, Library!Waiting
  <2>5. CASE c.answer.kind # "Ok"
    <3>1. error' = "failed" /\ calls'["panel"] = NoCall
      BY <1>5, <2>1, <2>5, Callees DEF Changed
    <3>2. Request'.op = "none"  BY <1>6, <3>1, Requests, Callees DEF PanelNames
    <3> QED  BY <1>3, <1>4, <2>2, <2>3, <2>5, <3>1, <3>2 DEF Library!Refuse, Library!Waiting
  <2> QED  BY <2>4, <2>5
<1> QED  BY <1>1, <1>7, <1>8 DEF PanelNames

LEMMA SessionHears ==
  ASSUME FilesInv, NEW c \in running, Answer(c), c.caller = "session"
  PROVE  UNCHANGED Library!vars
<1>1. /\ SessionAnswered(calls["session"], c.answer) /\ running' = {}
      /\ UNCHANGED <<disk, error>>
  BY DEF Answer, SessionAnswered
<1>2. SessionCallOK(kept, calls["session"]) /\ calls = [x \in Callers |-> calls[x]]
  BY DEF FilesInv
<1>3. calls'["panel"] = calls["panel"]
  <2>1. PICK v : calls' = [calls EXCEPT !["session"] = v]
    BY <1>1 DEF SessionAnswered
  <2> QED  BY <1>2, <2>1, Callees
<1>4. ~Done  BY Undone
<1>5. ~Done'  BY <1>1 DEF Done
<1> QED  BY <1>1, <1>3, <1>4, <1>5, Stutters

\* Every step is one of the shelf's, or none.
LEMMA ShelfSteps ==
  ASSUME FilesInv, [Next]_vars
  PROVE  [Library!Next]_(Library!vars)
<1> USE DEF Library!Next
<1>1. ASSUME NEW selected, SaveSelection(selected) PROVE Library!Next
  <2>1. PICK item : Post("panel", "save_library_node", item)
    BY <1>1 DEF SaveSelection
  <2>2. UNCHANGED <<disk, running>> /\ error' = "none"  BY <1>1 DEF SaveSelection
  <2> QED  BY <2>1, <2>2, Asks
<1>2. ASSUME NEW item \in ToSet(items), Delete(item) PROVE Library!Next
  <2>1. Post("panel", "delete_library_node", item) /\ UNCHANGED <<disk, running>> /\ error' = "none"
    BY <1>2 DEF Delete
  <2> QED  BY <2>1, Asks
<1>3. ASSUME NEW item \in ToSet(items), Insert(item) PROVE UNCHANGED Library!vars
  <2>1. UNCHANGED <<disk, running, calls, error>>  BY <1>3 DEF Insert
  <2>2. Request' = Request /\ OnShelf' = OnShelf  BY <2>1, RequestIsOf, ShelfIsOf
  <2>3. Done' = Done  BY <2>1, <2>2, Zenon DEF Done
  <2> QED  BY <2>1, <2>2, <2>3 DEF Library!vars
<1>4. ASSUME NEW path \in ProjectPaths, SaveProject(path) \/ OpenProject(path)
      PROVE  UNCHANGED Library!vars
  <2>1. PICK name, a : Post("session", name, a)  BY <1>4 DEF SaveProject, OpenProject
  <2>2. UNCHANGED <<disk, running, error>>  BY <1>4 DEF SaveProject, OpenProject, web
  <2> QED  BY <2>1, <2>2, SessionAsks
<1>5. ASSUME NEW path \in ProjectPaths, RemoveProject(path) PROVE UNCHANGED Library!vars
  <2>1. running = {} /\ UNCHANGED <<running, calls, error>>  BY <1>5 DEF RemoveProject, web
  <2>2. ShelfOf(disk') = ShelfOf(disk)  BY <1>5, InvRemoveProject
  <2>3. ~Done  BY <2>1, Undone
  <2>4. ~Done'  BY <2>1 DEF Done
  <2> QED  BY <2>1, <2>2, <2>3, <2>4, Stutters
<1>6. CASE Refresh  BY <1>6, Looks
<1>7. CASE OpenRecentMenu
  <2>1. PICK name, a : Post("session", name, a)  BY <1>7 DEF OpenRecentMenu
  <2>2. UNCHANGED <<disk, running, error>>  BY <1>7 DEF OpenRecentMenu, web
  <2> QED  BY <2>1, <2>2, SessionAsks
<1>8. ASSUME NEW caller \in Callers, Begin(caller) PROVE UNCHANGED Library!vars
  BY <1>8, Begins
<1>9. ASSUME NEW c \in running, Perform(c) PROVE Library!Next \/ UNCHANGED Library!vars
  BY <1>9, PerformsOnShelf
<1>10. ASSUME NEW c \in running, Fail(c) PROVE UNCHANGED Library!vars
  BY <1>10, FailsBesideShelf
<1>11. ASSUME NEW c \in running, Answer(c) PROVE Library!Next \/ UNCHANGED Library!vars
  <2>1. c.caller = "panel" \/ c.caller = "refresh" \/ c.caller = "session"
    BY DEF FilesInv, IsCommand, Callers
  <2> QED  BY <1>11, <2>1, Replies, Hears, SessionHears
<1>12. CASE Relaunch  BY <1>12, Restarts
<1>13. CASE UNCHANGED vars
  <2>1. UNCHANGED <<disk, running, calls, error>>  BY <1>13 DEF vars, web
  <2>2. Request' = Request /\ OnShelf' = OnShelf  BY <2>1, RequestIsOf, ShelfIsOf
  <2>3. Done' = Done  BY <2>1, <2>2, Zenon DEF Done
  <2> QED  BY <2>1, <2>2, <2>3 DEF Library!vars
<1> HIDE DEF Library!Next
<1> QED
  BY <1>1, <1>2, <1>3, <1>4, <1>5, <1>6, <1>7, <1>8, <1>9, <1>10, <1>11, <1>12, <1>13
  DEF Next

LEMMA ShelfInit ==
  ASSUME Init
  PROVE  Library!Init
<1>1. calls["panel"] = NoCall /\ running = {} /\ error = "none"
  BY Callees DEF Init, Mounted
<1>2. Request.op = "none"  BY <1>1, RequestIsOf, Requests, Callees DEF PanelNames
<1>3. ~Done  BY <1>2 DEF Done
<1> QED  BY <1>1, <1>2, <1>3 DEF Library!Init

\* The library implements Shelf: a save or a deletion is done once or not at all, its
\* reply tells the panel which, and a listing moves nothing, also when it fails.
THEOREM LibraryRefines == Spec => LibraryImplementsShelf
<1>1. Init => Library!Init  BY ShelfInit
<1>2. FilesInv /\ [Next]_vars => [Library!Next]_(Library!vars)  BY ShelfSteps
<1> QED  BY <1>1, <1>2, FilesInvariant, PTL DEF Spec, LibraryImplementsShelf, Library!Spec
=============================================================================
