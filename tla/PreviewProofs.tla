---------------------------- MODULE PreviewProofs ----------------------------
(***************************************************************************)
(* The preview.  LivePreview, for any number of streams, versions and      *)
(* events in flight: that starting and stopping is robust to late stops    *)
(* (QueueInv, of the calls to the backend); that neither what is shown nor *)
(* what a stream renders goes back to an older version (LatestInv, of the  *)
(* order of the documents under way); and that badge and canvas show the   *)
(* current stream (BadgeInv, of the reports and events under way).         *)
(* PixelInspector and Viewport, for panes, sources and simulated viewports *)
(* of every size: where the image is put in the pane, and which of its     *)
(* pixels the probe names.                                                 *)
(***************************************************************************)
EXTENDS LivePreview, PixelInspector, SequenceTheorems, TLAPS

Calls == [op : {"start", "stop", "shader", "source", "chain"}, arg : Int, compiles : BOOLEAN]

\* The i-th call of queue q is op of stream s.
Waits(q, i, op, s) == i \in 1..Len(q) /\ q[i].op = op /\ q[i].arg = s

\* Starts under way are of streams that were made, and the last of them is of the
\* last stream.
StartsExist(q, last)  == \A i \in 1..Len(q) : q[i].op = "start" => q[i].arg \in 1..last
LastIsQueued(q, last) == \A i \in 1..Len(q) : q[i].op = "start" /\ q[i].arg # last
                            => \E j \in 1..Len(q) : i < j /\ Waits(q, j, "start", last)
LastIsLast(q, last)   == \A i, j \in 1..Len(q) :
                            Waits(q, i, "start", last) /\ i < j => q[j].op # "start"

\* A stop of the last stream waits behind its start, and once.
StopsExist(q, last)  == \A i \in 1..Len(q) : q[i].op = "stop" => q[i].arg \in 1..last
StopsFollow(q, last) == \A i, j \in 1..Len(q) :
                           Waits(q, i, "start", last) /\ Waits(q, j, "stop", last) => i < j
StopsOnce(q, last)   == \A i, j \in 1..Len(q) :
                           Waits(q, i, "stop", last) /\ Waits(q, j, "stop", last) => i = j

Ordered(q, last) == /\ StartsExist(q, last) /\ LastIsQueued(q, last) /\ LastIsLast(q, last)
                    /\ StopsExist(q, last) /\ StopsFollow(q, last) /\ StopsOnce(q, last)

Starting(q, last) == \E i \in 1..Len(q) : Waits(q, i, "start", last)
Stopping(q, last) == \E i \in 1..Len(q) : Waits(q, i, "stop", last)
NoStart(q)        == \A i \in 1..Len(q) : q[i].op # "start"

QueueType == /\ ipc \in Seq(Calls) /\ started \in Nat \ {0} /\ streaming \in BOOLEAN
             /\ timer \in Nat /\ kinds \in Seq(Kinds)

\* The webview owns the last stream it made, or none.
OwnsTheLast == current = IF streaming THEN started ELSE 0

\* A stop of the last stream is under way only when the webview stopped it, and then
\* it is, at least as long as the start is.
StopIsOwed == /\ Stopping(ipc, started) => ~streaming
              /\ Starting(ipc, started) /\ ~streaming => Stopping(ipc, started)

\* When no start is under way the backend has the last stream, until it is stopped.
LastIsActive == NoStart(ipc) =>
                  /\ active \in {0, started}
                  /\ active = started <=> streaming \/ Stopping(ipc, started)

QueueInv == QueueType /\ OwnsTheLast /\ Ordered(ipc, started) /\ StopIsOwed /\ LastIsActive

------------------------------------------------------------------------------
(* What remains of a sequence without its i-th element. *)
LEMMA Removed ==
  ASSUME NEW S, NEW q \in Seq(S), NEW i \in 1..Len(q)
  PROVE  /\ RemoveAt(q, i) \in Seq(S)
         /\ Len(RemoveAt(q, i)) = Len(q) - 1
         /\ \A j \in 1..(i - 1) : RemoveAt(q, i)[j] = q[j]
         /\ \A j \in i..(Len(q) - 1) : RemoveAt(q, i)[j] = q[j + 1]
<1> DEFINE a == SubSeq(q, 1, i - 1)
           b == SubSeq(q, i + 1, Len(q))
<1>1. /\ a \in Seq(S) /\ Len(a) = i - 1
      /\ \A j \in 1..(i - 1) : a[j] = q[j]
  BY SMT
<1>2. /\ b \in Seq(S) /\ Len(b) = Len(q) - i
      /\ \A j \in 1..(Len(q) - i) : b[j] = q[i + j]
  BY SMT
<1> HIDE DEF a, b
<1>3. /\ a \o b \in Seq(S) /\ Len(a \o b) = Len(a) + Len(b)
      /\ \A j \in 1..(Len(a) + Len(b)) : (a \o b)[j] = IF j <= Len(a) THEN a[j] ELSE b[j - Len(a)]
  BY <1>1, <1>2, ConcatProperties
<1>4. RemoveAt(q, i) = a \o b
  BY DEF RemoveAt, a, b
<1>5. ASSUME NEW j \in 1..(i - 1) PROVE (a \o b)[j] = q[j]
  BY <1>1, <1>2, <1>3, SMT
<1>6. ASSUME NEW j \in i..(Len(q) - 1) PROVE (a \o b)[j] = q[j + 1]
  <2>1. j \in 1..(Len(a) + Len(b)) /\ ~(j <= Len(a)) /\ j - Len(a) \in 1..(Len(q) - i)
        /\ i + (j - Len(a)) = j + 1
    BY <1>1, <1>2, SMT
  <2> QED BY <2>1, <1>2, <1>3
<1>7. Len(a) + Len(b) = Len(q) - 1
  BY <1>1, <1>2, SMT
<1> QED BY <1>3, <1>4, <1>5, <1>6, <1>7

(* A call that is executed leaves the others in their order. *)
Remains(r, q, i) ==
  /\ r \in Seq(Calls)
  /\ \A j \in 1..Len(r) : \E k \in 1..Len(q) : k # i /\ r[j] = q[k]
  /\ \A k \in 1..Len(q) : k # i => \E j \in 1..Len(r) : r[j] = q[k]
  /\ \A j, m \in 1..Len(r) : j < m => \E k, n \in 1..Len(q) :
       k < n /\ k # i /\ n # i /\ r[j] = q[k] /\ r[m] = q[n]
  /\ \A j \in 1..Len(r) : \E k \in 1..Len(q) :
       /\ k # i /\ r[j] = q[k]
       /\ \A n \in 1..Len(q) : k < n /\ n # i => \E m \in 1..Len(r) : j < m /\ r[m] = q[n]

LEMMA Positions ==
  ASSUME NEW q \in Seq(Calls), NEW i \in 1..Len(q)
  PROVE  Remains(RemoveAt(q, i), q, i)
<1> DEFINE r == RemoveAt(q, i)
           Up(j) == IF j < i THEN j ELSE j + 1
           Down(k) == IF k < i THEN k ELSE k - 1
<1>1. /\ r \in Seq(Calls) /\ Len(r) = Len(q) - 1 /\ Len(q) \in Nat
      /\ \A j \in 1..(i - 1) : r[j] = q[j]
      /\ \A j \in i..(Len(q) - 1) : r[j] = q[j + 1]
  BY Removed, LenProperties
<1> HIDE DEF r
<1>2. \A j \in 1..Len(r) : Up(j) \in 1..Len(q) /\ Up(j) # i /\ r[j] = q[Up(j)]
  BY <1>1, SMT
<1>3. \A k \in 1..Len(q) : k # i => Down(k) \in 1..Len(r) /\ r[Down(k)] = q[k]
  BY <1>1, SMT
<1>4. \A j, m \in 1..Len(r) : j < m => Up(j) < Up(m)
  BY <1>1, SMT
<1>5. \A j \in 1..Len(r) : \A n \in 1..Len(q) : Up(j) < n /\ n # i => j < Down(n)
  BY <1>1, SMT
<1> HIDE DEF Up, Down
<1>6. \A j \in 1..Len(r) : \E k \in 1..Len(q) : k # i /\ r[j] = q[k]
  BY <1>2
<1>7. \A k \in 1..Len(q) : k # i => \E j \in 1..Len(r) : r[j] = q[k]
  BY <1>3
<1>8. ASSUME NEW j \in 1..Len(r), NEW m \in 1..Len(r), j < m
      PROVE  \E k, n \in 1..Len(q) : k < n /\ k # i /\ n # i /\ r[j] = q[k] /\ r[m] = q[n]
  BY <1>2, <1>4, <1>8, Zenon
<1>9. ASSUME NEW j \in 1..Len(r)
      PROVE  \E k \in 1..Len(q) :
               /\ k # i /\ r[j] = q[k]
               /\ \A n \in 1..Len(q) : k < n /\ n # i => \E m \in 1..Len(r) : j < m /\ r[m] = q[n]
  <2>1. ASSUME NEW n \in 1..Len(q), Up(j) < n, n # i
        PROVE  \E m \in 1..Len(r) : j < m /\ r[m] = q[n]
    BY <2>1, <1>3, <1>5, Zenon
  <2> QED BY <2>1, <1>2, Zenon
<1> QED BY <1>1, <1>6, <1>7, <1>8, <1>9, Zenon DEF Remains, r

(* Any call may leave the queue, a start once only stops are before it, without     *)
(* harm to the order of those that stay.                                            *)
LEMMA LeavesOrdered ==
  ASSUME NEW q \in Seq(Calls), NEW i \in 1..Len(q), NEW r, Remains(r, q, i),
         NEW last, Ordered(q, last),
         q[i].op = "start" => \A j \in 1..(i - 1) : q[j].op = "stop"
  PROVE  Ordered(r, last)
<1>0. \A j, m \in 1..Len(r) : j < m => \E k, n \in 1..Len(q) :
         k < n /\ k # i /\ n # i /\ r[j] = q[k] /\ r[m] = q[n]
  BY DEF Remains
<1>1. Len(q) \in Nat /\ Len(r) \in Nat
  BY LenProperties DEF Remains
<1>2. StartsExist(r, last) /\ StopsExist(r, last)
  <2>1. ASSUME NEW j \in 1..Len(r), r[j].op \in {"start", "stop"} PROVE r[j].arg \in 1..last
    <3>1. PICK k \in 1..Len(q) : r[j] = q[k]
      BY Zenon DEF Remains
    <3>2. q[k].op \in {"start", "stop"} => q[k].arg \in 1..last
      BY DEF Ordered, StartsExist, StopsExist
    <3> QED BY <2>1, <3>1, <3>2
  <2> QED BY <2>1 DEF StartsExist, StopsExist
<1>3. LastIsLast(r, last)
  <2> SUFFICES ASSUME NEW j \in 1..Len(r), NEW m \in 1..Len(r),
                      Waits(r, j, "start", last), j < m
               PROVE  r[m].op # "start"
    BY Zenon DEF LastIsLast
  <2>1. PICK k \in 1..Len(q), n \in 1..Len(q) : k < n /\ r[j] = q[k] /\ r[m] = q[n]
    BY <1>0, Zenon
  <2>2. Waits(q, k, "start", last)
    BY <2>1, SMT DEF Waits
  <2> QED BY <2>1, <2>2, Zenon DEF Ordered, LastIsLast
<1>4. StopsFollow(r, last)
  <2> SUFFICES ASSUME NEW j \in 1..Len(r), NEW m \in 1..Len(r),
                      Waits(r, j, "start", last), Waits(r, m, "stop", last), ~(j < m)
               PROVE  FALSE
    BY Zenon DEF StopsFollow
  <2>1. j # m
    BY Zenon DEF Waits
  <2>2. m < j
    BY <2>1, <1>1, SMT
  <2>3. PICK k \in 1..Len(q), n \in 1..Len(q) : k < n /\ r[m] = q[k] /\ r[j] = q[n]
    BY <1>0, <2>2, Zenon
  <2>4. n < k
    <3>1. Waits(q, n, "start", last) /\ Waits(q, k, "stop", last)
      BY <2>3, SMT DEF Waits
    <3> QED BY <3>1, Zenon DEF Ordered, StopsFollow
  <2> QED BY <2>3, <2>4, <1>1, SMT
<1>5. StopsOnce(r, last)
  <2>1. ASSUME NEW j \in 1..Len(r), NEW m \in 1..Len(r), j < m,
               Waits(r, j, "stop", last), Waits(r, m, "stop", last)
        PROVE  FALSE
    <3>1. PICK k \in 1..Len(q), n \in 1..Len(q) : k < n /\ r[j] = q[k] /\ r[m] = q[n]
      BY <1>0, <2>1, Zenon
    <3>2. Waits(q, k, "stop", last) /\ Waits(q, n, "stop", last)
      BY <2>1, <3>1, SMT DEF Waits
    <3>3. k = n
      BY <3>2, Zenon DEF Ordered, StopsOnce
    <3> QED BY <3>1, <3>3, <1>1, SMT
  <2>2. \A j, m \in 1..Len(r) : j < m \/ m < j \/ j = m
    BY <1>1, SMT
  <2> QED BY <2>1, <2>2, Zenon DEF StopsOnce
<1>6. LastIsQueued(r, last)
  <2> SUFFICES ASSUME NEW j \in 1..Len(r), r[j].op = "start", r[j].arg # last
               PROVE  \E m \in 1..Len(r) : j < m /\ Waits(r, m, "start", last)
    BY Zenon DEF LastIsQueued
  <2>1. PICK k \in 1..Len(q) :
          /\ k # i /\ r[j] = q[k]
          /\ \A n \in 1..Len(q) : k < n /\ n # i => \E m \in 1..Len(r) : j < m /\ r[m] = q[n]
    BY Zenon DEF Remains
  <2>2. PICK n \in 1..Len(q) : k < n /\ Waits(q, n, "start", last)
    BY <2>1, Zenon DEF Ordered, LastIsQueued
  <2>3. n # i
    <3>1. k < i => k \in 1..(i - 1)
      BY <1>1, SMT
    <3>2. q[i].op = "start" /\ k < i => q[k].op = "stop"
      BY <3>1
    <3> QED BY <2>1, <2>2, <3>2, Zenon DEF Waits
  <2> QED BY <2>1, <2>2, <2>3, Zenon DEF Waits
<1> QED BY <1>2, <1>3, <1>4, <1>5, <1>6 DEF Ordered

(* What a call that leaves takes with it. *)
LEMMA LeavesBehind ==
  ASSUME NEW q \in Seq(Calls), NEW i \in 1..Len(q), NEW r, Remains(r, q, i),
         NEW last, Ordered(q, last)
  PROVE  /\ Starting(r, last) => Starting(q, last)
         /\ Stopping(r, last) => Stopping(q, last)
         /\ Stopping(q, last) /\ ~Waits(q, i, "stop", last) => Stopping(r, last)
         /\ Stopping(r, last) => ~Waits(q, i, "stop", last)
         /\ NoStart(r) /\ q[i].op # "start" => NoStart(q)
         /\ NoStart(r) /\ q[i].op = "start" => Waits(q, i, "start", last)
<1>1. /\ \A j \in 1..Len(r) : \E k \in 1..Len(q) : k # i /\ r[j] = q[k]
      /\ \A k \in 1..Len(q) : k # i => \E j \in 1..Len(r) : r[j] = q[k]
  BY DEF Remains
<1>2. ASSUME NEW op, NEW j \in 1..Len(r), Waits(r, j, op, last)
      PROVE  \E k \in 1..Len(q) : k # i /\ Waits(q, k, op, last)
  <2>1. PICK k \in 1..Len(q) : k # i /\ r[j] = q[k]
    BY <1>1, Zenon
  <2> QED BY <2>1, <1>2, SMT DEF Waits
<1>3. ASSUME NEW op, NEW k \in 1..Len(q), k # i, Waits(q, k, op, last)
      PROVE  \E j \in 1..Len(r) : Waits(r, j, op, last)
  <2>1. PICK j \in 1..Len(r) : r[j] = q[k]
    BY <1>1, <1>3, Zenon
  <2> QED BY <2>1, <1>3, SMT DEF Waits
<1>4. Starting(r, last) => Starting(q, last)
  BY <1>2, Zenon DEF Starting
<1>5. Stopping(r, last) => Stopping(q, last) /\ ~Waits(q, i, "stop", last)
  BY <1>2, Zenon DEF Stopping, Ordered, StopsOnce
<1>6. Stopping(q, last) /\ ~Waits(q, i, "stop", last) => Stopping(r, last)
  BY <1>3, Zenon DEF Stopping
<1>7. ASSUME NoStart(r) PROVE \A k \in 1..Len(q) : k # i => q[k].op # "start"
  <2> SUFFICES ASSUME NEW k \in 1..Len(q), k # i PROVE q[k].op # "start"
    OBVIOUS
  <2>1. PICK j \in 1..Len(r) : r[j] = q[k]
    BY <1>1, Zenon
  <2> QED BY <2>1, <1>7, SMT DEF NoStart
<1>8. NoStart(r) /\ q[i].op # "start" => NoStart(q)
  BY <1>7, Zenon DEF NoStart
<1>9. NoStart(r) /\ q[i].op = "start" => Waits(q, i, "start", last)
  <2> SUFFICES ASSUME NoStart(r), q[i].op = "start", q[i].arg # last PROVE FALSE
    BY Zenon DEF Waits
  <2>1. PICK j \in 1..Len(q) : i < j /\ Waits(q, j, "start", last)
    BY Zenon DEF Ordered, LastIsQueued
  <2>2. j # i /\ q[j].op = "start"
    BY <2>1, LenProperties, SMT DEF Waits
  <2> QED BY <2>2, <1>7, Zenon
<1> QED BY <1>4, <1>5, <1>6, <1>8, <1>9, Zenon

(* A stop that only stops precede is not of a stream whose start is under way.      *)
LEMMA StopsAlone ==
  ASSUME NEW q \in Seq(Calls), NEW i \in 1..Len(q), NEW last, Ordered(q, last),
         Waits(q, i, "stop", last), \A j \in 1..(i - 1) : q[j].op = "stop"
  PROVE  ~Starting(q, last)
<1> SUFFICES ASSUME NEW k \in 1..Len(q), Waits(q, k, "start", last) PROVE FALSE
  BY Zenon DEF Starting
<1>1. k < i
  BY Zenon DEF Ordered, StopsFollow
<1>2. k \in 1..(i - 1)
  BY <1>1, LenProperties, SMT
<1> QED BY <1>2 DEF Waits

(* A call joins the queue at its end. *)
Joins(r, q, c) ==
  /\ r \in Seq(Calls) /\ Len(r) \in 1..Len(r) /\ r[Len(r)] = c
  /\ \A j \in 1..Len(q) : j \in 1..Len(r) /\ j < Len(r) /\ r[j] = q[j]
  /\ \A j \in 1..Len(r) : j \in 1..Len(q) \/ j = Len(r)

LEMMA Appended ==
  ASSUME NEW q \in Seq(Calls), NEW c \in Calls
  PROVE  Joins(Append(q, c), q, c)
<1> DEFINE r == Append(q, c)
<1>1. /\ r \in Seq(Calls) /\ Len(r) = Len(q) + 1 /\ Len(q) \in Nat
      /\ \A j \in 1..Len(q) : r[j] = q[j]
      /\ r[Len(q) + 1] = c
  BY AppendProperties, LenProperties
<1> HIDE DEF r
<1>2. Joins(r, q, c)
  BY <1>1, SMT DEF Joins
<1> QED BY <1>2 DEF r

LEMMA JoinsSame ==
  ASSUME NEW q \in Seq(Calls), NEW c, NEW r, Joins(r, q, c), NEW last, NEW op
  PROVE  /\ \A j \in 1..Len(q) : Waits(r, j, op, last) <=> Waits(q, j, op, last)
         /\ \A j : Waits(r, j, op, last) =>
               Waits(q, j, op, last) \/ (j = Len(r) /\ c.op = op /\ c.arg = last)
         /\ c.op # op => \A j : Waits(r, j, op, last) <=> Waits(q, j, op, last)
         /\ NoStart(r) <=> NoStart(q) /\ c.op # "start"
<1>1. /\ \A j \in 1..Len(q) : j \in 1..Len(r) /\ r[j] = q[j]
      /\ \A j \in 1..Len(r) : j \in 1..Len(q) \/ j = Len(r)
      /\ Len(r) \in 1..Len(r) /\ r[Len(r)] = c
  BY DEF Joins
<1>2. \A j \in 1..Len(q) : Waits(r, j, op, last) <=> Waits(q, j, op, last)
  BY <1>1, SMT DEF Waits
<1>3. ASSUME NEW j, Waits(r, j, op, last)
      PROVE  Waits(q, j, op, last) \/ (j = Len(r) /\ c.op = op /\ c.arg = last)
  BY <1>1, <1>2, <1>3, SMT DEF Waits
<1>4. ASSUME NEW j, Waits(q, j, op, last) PROVE Waits(r, j, op, last)
  BY <1>1, <1>4, SMT DEF Waits
<1>5. NoStart(r) <=> NoStart(q) /\ c.op # "start"
  BY <1>1, SMT DEF NoStart
<1> QED BY <1>2, <1>3, <1>4, <1>5, Zenon

(* A call that neither starts nor stops changes nothing.                            *)
LEMMA OtherJoins ==
  ASSUME NEW q \in Seq(Calls), NEW c \in Calls, c.op \notin {"start", "stop"},
         NEW last, Ordered(q, last)
  PROVE  /\ Append(q, c) \in Seq(Calls) /\ Ordered(Append(q, c), last)
         /\ Starting(Append(q, c), last) <=> Starting(q, last)
         /\ Stopping(Append(q, c), last) <=> Stopping(q, last)
         /\ NoStart(Append(q, c)) <=> NoStart(q)
<1> DEFINE r == Append(q, c)
<1>1. Joins(r, q, c)
  BY Appended
<1> HIDE DEF r
<1>2. /\ r \in Seq(Calls)
      /\ \A j \in 1..Len(q) : j \in 1..Len(r) /\ r[j] = q[j]
      /\ \A j \in 1..Len(r) : r[j].op \in {"start", "stop"} => j \in 1..Len(q)
  BY <1>1, SMT DEF Joins
<1>3. /\ \A j : Waits(r, j, "start", last) <=> Waits(q, j, "start", last)
      /\ \A j : Waits(r, j, "stop", last) <=> Waits(q, j, "stop", last)
      /\ NoStart(r) <=> NoStart(q)
  <2>1. c.op # "start" /\ c.op # "stop"
    OBVIOUS
  <2> QED BY <2>1, <1>1, JoinsSame, Zenon
<1>4. StartsExist(r, last) /\ StopsExist(r, last)
  BY <1>2, SMT DEF Ordered, StartsExist, StopsExist
<1>5. LastIsQueued(r, last) /\ LastIsLast(r, last)
  BY <1>2, <1>3, SMT DEF Ordered, LastIsQueued, LastIsLast
<1>6. \A j : Waits(q, j, "start", last) \/ Waits(q, j, "stop", last)
         => j \in 1..Len(q) /\ j \in 1..Len(r)
  BY <1>2, Zenon DEF Waits
<1>7. StopsFollow(r, last) /\ StopsOnce(r, last)
  BY <1>3, <1>6, Zenon DEF Ordered, StopsFollow, StopsOnce
<1>8. /\ Starting(r, last) <=> Starting(q, last)
      /\ Stopping(r, last) <=> Stopping(q, last)
  BY <1>3, <1>6, Zenon DEF Starting, Stopping
<1> QED BY <1>2, <1>3, <1>4, <1>5, <1>7, <1>8, Zenon DEF Ordered, r

(* A start of a new stream makes it the last. *)
LEMMA StartJoins ==
  ASSUME NEW q \in Seq(Calls), NEW last \in Nat \ {0}, Ordered(q, last),
         NEW c \in Calls, c.op = "start", c.arg = last + 1
  PROVE  /\ Append(q, c) \in Seq(Calls) /\ Ordered(Append(q, c), last + 1)
         /\ ~Stopping(Append(q, c), last + 1) /\ ~NoStart(Append(q, c))
<1> DEFINE r == Append(q, c)
           n == Len(r)
<1>1. Joins(r, q, c)
  BY Appended
<1> HIDE DEF r
<1>2. /\ r \in Seq(Calls) /\ n \in 1..n /\ r[n] = c
      /\ \A j \in 1..Len(q) : j \in 1..n /\ j < n /\ r[j] = q[j]
      /\ \A j \in 1..n : j \in 1..Len(q) \/ j = n
      /\ Len(q) \in Nat /\ n \in Nat
  BY <1>1, LenProperties DEF Joins
<1>3. \A j \in 1..Len(q) : /\ q[j].op \in {"start", "stop"} => q[j].arg \in 1..last
                           /\ q[j].op \in {"start", "stop"} => q[j].arg # last + 1
  BY SMT DEF Ordered, StartsExist, StopsExist
<1>4. \A j \in 1..n : r[j].op = "stop" \/ (r[j].op = "start" /\ j # n) => r[j].arg \in 1..last
  BY <1>2, <1>3, SMT
<1>5. \A j : ~Waits(r, j, "stop", last + 1)
  BY <1>4, SMT DEF Waits
<1>6. /\ Waits(r, n, "start", last + 1)
      /\ \A j : Waits(r, j, "start", last + 1) => j = n
  BY <1>2, <1>4, SMT DEF Waits
<1> HIDE DEF n
<1>7. StartsExist(r, last + 1) /\ StopsExist(r, last + 1)
  BY <1>2, <1>4, SMT DEF StartsExist, StopsExist, n
<1>8. LastIsQueued(r, last + 1)
  <2> SUFFICES ASSUME NEW j \in 1..Len(r), r[j].arg # last + 1 PROVE j < n
    BY <1>2, <1>6, Zenon DEF LastIsQueued, n
  <2> QED BY <1>2 DEF n
<1>9. LastIsLast(r, last + 1)
  <2> SUFFICES ASSUME NEW j \in 1..Len(r), n < j PROVE FALSE
    BY <1>6, Zenon DEF LastIsLast
  <2> QED BY <1>2, SMT DEF n
<1>10. StopsFollow(r, last + 1) /\ StopsOnce(r, last + 1)
  BY <1>5, Zenon DEF StopsFollow, StopsOnce
<1>11. ~Stopping(r, last + 1) /\ ~NoStart(r)
  BY <1>2, <1>5, SMT DEF Stopping, NoStart, n
<1> QED BY <1>2, <1>7, <1>8, <1>9, <1>10, <1>11, Zenon DEF Ordered, r

(* The stop of the last stream, when none is under way. *)
LEMMA StopJoins ==
  ASSUME NEW q \in Seq(Calls), NEW last \in Nat \ {0}, Ordered(q, last), ~Stopping(q, last),
         NEW c \in Calls, c.op = "stop", c.arg = last
  PROVE  /\ Append(q, c) \in Seq(Calls) /\ Ordered(Append(q, c), last)
         /\ Stopping(Append(q, c), last)
         /\ NoStart(Append(q, c)) <=> NoStart(q)
<1> DEFINE r == Append(q, c)
           n == Len(r)
<1>1. Joins(r, q, c)
  BY Appended
<1> HIDE DEF r
<1>2. /\ r \in Seq(Calls) /\ n \in 1..n /\ r[n] = c
      /\ \A j \in 1..Len(q) : j \in 1..n /\ j < n /\ r[j] = q[j]
      /\ \A j \in 1..n : j \in 1..Len(q) \/ j = n
      /\ Len(q) \in Nat /\ n \in Nat
  BY <1>1, LenProperties DEF Joins
<1>3. /\ \A j : Waits(r, j, "start", last) <=> Waits(q, j, "start", last)
      /\ NoStart(r) <=> NoStart(q)
  <2>1. c.op # "start"
    OBVIOUS
  <2> QED BY <2>1, <1>1, JoinsSame, Zenon
<1>4. /\ Waits(r, n, "stop", last)
      /\ \A j : Waits(r, j, "stop", last) => j = n
  <2>1. \A j : ~Waits(q, j, "stop", last)
    BY Zenon DEF Stopping, Waits
  <2>2. \A j : Waits(r, j, "stop", last) => Waits(q, j, "stop", last) \/ j = n
    BY <1>1, JoinsSame, Zenon
  <2> QED BY <1>2, <2>1, <2>2 DEF Waits
<1>5. \A j \in 1..n : r[j].op = "start" => j \in 1..Len(q) /\ r[j] = q[j]
  BY <1>2, SMT
<1>6. \A j \in 1..n : (j \in 1..Len(q) /\ r[j] = q[j]) \/ (j = n /\ r[j] = c)
  BY <1>2
<1>7. StartsExist(r, last) /\ StopsExist(r, last)
  <2>1. last \in 1..last
    BY SMT
  <2> QED BY <1>6, <2>1, SMT DEF Ordered, StartsExist, StopsExist
<1> HIDE DEF n
<1>8. LastIsQueued(r, last)
  <2> SUFFICES ASSUME NEW j \in 1..Len(r), r[j].op = "start", r[j].arg # last
               PROVE  \E m \in 1..Len(r) : j < m /\ Waits(r, m, "start", last)
    BY Zenon DEF LastIsQueued
  <2>1. j \in 1..Len(q) /\ r[j] = q[j]
    BY <1>5 DEF n
  <2>2. PICK m \in 1..Len(q) : j < m /\ Waits(q, m, "start", last)
    BY <2>1 DEF Ordered, LastIsQueued
  <2>3. m \in 1..Len(r)
    BY <1>2 DEF n
  <2> QED BY <2>2, <2>3, <1>3, Zenon
<1>9. LastIsLast(r, last)
  <2> SUFFICES ASSUME NEW i \in 1..Len(r), Waits(r, i, "start", last),
                      NEW j \in 1..Len(r), i < j, r[j].op = "start"
               PROVE  FALSE
    BY Zenon DEF LastIsLast
  <2>1. Waits(q, i, "start", last) /\ i \in 1..Len(q)
    BY <1>3, Zenon DEF Waits
  <2>2. j \in 1..Len(q) /\ r[j] = q[j]
    BY <1>5 DEF n
  <2> QED BY <2>1, <2>2 DEF Ordered, LastIsLast
<1>10. StopsFollow(r, last)
  <2>1. \A i : Waits(r, i, "start", last) => i < n
    BY <1>2, <1>3, Zenon DEF Waits
  <2> QED BY <2>1, <1>4, Zenon DEF StopsFollow
<1>11. StopsOnce(r, last) /\ Stopping(r, last)
  BY <1>2, <1>4, Zenon DEF StopsOnce, Stopping, n
<1> QED BY <1>2, <1>3, <1>7, <1>8, <1>9, <1>10, <1>11, Zenon DEF Ordered, r

------------------------------------------------------------------------------
LEMMA QueueInit == Init => QueueInv
<1> SUFFICES ASSUME Init PROVE QueueInv
  OBVIOUS
<1>1. /\ ipc = <<Call("start", 1), Call("shader", 0), Call("source", 0)>>
      /\ streaming = TRUE /\ started = 1 /\ current = 1 /\ active = 0
      /\ timer = 1 /\ kinds = <<"graph">>
  BY DEF Init, StreamsInit, StartCalls, Builtin
<1>2. /\ ipc \in Seq(Calls) /\ Len(ipc) = 3
      /\ ipc[1].op = "start" /\ ipc[1].arg = 1 /\ ipc[2].op = "shader" /\ ipc[3].op = "source"
  BY <1>1 DEF Call, Calls
<1>3. \A i \in 1..Len(ipc) : i \in {1, 2, 3}
  BY <1>2, SMT
<1>4. QueueType
  BY <1>1, <1>2 DEF QueueType, Kinds
<1>5. \A i \in 1..Len(ipc) : ipc[i].op # "stop" /\ (ipc[i].op = "start" => i = 1)
  BY <1>2, <1>3
<1>6. /\ \A j : ~Waits(ipc, j, "stop", 1)
      /\ \A j : Waits(ipc, j, "start", 1) => j = 1
      /\ Waits(ipc, 1, "start", 1)
  BY <1>2, <1>5, SMT DEF Waits
<1>7. StartsExist(ipc, 1) /\ StopsExist(ipc, 1) /\ LastIsQueued(ipc, 1)
  BY <1>2, <1>5, SMT DEF StartsExist, StopsExist, LastIsQueued
<1>8. LastIsLast(ipc, 1)
  BY <1>2, <1>5, <1>6, SMT DEF LastIsLast
<1>9. StopsFollow(ipc, 1) /\ StopsOnce(ipc, 1)
  BY <1>6, Zenon DEF StopsFollow, StopsOnce
<1>10. ~Stopping(ipc, 1) /\ ~NoStart(ipc)
  BY <1>2, <1>6, SMT DEF Stopping, NoStart
<1>11. OwnsTheLast /\ StopIsOwed /\ LastIsActive
  BY <1>1, <1>10 DEF OwnsTheLast, StopIsOwed, LastIsActive
<1> QED BY <1>1, <1>4, <1>7, <1>8, <1>9, <1>11 DEF QueueInv, Ordered

(* The steps of threads, forwarders, events and frames are none of its business. *)
LEMMA QueueRests ==
  ASSUME QueueInv, UNCHANGED <<ipc, started, streaming, current, active>>,
         timer' \in Nat, kinds' \in Seq(Kinds)
  PROVE  QueueInv'
BY DEF QueueInv, QueueType, OwnsTheLast, StopIsOwed, LastIsActive

LEMMA QueueStart ==
  ASSUME QueueInv, Start, UNCHANGED <<timer, kinds>>
  PROVE  QueueInv'
<1> DEFINE s == started + 1
           a == Append(ipc, Call("start", s))
           b == Append(a, Call("shader", Builtin))
           c == Append(b, Call("source", 0))
<1>1. ipc \in Seq(Calls) /\ started \in Nat \ {0} /\ s \in Nat \ {0} /\ Ordered(ipc, started)
  BY DEF QueueInv, QueueType
<1>2. /\ Call("start", s) \in Calls /\ Call("shader", Builtin) \in Calls
      /\ Call("source", 0) \in Calls
      /\ Call("start", s).op = "start" /\ Call("start", s).arg = started + 1
      /\ Call("shader", Builtin).op \notin {"start", "stop"}
      /\ Call("source", 0).op \notin {"start", "stop"}
  BY <1>1 DEF Call, Calls, Builtin
<1>3. ipc' = c
  <2>1. ipc' = ipc \o <<Call("start", s), Call("shader", Builtin), Call("source", 0)>>
    BY DEF Start, StartCalls
  <2> QED BY <1>1, <1>2, <2>1
<1> HIDE DEF a, b, c
<1>4. a \in Seq(Calls) /\ Ordered(a, s) /\ ~Stopping(a, s) /\ ~NoStart(a)
  BY <1>1, <1>2, StartJoins DEF a
<1>5. b \in Seq(Calls) /\ Ordered(b, s) /\ ~Stopping(b, s) /\ ~NoStart(b)
  BY <1>2, <1>4, OtherJoins DEF b
<1>6. c \in Seq(Calls) /\ Ordered(c, s) /\ ~Stopping(c, s) /\ ~NoStart(c)
  BY <1>2, <1>5, OtherJoins DEF c
<1>7. streaming' = TRUE /\ started' = s /\ current' = s /\ UNCHANGED <<timer, kinds>>
  BY DEF Start
<1>8. QueueType' /\ OwnsTheLast'
  BY <1>1, <1>3, <1>6, <1>7 DEF QueueInv, QueueType, OwnsTheLast
<1>9. Ordered(ipc', started') /\ ~Stopping(ipc', started') /\ ~NoStart(ipc')
  BY <1>3, <1>6, <1>7
<1> QED BY <1>7, <1>8, <1>9 DEF QueueInv, StopIsOwed, LastIsActive

LEMMA QueueStop ==
  ASSUME QueueInv, Stop, UNCHANGED <<timer, kinds>>
  PROVE  QueueInv'
<1> DEFINE c == Call("stop", started)
<1>1. /\ ipc \in Seq(Calls) /\ started \in Nat \ {0} /\ Ordered(ipc, started)
      /\ streaming /\ ~Stopping(ipc, started)
  BY DEF QueueInv, QueueType, StopIsOwed, Stop
<1>2. /\ ipc' = Append(ipc, c) /\ streaming' = FALSE /\ current' = 0
      /\ UNCHANGED <<started, active, timer, kinds>>
  BY DEF Stop, QueueInv, OwnsTheLast
<1>3. c \in Calls /\ c.op = "stop" /\ c.arg = started
  BY <1>1 DEF Call, Calls
<1> HIDE DEF c
<1>4. /\ ipc' \in Seq(Calls) /\ Ordered(ipc', started) /\ Stopping(ipc', started)
      /\ NoStart(ipc') => NoStart(ipc)
  BY <1>1, <1>2, <1>3, StopJoins
<1>5. QueueType' /\ OwnsTheLast' /\ StopIsOwed'
  BY <1>2, <1>4 DEF QueueInv, QueueType, OwnsTheLast, StopIsOwed
<1>6. LastIsActive'
  BY <1>1, <1>2, <1>4 DEF QueueInv, LastIsActive
<1> QED BY <1>2, <1>4, <1>5, <1>6 DEF QueueInv

(* A chain is sent. *)
LEMMA QueueChain ==
  ASSUME QueueInv, NEW c \in Calls, c.op = "chain", ipc' = Append(ipc, c),
         UNCHANGED <<started, streaming, current, active>>,
         timer' \in Nat, kinds' \in Seq(Kinds)
  PROVE  QueueInv'
<1>1. ipc \in Seq(Calls) /\ Ordered(ipc, started)
  BY DEF QueueInv, QueueType
<1>2. /\ ipc' \in Seq(Calls) /\ Ordered(ipc', started)
      /\ Starting(ipc', started) <=> Starting(ipc, started)
      /\ Stopping(ipc', started) <=> Stopping(ipc, started)
      /\ NoStart(ipc') <=> NoStart(ipc)
  BY <1>1, OtherJoins
<1> QED BY <1>2 DEF QueueInv, QueueType, OwnsTheLast, StopIsOwed, LastIsActive

(* load_shader, load_source and load_chain_sources. *)
LEMMA QueueOther ==
  ASSUME QueueInv, NEW i \in 1..Len(ipc), ipc' = RemoveAt(ipc, i),
         ipc[i].op \notin {"start", "stop"},
         UNCHANGED <<started, streaming, current, active, timer, kinds>>
  PROVE  QueueInv'
<1>1. ipc \in Seq(Calls) /\ Ordered(ipc, started)
  BY DEF QueueInv, QueueType
<1>2. Remains(ipc', ipc, i)
  BY <1>1, Positions
<1>3. ipc[i].op # "start" /\ ~Waits(ipc, i, "stop", started)
  BY DEF Waits
<1>4. ipc' \in Seq(Calls) /\ Ordered(ipc', started)
  <2>1. ipc' \in Seq(Calls)
    BY <1>2 DEF Remains
  <2> QED BY <2>1, <1>1, <1>2, <1>3, LeavesOrdered
<1>5. /\ Starting(ipc', started) => Starting(ipc, started)
      /\ Stopping(ipc', started) <=> Stopping(ipc, started)
      /\ NoStart(ipc') => NoStart(ipc)
  BY <1>1, <1>2, <1>3, LeavesBehind
<1> QED BY <1>4, <1>5 DEF QueueInv, QueueType, OwnsTheLast, StopIsOwed, LastIsActive

(* start_preview_stream: the calls before it are stops, overtaken by it. *)
LEMMA QueueStarted ==
  ASSUME QueueInv, NEW i \in 1..Len(ipc), StartStream(i), UNCHANGED <<timer, kinds>>
  PROVE  QueueInv'
<1>1. ipc \in Seq(Calls) /\ Ordered(ipc, started)
  BY DEF QueueInv, QueueType
<1>2. /\ ipc' = RemoveAt(ipc, i) /\ ipc[i].op = "start" /\ active' = ipc[i].arg
      /\ \A j \in 1..(i - 1) : ipc[j].op = "stop"
      /\ UNCHANGED <<started, streaming, current>>
  BY DEF StartStream, Executes, Arrives, webview
<1>3. Remains(ipc', ipc, i)
  BY <1>1, <1>2, Positions
<1>4. ~Waits(ipc, i, "stop", started)
  BY <1>2 DEF Waits
<1>5. ipc' \in Seq(Calls) /\ Ordered(ipc', started)
  <2>1. ipc' \in Seq(Calls)
    BY <1>3 DEF Remains
  <2> QED BY <2>1, <1>1, <1>2, <1>3, LeavesOrdered
<1>6. /\ Starting(ipc', started) => Starting(ipc, started)
      /\ Stopping(ipc', started) <=> Stopping(ipc, started)
      /\ NoStart(ipc') => Waits(ipc, i, "start", started)
  BY <1>1, <1>2, <1>3, <1>4, LeavesBehind
<1>7. QueueType' /\ OwnsTheLast' /\ StopIsOwed'
  BY <1>2, <1>5, <1>6 DEF QueueInv, QueueType, OwnsTheLast, StopIsOwed
<1>8. LastIsActive'
  <2> SUFFICES ASSUME NoStart(ipc') PROVE active' = started /\ (streaming \/ Stopping(ipc', started))
    BY <1>2 DEF LastIsActive
  <2>1. active' = started /\ Starting(ipc, started)
    BY <1>2, <1>6 DEF Waits, Starting
  <2> QED BY <2>1, <1>6 DEF QueueInv, StopIsOwed
<1> QED BY <1>2, <1>5, <1>7, <1>8 DEF QueueInv

(* stop_matching: the stop of an earlier stream finds another active. *)
LEMMA QueueStopped ==
  ASSUME QueueInv, NEW i \in 1..Len(ipc), StopStream(i), UNCHANGED <<timer, kinds>>
  PROVE  QueueInv'
<1>1. ipc \in Seq(Calls) /\ Ordered(ipc, started) /\ started \in Nat \ {0}
  BY DEF QueueInv, QueueType
<1>2. /\ ipc' = RemoveAt(ipc, i) /\ ipc[i].op = "stop"
      /\ active' = IF active = ipc[i].arg THEN 0 ELSE active
      /\ \A j \in 1..(i - 1) : ipc[j].op = "stop"
      /\ UNCHANGED <<started, streaming, current>>
  BY DEF StopStream, Executes, Arrives, webview
<1>3. Remains(ipc', ipc, i)
  BY <1>1, <1>2, Positions
<1>4. Waits(ipc, i, "stop", started) => Stopping(ipc, started) /\ ~Starting(ipc, started)
  BY <1>1, <1>2, StopsAlone DEF Stopping
<1>5. ipc' \in Seq(Calls) /\ Ordered(ipc', started)
  <2>1. ipc' \in Seq(Calls)
    BY <1>3 DEF Remains
  <2> QED BY <2>1, <1>1, <1>2, <1>3, LeavesOrdered
<1>6. /\ Starting(ipc', started) => Starting(ipc, started)
      /\ Stopping(ipc', started) <=> Stopping(ipc, started) /\ ~Waits(ipc, i, "stop", started)
      /\ NoStart(ipc') => NoStart(ipc)
  BY <1>1, <1>2, <1>3, LeavesBehind
<1>7. QueueType' /\ OwnsTheLast' /\ StopIsOwed'
  BY <1>2, <1>4, <1>5, <1>6 DEF QueueInv, QueueType, OwnsTheLast, StopIsOwed
<1>8. LastIsActive'
  <2> SUFFICES ASSUME NoStart(ipc')
               PROVE  /\ active' \in {0, started}
                      /\ active' = started <=> streaming \/ Stopping(ipc', started)
    BY <1>2 DEF LastIsActive
  <2>1. /\ active \in {0, started}
        /\ active = started <=> streaming \/ Stopping(ipc, started)
        /\ Stopping(ipc, started) => ~streaming
    BY <1>6 DEF QueueInv, LastIsActive, StopIsOwed
  <2>2. CASE ipc[i].arg = started
    <3>1. Waits(ipc, i, "stop", started)
      BY <2>2, <1>2 DEF Waits
    <3> QED BY <3>1, <2>1, <2>2, <1>1, <1>2, <1>4, <1>6
  <2>3. CASE ipc[i].arg # started
    <3>1. ipc[i].arg # 0 /\ ~Waits(ipc, i, "stop", started)
      BY <2>3, <1>1, <1>2, SMT DEF Ordered, StopsExist, Waits
    <3> QED BY <3>1, <2>1, <2>3, <1>2, <1>6
  <2> QED BY <2>2, <2>3
<1> QED BY <1>2, <1>5, <1>7, <1>8 DEF QueueInv

LEMMA QueueApply ==
  ASSUME QueueInv, NEW v \in Int, Apply(v), UNCHANGED kinds, timer' \in Nat
  PROVE  QueueInv'
<1>1. UNCHANGED <<started, streaming, current, active>> /\ kinds' \in Seq(Kinds)
  BY DEF Apply, webview, QueueInv, QueueType
<1>2. CASE kinds[v] = "broken"
  BY <1>1, <1>2, QueueRests DEF Apply
<1>3. CASE kinds[v] # "broken"
  <2> DEFINE c == [op |-> "chain", arg |-> v, compiles |-> kinds[v] \in Sound]
  <2>1. ipc' = Append(ipc, c) /\ c \in Calls /\ c.op = "chain"
    BY <1>3 DEF Apply, Calls
  <2> HIDE DEF c
  <2> QED BY <2>1, <1>1, QueueChain
<1> QED BY <1>2, <1>3

LEMMA QueueStep == QueueInv /\ [Next]_vars => QueueInv'
<1> SUFFICES ASSUME QueueInv, [Next]_vars PROVE QueueInv'
  OBVIOUS
<1>1. timer \in Nat /\ kinds \in Seq(Kinds)
  BY DEF QueueInv, QueueType
<1>2. ASSUME StreamStep, UNCHANGED loop PROVE QueueInv'
  <2>1. UNCHANGED <<timer, kinds>>
    BY <1>2 DEF loop
  <2>2. CASE Start
    BY <2>1, <2>2, QueueStart
  <2>3. CASE Stop
    BY <2>1, <2>3, QueueStop
  <2>4. CASE DeliverEvent
    BY <2>1, <2>4, <1>1, QueueRests DEF DeliverEvent, webview
  <2>5. CASE ExecuteCall
    <3> SUFFICES ASSUME NEW i \in 1..Len(ipc),
                        StartStream(i) \/ StopStream(i) \/ LoadBuiltin(i) \/ LoadChainSources(i)
                 PROVE  QueueInv'
      BY <2>5 DEF ExecuteCall
    <3>1. CASE StartStream(i)
      BY <2>1, <3>1, QueueStarted
    <3>2. CASE StopStream(i)
      BY <2>1, <3>2, QueueStopped
    <3>3. CASE LoadBuiltin(i)
      <4>1. /\ ipc' = RemoveAt(ipc, i) /\ ipc[i].op \notin {"start", "stop"}
            /\ UNCHANGED <<started, streaming, current, active>>
        BY <3>3 DEF LoadBuiltin, Executes, webview
      <4> QED BY <2>1, <4>1, QueueOther
    <3>4. CASE LoadChainSources(i)
      <4>1. /\ ipc' = RemoveAt(ipc, i) /\ ipc[i].op \notin {"start", "stop"}
            /\ UNCHANGED <<started, streaming, current, active>>
        BY <3>4 DEF LoadChainSources, Executes, webview
      <4> QED BY <2>1, <4>1, QueueOther
    <3> QED BY <3>1, <3>2, <3>3, <3>4
  <2>6. ASSUME NEW s \in Streams, DeliverFrame(s) \/ ThreadStep(s) \/ Forward(s) PROVE QueueInv'
    <3>1. UNCHANGED <<ipc, started, streaming, current, active>>
      BY <2>6 DEF DeliverFrame, ThreadStep, RendererUnavailable, RenderFrame, EndThread,
                  Forward, webview
    <3> QED BY <2>1, <3>1, <1>1, QueueRests
  <2> QED BY <1>2, <2>2, <2>3, <2>4, <2>5, <2>6 DEF StreamStep
<1>3. ASSUME NEW k \in Kinds, Edit(k) PROVE QueueInv'
  <2>1. UNCHANGED <<ipc, started, streaming, current, active>>
    BY <1>3 DEF Edit, streamVars, webview
  <2>2. kinds' \in Seq(Kinds) /\ timer' \in Nat
    <3>1. Len(kinds) \in Nat /\ kinds' = Append(kinds, k) /\ timer' = Len(kinds) + 1
      BY <1>1, <1>3, LenProperties DEF Edit, doc
    <3> QED BY <3>1, <1>1, AppendProperties
  <2> QED BY <2>1, <2>2, QueueRests
<1>4. CASE TimerFires
  <2>1. timer' = 0 /\ UNCHANGED kinds
    BY <1>4 DEF TimerFires
  <2>2. CASE kinds[timer] \in Graphs
    BY <1>1, <1>4, <2>1, <2>2, QueueRests DEF TimerFires, streamVars, webview
  <2>3. CASE kinds[timer] \notin Graphs
    BY <1>1, <1>4, <2>1, <2>3, QueueApply DEF TimerFires
  <2> QED BY <2>2, <2>3
<1>5. ASSUME NEW v \in Versions, Compiled(v) PROVE QueueInv'
  <2>1. v \in Int /\ UNCHANGED <<timer, kinds>>
    BY <1>5 DEF Versions, Compiled
  <2>2. CASE v = latest
    BY <1>1, <1>5, <2>1, <2>2, QueueApply DEF Compiled
  <2>3. CASE v # latest
    BY <1>1, <1>5, <2>1, <2>3, QueueRests DEF Compiled, streamVars, webview
  <2> QED BY <2>2, <2>3
<1>6. ASSUME NEW v \in Versions, Rejected(v) PROVE QueueInv'
  BY <1>1, <1>6, QueueRests DEF Rejected, streamVars, webview
<1>7. CASE UNCHANGED vars
  BY <1>1, <1>7, QueueRests DEF vars, streamVars, webview, loop
<1> QED BY <1>2, <1>3, <1>4, <1>5, <1>6, <1>7 DEF Next

(* "start/stop robust to out-of-order IPC" (preview.rs): whatever the user starts,  *)
(* stops and edits, and however late the stops arrive, once all calls have been     *)
(* executed the backend runs exactly the stream the webview shows, or none.         *)
THEOREM LateStopsAreHarmless == Spec => []BackendFollowsTheWebview
<1>1. QueueInv => BackendFollowsTheWebview
  <2> SUFFICES ASSUME QueueInv, ipc = << >> PROVE active = current
    BY DEF BackendFollowsTheWebview
  <2>1. \A i : i \notin 1..Len(ipc)
    BY SMT
  <2>2. NoStart(ipc) /\ ~Stopping(ipc, started)
    BY <2>1, Zenon DEF NoStart, Stopping
  <2> QED BY <2>2 DEF QueueInv, OwnsTheLast, LastIsActive
<1> QED BY <1>1, QueueInit, QueueStep, PTL DEF Spec

------------------------------------------------------------------------------
(* Only the latest wins: what is sent, and what a stream renders, only grows. *)

\* No stream is started twice, and the documents are sent as they were shown.
StartsOnce(q) == \A i, j \in 1..Len(q) :
                    q[i].op = "start" /\ q[j].op = "start" /\ q[i].arg = q[j].arg => i = j
ChainsGrow(q) == \A i, j \in 1..Len(q) :
                    q[i].op = "chain" /\ q[j].op = "chain" /\ i < j => q[i].arg <= q[j].arg

\* The built-in shader comes after the start of its stream, and before any document.
ShaderFollowsStart(q) == \A i, j \in 1..Len(q) :
   q[i].op = "chain" /\ q[j].op = "shader" /\ i < j
     => \E k \in 1..Len(q) : i < k /\ k < j /\ q[k].op = "start"
Awaits(q, j) == /\ j \in 1..Len(q) /\ q[j].op = "shader"
                /\ \A i \in 1..Len(q) : i < j => q[i].op # "start"
ShaderComesFirst(q) == \A i, j \in 1..Len(q) : Awaits(q, j) /\ i < j => q[i].op # "chain"

InOrder(q) == StartsOnce(q) /\ ChainsGrow(q) /\ ShaderFollowsStart(q) /\ ShaderComesFirst(q)

\* A stream that is still to be started is not active and has no chain.
StartsAfresh == \A i \in 1..Len(ipc) :
   ipc[i].op = "start" => ipc[i].arg # active /\ chain[ipc[i].arg] = NoChain

\* What is under way is not older than what is rendered, nor newer than what is shown.
ChainsFollow == \A i \in 1..Len(ipc) : ipc[i].op = "chain" =>
   ipc[i].arg \in 1..shown /\ \A s \in Streams : chain[s] <= ipc[i].arg

\* The built-in shader replaces no document.
ShaderFindsNone == (\E j : Awaits(ipc, j)) /\ active # 0 => chain[active] <= Builtin

StreamTypes ==
  /\ started \in Streams /\ active \in 0..started
  /\ chain \in [Streams -> Int] /\ thread \in [Streams -> {"none", "up", "ended"}]
  /\ \A s \in Streams : chain[s] \in NoChain..shown /\ (s > started => chain[s] = NoChain)

VersionsInOrder == timer \in {0, doc} /\ latest \in 0..doc /\ shown \in 0..latest

LatestInv == /\ StreamTypes /\ VersionsInOrder /\ InOrder(ipc)
             /\ StartsAfresh /\ ChainsFollow /\ ShaderFindsNone

\* Where an element is after, and where it was before, the i-th left.
Up(i, j)   == IF j < i THEN j ELSE j + 1
Down(i, k) == IF k < i THEN k ELSE k - 1

\* The i-th leaves; the others keep their order.
LEMMA Shifts ==
  ASSUME NEW q \in Seq(Calls), NEW i \in 1..Len(q), NEW r, r = RemoveAt(q, i)
  PROVE  /\ Len(r) \in Nat /\ r \in Seq(Calls)
         /\ \A j \in 1..Len(r) : Up(i, j) \in 1..Len(q) /\ Up(i, j) # i /\ r[j] = q[Up(i, j)]
         /\ \A k \in 1..Len(q) : k # i => /\ Down(i, k) \in 1..Len(r) /\ r[Down(i, k)] = q[k]
                                          /\ Up(i, Down(i, k)) = k
         /\ \A j, m \in 1..Len(r) : j < m <=> Up(i, j) < Up(i, m)
         /\ \A j, m \in 1..Len(r) : j # m => Up(i, j) # Up(i, m)
<1>1. /\ r \in Seq(Calls) /\ Len(r) = Len(q) - 1 /\ Len(q) \in Nat
      /\ \A j \in 1..(i - 1) : r[j] = q[j]
      /\ \A j \in i..(Len(q) - 1) : r[j] = q[j + 1]
  BY Removed, LenProperties
<1>2. ASSUME NEW j \in 1..Len(r)
      PROVE  Up(i, j) \in 1..Len(q) /\ Up(i, j) # i /\ r[j] = q[Up(i, j)]
  <2>1. CASE j < i
    <3>1. Up(i, j) = j /\ j \in 1..(i - 1) /\ j \in 1..Len(q)  BY <1>1, <2>1 DEF Up
    <3>2. r[j] = q[j]  BY <1>1, <3>1
    <3> QED  BY <2>1, <3>1, <3>2
  <2>2. CASE ~ (j < i)
    <3>1. Up(i, j) = j + 1 /\ j \in i..(Len(q) - 1) /\ j + 1 \in 1..Len(q) /\ j + 1 # i
      BY <1>1, <2>2 DEF Up
    <3>2. r[j] = q[j + 1]  BY <1>1, <3>1
    <3> QED  BY <3>1, <3>2
  <2> QED  BY <2>1, <2>2
<1>3. \A k \in 1..Len(q) : k # i => /\ Down(i, k) \in 1..Len(r) /\ r[Down(i, k)] = q[k]
                                    /\ Up(i, Down(i, k)) = k
  BY <1>1, SMT DEF Up, Down
<1>4. /\ \A j, m \in 1..Len(r) : j < m <=> Up(i, j) < Up(i, m)
      /\ \A j, m \in 1..Len(r) : j # m => Up(i, j) # Up(i, m)
  BY <1>1, SMT DEF Up
<1> QED BY <1>1, <1>2, <1>3, <1>4

\* What remains of q, in order, when call c left with only stops before it: a document
\* is no newer than those that remain, a start the only one of its stream.
RemainInOrder(r, q, c) ==
  /\ r \in Seq(Calls) /\ InOrder(r)
  /\ \A j \in 1..Len(r) : \E k \in 1..Len(q) : r[j] = q[k]
  /\ c.op # "start" => \A j : Awaits(r, j) => \E k : Awaits(q, k)
  /\ c.op = "start" => \A j \in 1..Len(r) : r[j].op = "start" => r[j].arg # c.arg
  /\ c.op = "chain" => \A j : ~ Awaits(r, j)
  /\ c.op = "chain" => \A j \in 1..Len(r) : r[j].op = "chain" => c.arg <= r[j].arg
  /\ c.op = "shader" => \E k : Awaits(q, k)

LEMMA LeavesInOrder ==
  ASSUME NEW q \in Seq(Calls), NEW i \in 1..Len(q), InOrder(q),
         \A j \in 1..(i - 1) : q[j].op = "stop"
  PROVE  RemainInOrder(RemoveAt(q, i), q, q[i])
<1> DEFINE r == RemoveAt(q, i)
           up(j) == Up(i, j)
           down(k) == Down(i, k)
<1>0. Len(r) \in Nat /\ Len(q) \in Nat /\ r \in Seq(Calls)
  BY Shifts, LenProperties
<1>1. \A j \in 1..Len(r) : up(j) \in 1..Len(q) /\ up(j) # i /\ r[j] = q[up(j)]
  BY Shifts
<1>2. \A k \in 1..Len(q) : k # i => down(k) \in 1..Len(r) /\ r[down(k)] = q[k] /\ up(down(k)) = k
  BY Shifts
<1>3. /\ \A j, m \in 1..Len(r) : j < m <=> up(j) < up(m)
      /\ \A j, m \in 1..Len(r) : j # m => up(j) # up(m)
  BY Shifts
<1>4. \A k \in 1..Len(q) : k # i /\ q[k].op # "stop" => i < k
  BY <1>0, SMT
<1> HIDE DEF up, down
<1>5. StartsOnce(r)
  BY <1>1, <1>3, SMT DEF InOrder, StartsOnce
<1>6. ChainsGrow(r)
  <2> SUFFICES ASSUME NEW j \in 1..Len(r), NEW m \in 1..Len(r),
                      r[j].op = "chain", r[m].op = "chain", j < m
               PROVE  r[j].arg <= r[m].arg
    BY DEF ChainsGrow
  <2>1. /\ up(j) \in 1..Len(q) /\ up(m) \in 1..Len(q) /\ up(j) < up(m)
        /\ r[j] = q[up(j)] /\ r[m] = q[up(m)]
    BY <1>1, <1>3
  <2> QED  BY <2>1 DEF InOrder, ChainsGrow
<1>7. ShaderFollowsStart(r)
  <2> SUFFICES ASSUME NEW j \in 1..Len(r), NEW m \in 1..Len(r),
                      r[j].op = "chain", r[m].op = "shader", j < m
               PROVE  \E k \in 1..Len(r) : j < k /\ k < m /\ r[k].op = "start"
    BY DEF ShaderFollowsStart
  <2>0. /\ up(j) \in 1..Len(q) /\ up(m) \in 1..Len(q) /\ up(j) < up(m)
        /\ q[up(j)].op = "chain" /\ q[up(m)].op = "shader"
    BY <1>1, <1>3
  <2>1. PICK k \in 1..Len(q) : up(j) < k /\ k < up(m) /\ q[k].op = "start"
    BY <2>0 DEF InOrder, ShaderFollowsStart
  <2>2. up(j) \in 1..Len(q) /\ i < up(j) /\ k # i
    <3>1. up(j) # i /\ q[up(j)].op # "stop"  BY <1>1, <2>0
    <3>2. i < up(j)  BY <1>4, <2>0, <3>1
    <3> HIDE DEF r
    <3>3. i \in Int /\ up(j) \in Int /\ k \in Int /\ up(j) < k  BY <1>0, <2>0, <2>1
    <3> QED  BY <2>0, <3>2, <3>3
  <2>3. down(k) \in 1..Len(r) /\ r[down(k)] = q[k] /\ up(down(k)) = k
    BY <1>2, <2>2
  <2>4. j < down(k) /\ down(k) < m
    BY <1>3, <2>1, <2>3, SMT
  <2> QED BY <2>1, <2>3, <2>4
<1>8. ASSUME NEW j, Awaits(r, j), q[i].op # "start" PROVE Awaits(q, up(j))
  <2>1. j \in 1..Len(r) /\ r[j].op = "shader" /\ \A m \in 1..Len(r) : m < j => r[m].op # "start"
    BY <1>8 DEF Awaits
  <2>2. up(j) \in 1..Len(q) /\ q[up(j)].op = "shader"
    BY <2>1, <1>1
  <2>3. ASSUME NEW k \in 1..Len(q), k < up(j), q[k].op = "start" PROVE FALSE
    <3>1. down(k) \in 1..Len(r) /\ r[down(k)] = q[k] /\ up(down(k)) = k
      BY <1>2, <1>8, <2>3
    <3>2. down(k) < j
      BY <1>3, <2>1, <2>3, <3>1, SMT
    <3> QED BY <2>1, <2>3, <3>1, <3>2
  <2> QED BY <2>2, <2>3 DEF Awaits
<1>9. ShaderComesFirst(r)
  <2> SUFFICES ASSUME NEW m \in 1..Len(r), NEW j \in 1..Len(r), Awaits(r, j), m < j,
                      r[m].op = "chain"
               PROVE  FALSE
    BY DEF ShaderComesFirst
  <2>1. up(m) \in 1..Len(q) /\ up(j) \in 1..Len(q) /\ up(m) < up(j) /\ q[up(m)].op = "chain"
        /\ q[up(j)].op = "shader" /\ up(m) # i
    BY <1>1, <1>3 DEF Awaits
  <2>2. CASE q[i].op # "start"
    BY <1>8, <2>1, <2>2 DEF InOrder, ShaderComesFirst
  <2>3. CASE q[i].op = "start"
    <3>1. PICK k \in 1..Len(q) : up(m) < k /\ k < up(j) /\ q[k].op = "start"
      BY <2>1 DEF InOrder, ShaderFollowsStart
    <3>2. k # i
      BY <1>0, <1>4, <2>1, <3>1, SMT
    <3>3. down(k) \in 1..Len(r) /\ r[down(k)] = q[k] /\ up(down(k)) = k
      BY <1>2, <3>2
    <3>4. down(k) < j
      BY <1>3, <3>1, <3>3
    <3> QED BY <3>1, <3>3, <3>4 DEF Awaits
  <2> QED BY <2>2, <2>3
<1>10. \A j \in 1..Len(r) : \E k \in 1..Len(q) : r[j] = q[k]
  BY <1>1
<1>11. q[i].op = "start" => \A j \in 1..Len(r) : r[j].op = "start" => r[j].arg # q[i].arg
  BY <1>1 DEF InOrder, StartsOnce
<1>12. ASSUME q[i].op = "chain", NEW j PROVE ~ Awaits(r, j)
  <2> SUFFICES ASSUME Awaits(r, j) PROVE FALSE
    OBVIOUS
  <2>1. Awaits(q, up(j)) /\ up(j) # i /\ up(j) \in 1..Len(q)
    BY <1>1, <1>8, <1>12 DEF Awaits
  <2>2. i < up(j)
    BY <1>4, <2>1 DEF Awaits
  <2> QED BY <1>12, <2>1, <2>2 DEF InOrder, ShaderComesFirst
<1>13. ASSUME q[i].op = "chain", NEW j \in 1..Len(r), r[j].op = "chain"
       PROVE  q[i].arg <= r[j].arg
  <2>1. up(j) \in 1..Len(q) /\ r[j] = q[up(j)] /\ i < up(j)
    BY <1>1, <1>4, <1>13
  <2> QED BY <1>13, <2>1 DEF InOrder, ChainsGrow
<1>14. q[i].op = "shader" => Awaits(q, i)
  BY <1>0, SMT DEF Awaits
<1>15. InOrder(r)
  BY <1>5, <1>6, <1>7, <1>9 DEF InOrder
<1> HIDE DEF r
<1>16. RemainInOrder(r, q, q[i])
  BY <1>0, <1>8, <1>10, <1>11, <1>12, <1>13, <1>14, <1>15 DEF RemainInOrder
<1> QED BY <1>16 DEF r

\* A stop joins q, or a document no older than those under way.
AddedInOrder(r, q, c) ==
  /\ InOrder(r) /\ \A j : Awaits(r, j) => Awaits(q, j)
  /\ \A j \in 1..Len(r) : r[j] = c \/ \E k \in 1..Len(q) : r[j] = q[k]

LEMMA JoinsInOrder ==
  ASSUME NEW q \in Seq(Calls), NEW c \in Calls, InOrder(q), c.op \in {"stop", "chain"},
         c.op = "chain" => \A i \in 1..Len(q) : q[i].op = "chain" => q[i].arg <= c.arg
  PROVE  AddedInOrder(Append(q, c), q, c)
<1> DEFINE r == Append(q, c)
           n == Len(q) + 1
<1>1. /\ Len(q) \in Nat /\ n \in Nat /\ Len(r) = n /\ r[n] = c
      /\ \A j \in 1..Len(q) : j \in 1..n /\ j < n /\ r[j] = q[j]
      /\ \A j \in 1..n : j \in 1..Len(q) \/ j = n
  BY AppendProperties, LenProperties, SMT
<1> HIDE DEF n
<1>2. StartsOnce(r)
  <2> SUFFICES ASSUME NEW i \in 1..n, NEW j \in 1..n, r[i].op = "start", r[j].op = "start",
                      r[i].arg = r[j].arg
               PROVE  i = j
    BY <1>1 DEF StartsOnce
  <2>1. i \in 1..Len(q) /\ j \in 1..Len(q)
    BY <1>1
  <2> QED BY <1>1, <2>1 DEF InOrder, StartsOnce
<1>3. ChainsGrow(r)
  BY <1>1, SMT DEF InOrder, ChainsGrow
<1>4. ASSUME NEW j, Awaits(r, j) PROVE Awaits(q, j)
  BY <1>1, <1>4, SMT DEF Awaits
<1>5. ShaderFollowsStart(r)
  <2> SUFFICES ASSUME NEW i \in 1..n, NEW j \in 1..n, r[i].op = "chain", r[j].op = "shader", i < j
               PROVE  \E k \in 1..n : i < k /\ k < j /\ r[k].op = "start"
    BY <1>1 DEF ShaderFollowsStart
  <2>1. j # n
    BY <1>1
  <2>2. j \in 1..Len(q) /\ i \in 1..Len(q)
    BY <1>1, <2>1, SMT
  <2>3. PICK k \in 1..Len(q) : i < k /\ k < j /\ q[k].op = "start"
    BY <1>1, <2>2 DEF InOrder, ShaderFollowsStart
  <2> QED BY <1>1, <2>3
<1>6. ShaderComesFirst(r)
  <2> SUFFICES ASSUME NEW i \in 1..n, NEW j \in 1..n, Awaits(r, j), i < j PROVE r[i].op # "chain"
    BY <1>1 DEF ShaderComesFirst
  <2>1. Awaits(q, j) /\ j \in 1..Len(q)
    BY <1>4 DEF Awaits
  <2>2. i \in 1..Len(q)
    BY <1>1, <2>1, SMT
  <2> QED BY <1>1, <2>1, <2>2 DEF InOrder, ShaderComesFirst
<1>7. \A j \in 1..Len(r) : r[j] = c \/ \E k \in 1..Len(q) : r[j] = q[k]
  BY <1>1
<1> HIDE DEF r
<1>8. AddedInOrder(r, q, c)
  BY <1>2, <1>3, <1>4, <1>5, <1>6, <1>7 DEF InOrder, AddedInOrder
<1> QED BY <1>8 DEF r

\* The calls of a new stream s join q.
StreamAdded(r, q, s) ==
  /\ InOrder(r) /\ \A j : Awaits(r, j) => Awaits(q, j)
  /\ \A j \in 1..Len(r) : \/ \E k \in 1..Len(q) : r[j] = q[k]
                          \/ r[j] = Call("start", s) \/ r[j].op \notin {"start", "chain"}

LEMMA StreamJoins ==
  ASSUME NEW q \in Seq(Calls), InOrder(q), NEW s \in Int,
         \A i \in 1..Len(q) : q[i].op = "start" => q[i].arg # s
  PROVE  StreamAdded(q \o StartCalls(s), q, s)
<1> DEFINE r == q \o StartCalls(s)
           n == Len(q)
           a == n + 1
           b == n + 2
           d == n + 3
<1>1. /\ n \in Nat /\ Len(r) = d
      /\ \A j \in 1..n : r[j] = q[j]
      /\ r[a] = Call("start", s) /\ r[b] = Call("shader", Builtin) /\ r[d] = Call("source", 0)
  <2>1. /\ StartCalls(s) = <<Call("start", s), Call("shader", Builtin), Call("source", 0)>>
        /\ Len(StartCalls(s)) = 3
    BY DEF StartCalls
  <2>2. StartCalls(s) \in Seq(Calls)
    BY DEF StartCalls, Call, Calls, Builtin
  <2>3. /\ n \in Nat /\ Len(r) = n + 3
        /\ \A j \in 1..(n + 3) : r[j] = IF j <= n THEN q[j] ELSE StartCalls(s)[j - n]
    BY <2>1, <2>2, ConcatProperties, LenProperties
  <2> QED BY <2>1, <2>3, SMT
<1>2. /\ r[a].op = "start" /\ r[a].arg = s /\ r[b].op = "shader" /\ r[d].op = "source"
  BY <1>1 DEF Call
<1>3. /\ \A j \in 1..d : j \in 1..n \/ j = a \/ j = b \/ j = d
      /\ \A j \in 1..n : j \in 1..d /\ j < a /\ j < b /\ j < d
      /\ a < b /\ b < d /\ a < d /\ a \in 1..d /\ a \notin 1..n
  <2> HIDE DEF n
  <2>1. n \in Nat
    BY <1>1
  <2>2. \A j \in 1..d : j \in 1..n \/ j = a \/ j = b \/ j = d
    BY <2>1
  <2>3. \A j \in 1..n : j \in 1..d /\ j < a /\ j < b /\ j < d
    BY <2>1
  <2>4. a < b /\ b < d /\ a < d /\ a \in 1..d /\ a \notin 1..n
    BY <2>1
  <2> QED BY <2>2, <2>3, <2>4
<1>4. \A i, j \in 1..d : i < j /\ j \in 1..n => i \in 1..n
  BY <1>1, SMT
<1>5. \A i \in 1..d : i < b => i \in 1..n \/ i = a
  BY <1>1, SMT
<1>6. \A i \in 1..d : i < a => i \in 1..n
  BY <1>1, SMT
<1> HIDE DEF a, b, d
<1>7. StartsOnce(r)
  <2> SUFFICES ASSUME NEW i \in 1..d, NEW j \in 1..d, r[i].op = "start", r[j].op = "start",
                      r[i].arg = r[j].arg
               PROVE  i = j
    BY <1>1 DEF StartsOnce
  <2>1. (i \in 1..n \/ i = a) /\ (j \in 1..n \/ j = a)
    BY <1>2, <1>3
  <2>2. ASSUME i \in 1..n, j \in 1..n PROVE i = j
    BY <2>2, <1>1 DEF InOrder, StartsOnce
  <2>3. ~ (i = a /\ j \in 1..n) /\ ~ (i \in 1..n /\ j = a)
    BY <1>1, <1>2
  <2> QED BY <2>1, <2>2, <2>3
<1>8. ChainsGrow(r)
  <2> SUFFICES ASSUME NEW i \in 1..d, NEW j \in 1..d, r[i].op = "chain", r[j].op = "chain", i < j
               PROVE  r[i].arg <= r[j].arg
    BY <1>1 DEF ChainsGrow
  <2>1. i \in 1..n /\ j \in 1..n
    BY <1>2, <1>3
  <2> QED BY <2>1, <1>1 DEF InOrder, ChainsGrow
<1>9. ASSUME NEW j, Awaits(r, j) PROVE Awaits(q, j)
  <2>1. j \in 1..d /\ r[j].op = "shader" /\ \A i \in 1..d : i < j => r[i].op # "start"
    BY <1>1, <1>9 DEF Awaits
  <2>2. j \in 1..n
    BY <2>1, <1>2, <1>3
  <2> QED BY <2>1, <2>2, <1>1, <1>3 DEF Awaits
<1>10. ShaderFollowsStart(r)
  <2>1. ASSUME NEW i \in 1..d, NEW j \in 1..d, r[i].op = "chain", r[j].op = "shader", i < j
        PROVE  \E k \in 1..d : i < k /\ k < j /\ r[k].op = "start"
    <3>1. i \in 1..n /\ (j \in 1..n \/ j = b)
      BY <2>1, <1>2, <1>3
    <3>2. CASE j \in 1..n
      <4>1. PICK k \in 1..n : i < k /\ k < j /\ q[k].op = "start"
        BY <1>1, <2>1, <3>1, <3>2 DEF InOrder, ShaderFollowsStart
      <4> QED BY <4>1, <1>1, <1>3
    <3>3. CASE j = b
      BY <1>2, <1>3, <3>1, <3>3
    <3> QED BY <3>1, <3>2, <3>3
  <2>2. Len(r) = d
    BY <1>1
  <2> QED BY <2>1, <2>2 DEF ShaderFollowsStart
<1>11. ShaderComesFirst(r)
  <2> SUFFICES ASSUME NEW i \in 1..d, NEW j \in 1..d, Awaits(r, j), i < j PROVE r[i].op # "chain"
    BY <1>1 DEF ShaderComesFirst
  <2>1. Awaits(q, j) /\ j \in 1..n
    BY <1>9 DEF Awaits
  <2>2. i \in 1..n
    BY <1>4, <2>1
  <2> QED BY <1>1, <2>1, <2>2 DEF InOrder, ShaderComesFirst
<1>12. ASSUME NEW j \in 1..d
       PROVE  \/ \E k \in 1..n : r[j] = q[k]
              \/ r[j] = Call("start", s) \/ r[j].op \notin {"start", "chain"}
  BY <1>1, <1>2, <1>3
<1> HIDE DEF r
<1>13. StreamAdded(r, q, s)
  BY <1>1, <1>7, <1>8, <1>9, <1>10, <1>11, <1>12 DEF InOrder, StreamAdded
<1> QED BY <1>13 DEF r

\* Starts under way are of streams there can be.
LEMMA StartsAreStreams ==
  ASSUME QueueInv, StreamTypes
  PROVE  /\ ipc \in Seq(Calls) /\ Len(ipc) \in Nat /\ kinds \in Seq(Kinds) /\ doc \in Nat
         /\ \A i \in 1..Len(ipc) : ipc[i] \in Calls
         /\ \A i \in 1..Len(ipc) : ipc[i].op = "start" => ipc[i].arg \in 1..started /\ ipc[i].arg \in Streams
         /\ 0 \notin Streams /\ (active # 0 => active \in Streams)
         /\ started \in Nat /\ active \in Int /\ NoChain = -1 /\ Builtin = 0
<1>1. ipc \in Seq(Calls) /\ kinds \in Seq(Kinds) /\ StartsExist(ipc, started)
  BY DEF QueueInv, QueueType, Ordered
<1>2. Len(ipc) \in Nat /\ Len(kinds) \in Nat /\ \A i \in 1..Len(ipc) : ipc[i] \in Calls
  BY <1>1, LenProperties, ElementOfSeq
<1>3. started \in 1..MaxStarts /\ active \in 0..started /\ MaxStarts \in Nat
  BY StreamBounds DEF StreamTypes, Streams
<1>4. /\ \A x \in 1..started : x \in Streams
      /\ 0 \notin Streams /\ (active # 0 => active \in Streams) /\ started \in Nat /\ active \in Int
  BY <1>3 DEF Streams
<1> QED BY <1>1, <1>2, <1>4 DEF StartsExist, doc, NoChain, Builtin

\* Nothing is under way that was not, no chain is newer, and no version older.
LEMMA LatestRests ==
  ASSUME QueueInv, LatestInv, StreamTypes', VersionsInOrder', UNCHANGED <<ipc, active>>,
         shown' >= shown, \A s \in Streams : chain'[s] \in {chain[s], NoChain}
  PROVE  LatestInv'
<1>1. shown \in Nat /\ shown' \in Nat
  <2>1. doc \in Nat
    BY StartsAreStreams DEF LatestInv
  <2>2. shown \in Nat
    BY <2>1 DEF LatestInv, VersionsInOrder
  <2>3. shown' \in Int
    BY DEF VersionsInOrder
  <2> QED BY <2>2, <2>3
<1>2. InOrder(ipc') /\ \A j : Awaits(ipc', j) <=> Awaits(ipc, j)
  BY DEF LatestInv
<1>3. StartsAfresh'
  BY StartsAreStreams DEF LatestInv, StartsAfresh
<1>4. ChainsFollow'
  <2> SUFFICES ASSUME NEW i \in 1..Len(ipc), ipc[i].op = "chain"
               PROVE  ipc[i].arg \in 1..shown' /\ \A s \in Streams : chain'[s] <= ipc[i].arg
    BY DEF ChainsFollow
  <2>1. ipc[i].arg \in 1..shown /\ \A s \in Streams : chain[s] <= ipc[i].arg
    BY DEF LatestInv, ChainsFollow
  <2>2. NoChain <= ipc[i].arg
    BY <2>1, <1>1 DEF NoChain
  <2>3. ipc[i].arg \in 1..shown'
    BY <2>1, <1>1
  <2> QED BY <2>1, <2>2, <2>3
<1>5. ShaderFindsNone'
  <2> SUFFICES ASSUME \E j : Awaits(ipc, j), active # 0 PROVE chain'[active] <= Builtin
    BY <1>2 DEF ShaderFindsNone
  <2>1. chain[active] <= Builtin /\ chain'[active] \in {chain[active], NoChain}
    BY StartsAreStreams DEF LatestInv, ShaderFindsNone
  <2> QED BY <2>1 DEF NoChain, Builtin
<1> QED BY <1>2, <1>3, <1>4, <1>5 DEF LatestInv

\* A stop joins, or the document that is shown then.
LEMMA LatestSends ==
  ASSUME QueueInv, LatestInv, NEW c \in Calls, c.op \in {"stop", "chain"}, ipc' = Append(ipc, c),
         UNCHANGED <<started, active, chain, thread>>, VersionsInOrder', shown' >= shown,
         c.op = "chain" => c.arg = shown' /\ shown' >= 1
  PROVE  LatestInv'
<1>1. /\ ipc \in Seq(Calls) /\ shown \in Nat /\ shown' \in Nat
  <2>1. doc \in Nat /\ ipc \in Seq(Calls)
    BY StartsAreStreams DEF LatestInv
  <2>2. shown \in Nat
    BY <2>1 DEF LatestInv, VersionsInOrder
  <2>3. shown' \in Int
    BY DEF VersionsInOrder
  <2> QED BY <2>1, <2>2, <2>3
<1>2. \A i \in 1..Len(ipc) : ipc[i].op = "chain" => ipc[i].arg \in 1..shown
  BY DEF LatestInv, ChainsFollow
<1>3. \A s \in Streams : chain[s] \in NoChain..shown
  BY DEF LatestInv, StreamTypes
<1>4. c.op = "chain" => \A i \in 1..Len(ipc) : ipc[i].op = "chain" => ipc[i].arg <= c.arg
  BY <1>1, <1>2
<1>5. /\ InOrder(ipc') /\ \A j : Awaits(ipc', j) => Awaits(ipc, j)
      /\ \A j \in 1..Len(ipc') : ipc'[j] = c \/ \E k \in 1..Len(ipc) : ipc'[j] = ipc[k]
  <2>1. InOrder(ipc)
    BY DEF LatestInv
  <2>2. AddedInOrder(ipc', ipc, c)
    BY <1>1, <1>4, <2>1, JoinsInOrder
  <2> QED BY <2>2 DEF AddedInOrder
<1>6. StreamTypes'
  <2>1. \A s \in Streams : chain[s] \in NoChain..shown'
    BY <1>1, <1>3 DEF NoChain
  <2> QED BY <2>1 DEF LatestInv, StreamTypes
<1>7. StartsAfresh'
  <2> SUFFICES ASSUME NEW j \in 1..Len(ipc'), ipc'[j].op = "start"
               PROVE  ipc'[j].arg # active /\ chain[ipc'[j].arg] = NoChain
    BY DEF StartsAfresh
  <2>1. PICK k \in 1..Len(ipc) : ipc'[j] = ipc[k]
    BY <1>5
  <2> QED BY <2>1 DEF LatestInv, StartsAfresh
<1>8. ChainsFollow'
  <2> SUFFICES ASSUME NEW j \in 1..Len(ipc'), ipc'[j].op = "chain"
               PROVE  ipc'[j].arg \in 1..shown' /\ \A s \in Streams : chain[s] <= ipc'[j].arg
    BY DEF ChainsFollow
  <2>1. CASE ipc'[j] = c
    <3>1. c.arg = shown' /\ shown' >= 1
      BY <2>1
    <3>2. \A s \in Streams : chain[s] <= shown'
      BY <1>1, <1>3 DEF NoChain
    <3> QED BY <1>1, <2>1, <3>1, <3>2
  <2>2. CASE \E k \in 1..Len(ipc) : ipc'[j] = ipc[k]
    <3>1. PICK k \in 1..Len(ipc) : ipc'[j] = ipc[k]
      BY <2>2
    <3>2. ipc[k].arg \in 1..shown /\ \A s \in Streams : chain[s] <= ipc[k].arg
      BY <3>1 DEF LatestInv, ChainsFollow
    <3>3. ipc[k].arg \in 1..shown'
      BY <3>2, <1>1
    <3> QED BY <3>1, <3>2, <3>3
  <2> QED BY <1>5, <2>1, <2>2
<1>9. ShaderFindsNone'
  BY <1>5 DEF LatestInv, ShaderFindsNone
<1> QED BY <1>5, <1>6, <1>7, <1>8, <1>9 DEF LatestInv

\* The webview starts a stream: its id is new, its shader comes after its start.
LEMMA LatestStart ==
  ASSUME QueueInv, LatestInv, Start, UNCHANGED loop
  PROVE  LatestInv'
<1> DEFINE s == started + 1
<1>1. /\ ipc \in Seq(Calls) /\ s \in Streams /\ s \in Int /\ s # active /\ chain[s] = NoChain
      /\ \A i \in 1..Len(ipc) : ipc[i].op = "start" => ipc[i].arg # s
  <2>1. started \in Streams /\ started < MaxStarts /\ active \in 0..started
    BY DEF LatestInv, StreamTypes, Start
  <2>2. s \in Streams /\ s \in Int /\ s # active /\ s > started /\ s \notin 1..started
    BY <2>1, StreamBounds DEF Streams
  <2>3. chain[s] = NoChain
    BY <2>2 DEF LatestInv, StreamTypes
  <2>4. /\ ipc \in Seq(Calls)
        /\ \A i \in 1..Len(ipc) : ipc[i].op = "start" => ipc[i].arg \in 1..started
    BY StartsAreStreams DEF LatestInv
  <2> QED BY <2>2, <2>3, <2>4
<1>2. /\ ipc' = ipc \o StartCalls(s) /\ started' = s
      /\ UNCHANGED <<active, chain, thread, timer, kinds, latest, shown>>
  BY DEF Start, renderer, loop
<1>3. started \in Int /\ active \in 0..started
  BY StreamBounds DEF LatestInv, StreamTypes, Streams
<1>4. StreamTypes'
  <2>1. active' \in 0..started'
    BY <1>2, <1>3
  <2>2. \A r \in Streams : r > s => r > started
    BY <1>3, StreamBounds DEF Streams
  <2> QED BY <1>1, <1>2, <2>1, <2>2 DEF LatestInv, StreamTypes
<1> HIDE DEF s
<1>5. /\ InOrder(ipc') /\ \A j : Awaits(ipc', j) => Awaits(ipc, j)
      /\ \A j \in 1..Len(ipc') : \/ \E k \in 1..Len(ipc) : ipc'[j] = ipc[k]
                                 \/ ipc'[j] = Call("start", s)
                                 \/ ipc'[j].op \notin {"start", "chain"}
  <2>1. InOrder(ipc)
    BY DEF LatestInv
  <2>2. StreamAdded(ipc', ipc, s)
    BY <1>1, <1>2, <2>1, StreamJoins
  <2> QED BY <2>2 DEF StreamAdded
<1>6. Call("start", s).op = "start" /\ Call("start", s).arg = s
  BY DEF Call
<1>7. StartsAfresh'
  <2> SUFFICES ASSUME NEW j \in 1..Len(ipc'), ipc'[j].op = "start"
               PROVE  ipc'[j].arg # active /\ chain[ipc'[j].arg] = NoChain
    BY <1>2 DEF StartsAfresh
  <2>1. CASE \E k \in 1..Len(ipc) : ipc'[j] = ipc[k]
    BY <2>1 DEF LatestInv, StartsAfresh
  <2>2. CASE ipc'[j] = Call("start", s)
    BY <2>2, <1>1, <1>6
  <2> QED BY <1>5, <2>1, <2>2
<1>8. ChainsFollow'
  <2> SUFFICES ASSUME NEW j \in 1..Len(ipc'), ipc'[j].op = "chain"
               PROVE  ipc'[j].arg \in 1..shown /\ \A r \in Streams : chain[r] <= ipc'[j].arg
    BY <1>2 DEF ChainsFollow
  <2>1. PICK k \in 1..Len(ipc) : ipc'[j] = ipc[k]
    BY <1>5, <1>6
  <2> QED BY <2>1 DEF LatestInv, ChainsFollow
<1>9. ShaderFindsNone' /\ VersionsInOrder'
  BY <1>2, <1>5 DEF LatestInv, ShaderFindsNone, VersionsInOrder, doc
<1> QED BY <1>4, <1>5, <1>7, <1>8, <1>9 DEF LatestInv

\* start_preview_stream: the stream it starts has no chain yet.
LEMMA LatestStarted ==
  ASSUME QueueInv, LatestInv, NEW i \in 1..Len(ipc), StartStream(i), UNCHANGED loop
  PROVE  LatestInv'
<1> DEFINE s == ipc[i].arg
<1>1. /\ ipc' = RemoveAt(ipc, i) /\ ipc[i].op = "start" /\ active' = s
      /\ \A j \in 1..(i - 1) : ipc[j].op = "stop"
      /\ thread' = [thread EXCEPT ![s] = "up"]
      /\ UNCHANGED <<started, chain, timer, kinds, latest, shown>>
  BY DEF StartStream, Executes, Arrives, webview, renderer, loop
<1>2. s \in 1..started /\ s \in Streams /\ s # 0 /\ ipc \in Seq(Calls) /\ chain[s] = NoChain
  BY <1>1, StartsAreStreams DEF LatestInv, StartsAfresh
<1>3. /\ InOrder(ipc')
      /\ \A j \in 1..Len(ipc') : \E k \in 1..Len(ipc) : ipc'[j] = ipc[k]
      /\ \A j \in 1..Len(ipc') : ipc'[j].op = "start" => ipc'[j].arg # s
  <2>1. InOrder(ipc)
    BY DEF LatestInv
  <2>2. RemainInOrder(ipc', ipc, ipc[i])
    BY <1>1, <1>2, <2>1, LeavesInOrder
  <2> QED BY <2>2, <1>1 DEF RemainInOrder
<1> HIDE DEF s
<1>4. StreamTypes'
  BY <1>1, <1>2 DEF LatestInv, StreamTypes
<1>5. StartsAfresh'
  <2> SUFFICES ASSUME NEW j \in 1..Len(ipc'), ipc'[j].op = "start"
               PROVE  ipc'[j].arg # s /\ chain[ipc'[j].arg] = NoChain
    BY <1>1 DEF StartsAfresh
  <2>1. PICK k \in 1..Len(ipc) : ipc'[j] = ipc[k]
    BY <1>3
  <2> QED BY <1>3, <2>1 DEF LatestInv, StartsAfresh
<1>6. ChainsFollow'
  <2> SUFFICES ASSUME NEW j \in 1..Len(ipc'), ipc'[j].op = "chain"
               PROVE  ipc'[j].arg \in 1..shown /\ \A r \in Streams : chain[r] <= ipc'[j].arg
    BY <1>1 DEF ChainsFollow
  <2>1. PICK k \in 1..Len(ipc) : ipc'[j] = ipc[k]
    BY <1>3
  <2> QED BY <2>1 DEF LatestInv, ChainsFollow
<1>7. ShaderFindsNone'
  BY <1>1, <1>2 DEF ShaderFindsNone, NoChain, Builtin
<1>8. VersionsInOrder'
  BY <1>1 DEF LatestInv, VersionsInOrder, doc
<1> QED BY <1>3, <1>4, <1>5, <1>6, <1>7, <1>8 DEF LatestInv

\* stop_preview_stream takes the stream away, or does nothing.
LEMMA LatestStopped ==
  ASSUME QueueInv, LatestInv, NEW i \in 1..Len(ipc), StopStream(i), UNCHANGED loop
  PROVE  LatestInv'
<1>1. /\ ipc' = RemoveAt(ipc, i) /\ ipc[i].op = "stop" /\ active' \in {0, active}
      /\ \A j \in 1..(i - 1) : ipc[j].op = "stop"
      /\ UNCHANGED <<started, chain, thread, timer, kinds, latest, shown>>
  BY DEF StopStream, Executes, Arrives, webview, renderer, loop
<1>2. /\ ipc \in Seq(Calls) /\ started \in Nat
      /\ \A k \in 1..Len(ipc) : ipc[k].op = "start" => ipc[k].arg # 0
  BY StartsAreStreams DEF LatestInv
<1>3. /\ InOrder(ipc')
      /\ (\E j : Awaits(ipc', j)) => (\E k : Awaits(ipc, k))
      /\ \A j \in 1..Len(ipc') : \E k \in 1..Len(ipc) : ipc'[j] = ipc[k]
  <2>1. InOrder(ipc)
    BY DEF LatestInv
  <2>2. ipc[i].op # "start"
    BY <1>1
  <2>3. RemainInOrder(ipc', ipc, ipc[i])
    BY <1>1, <1>2, <2>1, LeavesInOrder
  <2> QED BY <2>2, <2>3 DEF RemainInOrder
<1>4. StreamTypes'
  <2>1. active' \in 0..started
    BY <1>1, <1>2 DEF LatestInv, StreamTypes
  <2> QED BY <1>1, <2>1 DEF LatestInv, StreamTypes
<1>5. StartsAfresh'
  <2> SUFFICES ASSUME NEW j \in 1..Len(ipc'), ipc'[j].op = "start"
               PROVE  ipc'[j].arg # active' /\ chain[ipc'[j].arg] = NoChain
    BY <1>1 DEF StartsAfresh
  <2>1. PICK k \in 1..Len(ipc) : ipc'[j] = ipc[k]
    BY <1>3
  <2> QED BY <1>1, <1>2, <2>1 DEF LatestInv, StartsAfresh
<1>6. ChainsFollow'
  <2> SUFFICES ASSUME NEW j \in 1..Len(ipc'), ipc'[j].op = "chain"
               PROVE  ipc'[j].arg \in 1..shown /\ \A r \in Streams : chain[r] <= ipc'[j].arg
    BY <1>1 DEF ChainsFollow
  <2>1. PICK k \in 1..Len(ipc) : ipc'[j] = ipc[k]
    BY <1>3
  <2> QED BY <2>1 DEF LatestInv, ChainsFollow
<1>7. ShaderFindsNone'
  <2>1. active' # 0 => active' = active
    BY <1>1
  <2>2. (\E j : Awaits(ipc', j)) /\ active' # 0 => chain[active'] <= Builtin
    BY <1>3, <2>1 DEF LatestInv, ShaderFindsNone
  <2> QED BY <1>1, <2>2 DEF ShaderFindsNone
<1>8. VersionsInOrder'
  BY <1>1 DEF LatestInv, VersionsInOrder, doc
<1>9. InOrder(ipc')
  BY <1>3
<1> QED BY <1>9, <1>4, <1>5, <1>6, <1>7, <1>8 DEF LatestInv

\* load_shader, load_source and load_chain_sources: what replaces the chain of the
\* active stream is not older.
LEMMA LatestLoads ==
  ASSUME QueueInv, LatestInv, NEW i \in 1..Len(ipc), Arrives(i), ipc' = RemoveAt(ipc, i),
         ipc[i].op \in {"shader", "source", "chain"},
         UNCHANGED <<started, active, thread, timer, kinds, latest, shown>>,
         NEW c \in Int, ipc[i].op = "shader" => c = Builtin, ipc[i].op = "chain" => c = ipc[i].arg,
         \/ chain' = chain
         \/ /\ ipc[i].op # "source" /\ active # 0 /\ chain' = [chain EXCEPT ![active] = c]
  PROVE  LatestInv' /\ \A s \in Streams : ~ (chain'[s] < chain[s])
<1>1. \A j \in 1..(i - 1) : ipc[j].op = "stop"
  BY DEF Arrives
<1>2. /\ ipc \in Seq(Calls) /\ started \in Nat /\ (active # 0 => active \in Streams)
      /\ doc \in Nat /\ active \in 0..started /\ NoChain = -1 /\ Builtin = 0
      /\ chain \in [Streams -> Int]
  BY StartsAreStreams DEF LatestInv, StreamTypes
<1>3. /\ InOrder(ipc')
      /\ (\E j : Awaits(ipc', j)) => (\E k : Awaits(ipc, k))
      /\ \A j \in 1..Len(ipc') : \E k \in 1..Len(ipc) : ipc'[j] = ipc[k]
      /\ ipc[i].op = "chain" => /\ \A j : ~ Awaits(ipc', j)
                                /\ \A j \in 1..Len(ipc') : ipc'[j].op = "chain" => c <= ipc'[j].arg
      /\ ipc[i].op = "shader" => \E k : Awaits(ipc, k)
  <2>1. InOrder(ipc)
    BY DEF LatestInv
  <2>2. ipc[i].op # "start" /\ (ipc[i].op = "chain" => c = ipc[i].arg)
    OBVIOUS
  <2>3. RemainInOrder(ipc', ipc, ipc[i])
    BY <1>1, <1>2, <2>1, LeavesInOrder
  <2> QED BY <2>2, <2>3 DEF RemainInOrder
<1>4. /\ shown \in Nat
      /\ \A k \in 1..Len(ipc) : ipc[k].op = "chain" =>
           ipc[k].arg \in 1..shown /\ \A s \in Streams : chain[s] <= ipc[k].arg
      /\ \A s \in Streams : chain[s] \in NoChain..shown
  <2>1. shown \in Nat
    BY <1>2 DEF LatestInv, VersionsInOrder
  <2> QED BY <2>1 DEF LatestInv, ChainsFollow, StreamTypes
<1>5. chain' # chain => /\ active \in Streams /\ chain' = [chain EXCEPT ![active] = c]
                        /\ c \in 0..shown /\ chain[active] <= c
  <2> SUFFICES ASSUME chain' # chain
               PROVE  c \in 0..shown /\ chain[active] <= c
    BY <1>2
  <2>1. CASE ipc[i].op = "shader"
    <3>1. chain[active] <= Builtin
      BY <1>3, <2>1 DEF LatestInv, ShaderFindsNone
    <3> QED BY <3>1, <2>1, <1>2, <1>4
  <2>2. CASE ipc[i].op = "chain"
    <3>1. c \in 1..shown
      BY <1>4, <2>2
    <3> QED BY <1>2, <1>4, <2>2, <3>1
  <2> QED BY <2>1, <2>2
<1>6. \A s \in Streams : /\ chain'[s] \in Int /\ chain'[s] >= chain[s] /\ chain'[s] \in NoChain..shown
                         /\ chain'[s] # chain[s] => s = active /\ chain'[s] = c
  BY <1>2, <1>4, <1>5
<1>7. StreamTypes'
  <2>1. chain' \in [Streams -> Int]
    BY <1>2, <1>5
  <2>2. \A s \in Streams : s > started => chain'[s] = NoChain
    <3> SUFFICES ASSUME NEW s \in Streams, s > started PROVE chain'[s] = NoChain
      OBVIOUS
    <3>1. s # active
      BY <1>2
    <3> QED BY <3>1, <1>6 DEF LatestInv, StreamTypes
  <2> QED BY <1>6, <2>1, <2>2 DEF LatestInv, StreamTypes
<1>8. StartsAfresh'
  <2> SUFFICES ASSUME NEW j \in 1..Len(ipc'), ipc'[j].op = "start"
               PROVE  ipc'[j].arg # active /\ chain'[ipc'[j].arg] = NoChain
    BY DEF StartsAfresh
  <2>1. PICK k \in 1..Len(ipc) : ipc'[j] = ipc[k]
    BY <1>3
  <2>2. ipc[k].arg # active /\ chain[ipc[k].arg] = NoChain /\ ipc[k].arg \in Streams
    BY <2>1, StartsAreStreams DEF LatestInv, StartsAfresh
  <2> QED BY <1>6, <2>1, <2>2
<1>9. ChainsFollow'
  <2> SUFFICES ASSUME NEW j \in 1..Len(ipc'), ipc'[j].op = "chain"
               PROVE  ipc'[j].arg \in 1..shown /\ \A s \in Streams : chain'[s] <= ipc'[j].arg
    BY DEF ChainsFollow
  <2>1. PICK k \in 1..Len(ipc) : ipc'[j] = ipc[k]
    BY <1>3
  <2>2. ipc'[j].arg \in 1..shown /\ \A s \in Streams : chain[s] <= ipc'[j].arg
    BY <1>4, <2>1
  <2>3. chain' # chain => c <= ipc'[j].arg
    BY <1>2, <1>3, <2>2
  <2> QED BY <1>6, <2>2, <2>3
<1>10. ShaderFindsNone'
  <2> SUFFICES ASSUME \E j : Awaits(ipc', j), active # 0 PROVE chain'[active] <= Builtin
    BY Zenon DEF ShaderFindsNone
  <2>1. chain[active] <= Builtin /\ ipc[i].op # "chain"
    BY <1>3 DEF LatestInv, ShaderFindsNone
  <2>2. chain' # chain => c = Builtin
    BY <2>1
  <2> QED BY <1>2, <1>6, <2>1, <2>2
<1>11. VersionsInOrder'
  BY DEF LatestInv, VersionsInOrder, doc
<1>12. InOrder(ipc')
  BY <1>3
<1>13. \A s \in Streams : ~ (chain'[s] < chain[s])
  BY <1>2, <1>6
<1> QED BY <1>12, <1>13, <1>7, <1>8, <1>9, <1>10, <1>11 DEF LatestInv

\* The frames of the backend and the reports of its threads.
LEMMA LatestThreads ==
  ASSUME QueueInv, LatestInv, NEW s \in Streams, DeliverFrame(s) \/ ThreadStep(s) \/ Forward(s),
         UNCHANGED loop
  PROVE  LatestInv' /\ \A r \in Streams : chain'[r] < chain[r] => thread'[r] = "ended"
<1>1. UNCHANGED <<ipc, started, active, timer, kinds, latest, shown>>
  BY DEF DeliverFrame, ThreadStep, RendererUnavailable, RenderFrame, EndThread, Forward, webview,
         loop
<1>2. VersionsInOrder'
  BY <1>1 DEF LatestInv, VersionsInOrder, doc
<1>3. /\ chain \in [Streams -> Int] /\ thread \in [Streams -> {"none", "up", "ended"}]
      /\ \A r \in Streams : chain[r] \in NoChain..shown /\ NoChain \in NoChain..shown
      /\ shown' >= shown /\ NoChain = -1
  <2>1. shown \in Nat
    <3>1. doc \in Nat
      BY StartsAreStreams DEF LatestInv
    <3> QED BY <3>1 DEF LatestInv, VersionsInOrder
  <2> QED BY <1>1, <2>1 DEF LatestInv, StreamTypes, NoChain
<1>4. CASE UNCHANGED <<chain, thread>>
  <2>1. StreamTypes'
    BY <1>1, <1>4 DEF LatestInv, StreamTypes
  <2> QED BY <1>1, <1>2, <1>3, <1>4, <2>1, LatestRests
<1>5. CASE chain' = [chain EXCEPT ![s] = NoChain] /\ thread' = [thread EXCEPT ![s] = "ended"]
  <2>1. \A r \in Streams : chain'[r] \in {chain[r], NoChain} /\ (chain'[r] # chain[r] => r = s)
    BY <1>3, <1>5
  <2>2. StreamTypes'
    BY <1>1, <1>3, <1>5, <2>1 DEF LatestInv, StreamTypes
  <2>3. LatestInv'
    BY <1>1, <1>2, <1>3, <2>1, <2>2, LatestRests
  <2>4. thread'[s] = "ended"
    BY <1>3, <1>5
  <2> QED BY <1>3, <2>1, <2>3, <2>4
<1> QED BY <1>4, <1>5 DEF DeliverFrame, ThreadStep, RendererUnavailable, RenderFrame, EndThread,
                        Forward, Drops, renderer

\* setCompileStatus and dispatchPreview of the version dispatched last.
LEMMA LatestApply ==
  ASSUME QueueInv, LatestInv, NEW v \in Nat \ {0}, Apply(v), UNCHANGED kinds, timer' \in {0, timer},
         latest' = v, v >= latest, v <= doc
  PROVE  LatestInv' /\ shown' >= shown /\ UNCHANGED chain
<1>1. /\ shown' = v /\ UNCHANGED <<started, active, chain, thread>>
      /\ latest \in Nat /\ shown \in Nat /\ doc \in Nat /\ shown <= latest /\ doc' = doc
      /\ timer \in {0, doc}
  <2>1. doc \in Nat
    BY StartsAreStreams DEF LatestInv
  <2> QED BY <2>1 DEF Apply, webview, renderer, LatestInv, VersionsInOrder, doc
<1>2. VersionsInOrder' /\ shown' >= shown
  BY <1>1 DEF VersionsInOrder
<1>3. CASE kinds[v] = "broken"
  <2>1. UNCHANGED ipc
    BY <1>3 DEF Apply
  <2>2. \A s \in Streams : chain[s] \in NoChain..shown'
    BY <1>1 DEF LatestInv, StreamTypes, NoChain
  <2>3. StreamTypes'
    BY <1>1, <2>2 DEF LatestInv, StreamTypes
  <2> QED BY <1>1, <1>2, <2>1, <2>3, LatestRests
<1>4. CASE kinds[v] # "broken"
  <2> DEFINE c == [op |-> "chain", arg |-> v, compiles |-> kinds[v] \in Sound]
  <2>1. ipc' = Append(ipc, c) /\ c \in Calls /\ c.op = "chain" /\ c.arg = v
    BY <1>4 DEF Apply, Calls
  <2> HIDE DEF c
  <2> QED BY <1>1, <1>2, <2>1, LatestSends
<1> QED BY <1>3, <1>4

\* What OnlyTheLatestWins says of a step.
NeverBack == /\ shown' >= shown
             /\ \A s \in Streams : chain'[s] < chain[s] => thread'[s] = "ended"

\* Every step keeps the order, and takes nothing back.
LEMMA LatestStep == QueueInv /\ LatestInv /\ [Next]_vars => LatestInv' /\ NeverBack
<1> SUFFICES ASSUME QueueInv, LatestInv, [Next]_vars PROVE LatestInv' /\ NeverBack
  OBVIOUS
<1>1. /\ doc \in Nat /\ timer \in {0, doc} /\ latest \in 0..doc /\ latest \in Nat /\ shown \in Nat
      /\ kinds \in Seq(Kinds) /\ ipc \in Seq(Calls) /\ chain \in [Streams -> Int]
  <2>1. doc \in Nat /\ kinds \in Seq(Kinds) /\ ipc \in Seq(Calls)
    BY StartsAreStreams DEF LatestInv
  <2> QED BY <2>1 DEF LatestInv, VersionsInOrder, StreamTypes
<1>2. ASSUME UNCHANGED chain, shown' >= shown PROVE NeverBack
  BY <1>1, <1>2 DEF NeverBack
<1>3. ASSUME UNCHANGED <<ipc, started, active, chain, thread, shown, latest>>,
             timer' \in {0, doc'}, doc' \in Nat, doc' >= doc
      PROVE  LatestInv' /\ NeverBack
  <2>1. VersionsInOrder' /\ StreamTypes'
    BY <1>1, <1>3 DEF LatestInv, VersionsInOrder, StreamTypes
  <2> QED BY <1>1, <1>2, <1>3, <2>1, LatestRests
<1>4. ASSUME StreamStep, UNCHANGED loop PROVE LatestInv' /\ NeverBack
  <2>1. UNCHANGED <<timer, kinds, latest, shown, doc>>
    BY <1>4 DEF loop, doc
  <2>2. CASE Start
    <3>1. LatestInv' /\ UNCHANGED chain
      BY <1>4, <2>2, LatestStart DEF Start, renderer
    <3> QED BY <1>1, <1>2, <2>1, <3>1
  <2>3. CASE Stop
    <3> DEFINE c == Call("stop", started)
    <3>1. started \in Int
      BY StartsAreStreams DEF LatestInv
    <3>2. c \in Calls /\ c.op = "stop"
      BY <3>1 DEF Call, Calls
    <3>3. ipc' = Append(ipc, c) /\ UNCHANGED <<started, active, chain, thread>>
      BY <2>3 DEF Stop, renderer
    <3>4. VersionsInOrder' /\ shown' >= shown
      BY <1>1, <2>1 DEF LatestInv, VersionsInOrder
    <3> HIDE DEF c
    <3> QED BY <1>2, <3>2, <3>3, <3>4, LatestSends
  <2>4. CASE DeliverEvent
    <3>1. UNCHANGED <<ipc, started, active, chain, thread>>
      BY <2>4 DEF DeliverEvent, webview, renderer
    <3> QED BY <1>1, <1>3, <2>1, <3>1
  <2>5. CASE ExecuteCall
    <3> SUFFICES ASSUME NEW i \in 1..Len(ipc),
                        StartStream(i) \/ StopStream(i) \/ LoadBuiltin(i) \/ LoadChainSources(i)
                 PROVE  LatestInv' /\ NeverBack
      BY <2>5 DEF ExecuteCall
    <3>0. Builtin \in Int /\ (ipc[i].arg \in Int)
      BY StartsAreStreams DEF LatestInv, Calls
    <3>1. CASE StartStream(i)
      <4>1. LatestInv' /\ UNCHANGED chain
        BY <1>4, <3>1, LatestStarted DEF StartStream, renderer
      <4> QED BY <1>1, <1>2, <2>1, <4>1
    <3>2. CASE StopStream(i)
      <4>1. LatestInv' /\ UNCHANGED chain
        BY <1>4, <3>2, LatestStopped DEF StopStream, renderer
      <4> QED BY <1>1, <1>2, <2>1, <4>1
    <3>3. CASE LoadBuiltin(i)
      <4>1. /\ Arrives(i) /\ ipc' = RemoveAt(ipc, i) /\ ipc[i].op \in {"shader", "source"}
            /\ UNCHANGED <<started, active, thread>>
            /\ chain' = chain \/ (/\ ipc[i].op # "source" /\ active # 0
                                  /\ chain' = [chain EXCEPT ![active] = Builtin])
        BY <3>3 DEF LoadBuiltin, Executes, SetChainOf, Reaches, webview
      <4>2. LatestInv' /\ \A s \in Streams : ~ (chain'[s] < chain[s])
        BY <2>1, <3>0, <4>1, LatestLoads
      <4> QED BY <1>1, <2>1, <4>2 DEF NeverBack
    <3>4. CASE LoadChainSources(i)
      <4>1. /\ Arrives(i) /\ ipc' = RemoveAt(ipc, i) /\ ipc[i].op = "chain"
            /\ UNCHANGED <<started, active, thread>>
            /\ chain' = chain \/ (/\ ipc[i].op # "source" /\ active # 0
                                  /\ chain' = [chain EXCEPT ![active] = ipc[i].arg])
        BY <3>4 DEF LoadChainSources, Executes, SetChainOf, Reaches, webview
      <4>2. LatestInv' /\ \A s \in Streams : ~ (chain'[s] < chain[s])
        BY <2>1, <3>0, <4>1, LatestLoads
      <4> QED BY <1>1, <2>1, <4>2 DEF NeverBack
    <3> QED BY <3>1, <3>2, <3>3, <3>4
  <2>6. ASSUME NEW s \in Streams, DeliverFrame(s) \/ ThreadStep(s) \/ Forward(s)
        PROVE  LatestInv' /\ NeverBack
    <3>1. LatestInv' /\ \A r \in Streams : chain'[r] < chain[r] => thread'[r] = "ended"
      BY <1>4, <2>6, LatestThreads
    <3> QED BY <1>1, <2>1, <3>1 DEF NeverBack
  <2> QED BY <1>4, <2>2, <2>3, <2>4, <2>5, <2>6 DEF StreamStep
<1>5. ASSUME NEW k \in Kinds, Edit(k) PROVE LatestInv' /\ NeverBack
  <2>1. UNCHANGED <<ipc, started, active, chain, thread, shown, latest>>
    BY <1>5 DEF Edit, streamVars, webview, renderer
  <2>2. doc' = doc + 1 /\ timer' = doc'
    BY <1>1, <1>5, AppendProperties DEF Edit, doc
  <2> QED BY <1>1, <1>3, <2>1, <2>2
<1>6. CASE TimerFires
  <2>1. timer # 0 /\ timer' = 0 /\ latest' = timer /\ UNCHANGED <<kinds, doc>>
    BY <1>6 DEF TimerFires, doc
  <2>2. CASE kinds[timer] \in Graphs
    <3>1. UNCHANGED <<ipc, started, active, chain, thread, shown>>
      BY <1>6, <2>2 DEF TimerFires, streamVars, webview, renderer
    <3>2. VersionsInOrder' /\ StreamTypes'
      BY <1>1, <2>1, <3>1 DEF LatestInv, VersionsInOrder, StreamTypes
    <3> QED BY <1>1, <1>2, <3>1, <3>2, LatestRests
  <2>3. CASE kinds[timer] \notin Graphs
    <3>1. Apply(timer)
      BY <1>6, <2>3 DEF TimerFires
    <3>2. timer \in Nat \ {0} /\ timer >= latest /\ timer <= doc
      BY <1>1, <2>1
    <3> QED BY <1>2, <2>1, <3>1, <3>2, LatestApply
  <2> QED BY <2>2, <2>3
<1>7. ASSUME NEW v \in Versions, Compiled(v) PROVE LatestInv' /\ NeverBack
  <2>1. UNCHANGED <<timer, kinds, latest, doc>>
    BY <1>7 DEF Compiled, doc
  <2>2. CASE v = latest
    <3>1. Apply(v)
      BY <1>7, <2>2 DEF Compiled
    <3>2. v \in Nat \ {0} /\ v >= latest /\ v <= doc
      BY <1>1, <2>2, VersionsAssumption DEF Versions
    <3> QED BY <1>2, <2>1, <2>2, <3>1, <3>2, LatestApply
  <2>3. CASE v # latest
    BY <1>1, <1>3, <1>7, <2>1, <2>3 DEF Compiled, streamVars, webview, renderer
  <2> QED BY <2>2, <2>3
<1>8. ASSUME NEW v \in Versions, Rejected(v) PROVE LatestInv' /\ NeverBack
  BY <1>1, <1>3, <1>8 DEF Rejected, streamVars, webview, renderer, doc
<1>9. CASE UNCHANGED vars
  BY <1>1, <1>3, <1>9 DEF vars, streamVars, webview, renderer, loop, doc
<1> QED BY <1>4, <1>5, <1>6, <1>7, <1>8, <1>9 DEF Next

\* The first stream has been sent its calls, the first version waits for its timer.
LEMMA LatestInit == Init => LatestInv
<1> SUFFICES ASSUME Init PROVE LatestInv
  OBVIOUS
<1>1. /\ ipc = StartCalls(1) /\ started = 1 /\ active = 0 /\ kinds = <<"graph">>
      /\ timer = 1 /\ latest = 0 /\ shown = 0
      /\ chain = [s \in Streams |-> NoChain] /\ thread = [s \in Streams |-> "none"]
  BY DEF Init, StreamsInit
<1>2. PICK q \in Seq(Calls) : Len(q) = 0 /\ ipc = q \o StartCalls(1)
  <2>1. StartCalls(1) \in Seq(Calls)
    BY DEF StartCalls, Call, Calls, Builtin
  <2>2. << >> \o StartCalls(1) = StartCalls(1) /\ << >> \in Seq(Calls) /\ Len(<< >>) = 0
    BY <2>1, ConcatEmptySeq
  <2> QED BY <1>1, <2>2
<1>3. 1 \in Streams /\ Len(kinds) = 1 /\ NoChain = -1
  BY <1>1, StreamBounds DEF Streams, NoChain
<1>4. \A i \in 1..Len(q) : FALSE
  BY <1>2
<1>5. /\ InOrder(ipc) /\ \A j : ~ Awaits(ipc, j)
      /\ \A j \in 1..Len(ipc) : ipc[j] = Call("start", 1) \/ ipc[j].op \notin {"start", "chain"}
  <2>1. InOrder(q) /\ \A j : ~ Awaits(q, j)
    BY <1>4 DEF InOrder, StartsOnce, ChainsGrow, ShaderFollowsStart, ShaderComesFirst, Awaits
  <2>2. \A i \in 1..Len(q) : q[i].op = "start" => q[i].arg # 1
    BY <1>4
  <2>3. ASSUME NEW s \in Int, s = 1 PROVE StreamAdded(q \o StartCalls(s), q, s)
    BY <2>1, <2>2, <2>3, StreamJoins
  <2>4. StreamAdded(ipc, q, 1)
    BY <1>2, <2>3
  <2> QED BY <1>4, <2>1, <2>4 DEF StreamAdded
<1>6. Call("start", 1).op = "start" /\ Call("start", 1).arg = 1
  BY DEF Call
<1>7. StartsAfresh
  BY <1>1, <1>3, <1>5, <1>6 DEF StartsAfresh
<1>8. ChainsFollow /\ ShaderFindsNone
  BY <1>5, <1>6 DEF ChainsFollow, ShaderFindsNone
<1>9. StreamTypes
  BY <1>1, <1>3 DEF StreamTypes
<1>10. VersionsInOrder
  BY <1>1, <1>3 DEF VersionsInOrder, doc
<1> QED BY <1>5, <1>7, <1>8, <1>9, <1>10 DEF LatestInv

(* "only the latest wins" (compile/pipeline.ts): compile calls end in any order,    *)
(* are rejected or overtaken, streams start and stop and their calls arrive late;   *)
(* the version that is shown never goes back, nor does the one a stream renders     *)
(* until its thread ends.                                                           *)
THEOREM LatestWins == Spec => OnlyTheLatestWins
<1>1. NeverBack => /\ shown' >= shown
                   /\ \A s \in Streams : chain'[s] < chain[s] => thread'[s] = "ended"
  BY DEF NeverBack
<1> QED BY <1>1, QueueInit, QueueStep, LatestInit, LatestStep, PTL DEF Spec, OnlyTheLatestWins

------------------------------------------------------------------------------
(* The badge: the last words of a stream reach it in order, those of others not. *)

Words == [stream : Int, what : Statuses \cup {"slangCompile", "noAdapter"}]

\* The i-th event of queue q is a status of stream s.
Tells(q, i, s) == q[i].stream = s /\ q[i].what \in Statuses

\* The last status of s under way is what, or there is none and that is shown.
WillSay(q, s, what, shows) ==
  \/ (\A i \in 1..Len(q) : ~ Tells(q, i, s)) /\ shows = what
  \/ \E i \in 1..Len(q) : /\ q[i] = Event(s, what)
                          /\ \A j \in 1..Len(q) : i < j => ~ Tells(q, j, s)

BadgeTypes ==
  /\ events \in Seq(Words) /\ reported \in [Streams -> Statuses \cup {"none"}]
  /\ forwards \in [Streams -> Seq(Statuses)]
  /\ \A s \in Streams : /\ thread[s] # "up" => reported[s] = "none"
                        /\ s > started => thread[s] = "none"

\* What the stream of the canvas reported last is the last its forwarder has to emit,
\* or, with nothing left to emit, what the badge will show.
BadgeWillTell ==
  streaming /\ thread[started] = "up" /\ reported[started] # "none" =>
    /\ forwards[started] # << >>
         => forwards[started][Len(forwards[started])] = reported[started]
    /\ forwards[started] = << >> => WillSay(events, started, reported[started], badge)

BadgeInv == BadgeTypes /\ BadgeWillTell

\* An event joins that is no status of s.
LEMMA WordJoins ==
  ASSUME NEW q \in Seq(Words), NEW e \in Words, NEW s, NEW what, NEW shows,
         WillSay(q, s, what, shows), ~ (e.stream = s /\ e.what \in Statuses)
  PROVE  WillSay(Append(q, e), s, what, shows)
<1> DEFINE r == Append(q, e)
           n == Len(q) + 1
<1>1. /\ Len(q) \in Nat /\ n \in Nat /\ Len(r) = n /\ r[n] = e
      /\ \A j \in 1..Len(q) : j \in 1..n /\ j < n /\ r[j] = q[j]
      /\ \A j \in 1..n : j \in 1..Len(q) \/ j = n
  BY AppendProperties, LenProperties, SMT
<1> HIDE DEF r, n
<1>2. /\ ~ Tells(r, n, s)
      /\ \A j \in 1..Len(q) : Tells(r, j, s) <=> Tells(q, j, s)
  BY <1>1 DEF Tells
<1>3. CASE (\A i \in 1..Len(q) : ~ Tells(q, i, s)) /\ shows = what
  <2>1. \A i \in 1..Len(r) : ~ Tells(r, i, s)
    BY <1>1, <1>2, <1>3, Zenon
  <2> QED BY <1>3, <2>1 DEF WillSay, r
<1>4. CASE \E i \in 1..Len(q) : /\ q[i] = Event(s, what)
                                /\ \A j \in 1..Len(q) : i < j => ~ Tells(q, j, s)
  <2>1. PICK i \in 1..Len(q) : /\ q[i] = Event(s, what)
                               /\ \A j \in 1..Len(q) : i < j => ~ Tells(q, j, s)
    BY <1>4
  <2>2. i \in 1..Len(r) /\ r[i] = Event(s, what)
    BY <1>1, <2>1
  <2>3. \A j \in 1..Len(r) : i < j => ~ Tells(r, j, s)
    BY <1>1, <1>2, <2>1, Zenon
  <2> QED BY <2>2, <2>3 DEF WillSay, r
<1> QED BY <1>3, <1>4 DEF WillSay

\* A status of s joins: it is the last.
LEMMA StatusJoins ==
  ASSUME NEW q \in Seq(Words), NEW s, NEW what, NEW shows, Event(s, what) \in Words
  PROVE  WillSay(Append(q, Event(s, what)), s, what, shows)
<1> DEFINE r == Append(q, Event(s, what))
           n == Len(q) + 1
<1>1. /\ Len(q) \in Nat /\ n \in Nat /\ Len(r) = n /\ r[n] = Event(s, what)
  BY AppendProperties, LenProperties
<1>2. n \in 1..Len(r) /\ \A j \in 1..Len(r) : ~ (n < j)
  BY <1>1
<1> HIDE DEF r, n
<1>3. WillSay(r, s, what, shows)
  BY <1>1, <1>2, Zenon DEF WillSay
<1> QED BY <1>3 DEF r

\* The first event arrives; a status of s is shown.
LEMMA WordArrives ==
  ASSUME NEW q \in Seq(Words), q # << >>, NEW s, NEW what \in Statuses, NEW shows,
         WillSay(q, s, what, shows), NEW shows2,
         shows2 = IF Tells(q, 1, s) THEN Head(q).what ELSE shows
  PROVE  WillSay(Tail(q), s, what, shows2)
<1> DEFINE r == Tail(q)
<1>1. /\ r \in Seq(Words) /\ Len(q) \in Nat /\ Len(r) \in Nat /\ Len(q) = Len(r) + 1
      /\ Head(q) = q[1] /\ \A j \in 1..Len(r) : r[j] = q[j + 1]
  BY HeadTailProperties, LenProperties
<1> HIDE DEF r
<1>2. /\ \A j \in 1..Len(r) : j + 1 \in 1..Len(q) /\ 1 < j + 1
      /\ \A i \in 1..Len(q) : i = 1 \/ (i - 1 \in 1..Len(r) /\ r[i - 1] = q[i])
      /\ 1 \in 1..Len(q)
  BY <1>1
<1>3. \A j \in 1..Len(r) : Tells(r, j, s) <=> Tells(q, j + 1, s)
  BY <1>1 DEF Tells
<1>4. CASE (\A i \in 1..Len(q) : ~ Tells(q, i, s)) /\ shows = what
  <2>1. \A i \in 1..Len(r) : ~ Tells(r, i, s)
    BY <1>2, <1>3, <1>4
  <2>2. shows2 = what
    BY <1>2, <1>4
  <2> QED BY <2>1, <2>2 DEF WillSay, r
<1>5. CASE \E i \in 1..Len(q) : /\ q[i] = Event(s, what)
                                /\ \A j \in 1..Len(q) : i < j => ~ Tells(q, j, s)
  <2>1. PICK i \in 1..Len(q) : /\ q[i] = Event(s, what)
                               /\ \A j \in 1..Len(q) : i < j => ~ Tells(q, j, s)
    BY <1>5
  <2>2. CASE i = 1
    <3>1. \A j \in 1..Len(r) : ~ Tells(r, j, s)
      BY <1>2, <1>3, <2>1, <2>2
    <3>2. q[1].what = what /\ q[1].stream = s
      BY <2>1, <2>2 DEF Event
    <3>3. shows2 = what
      BY <1>1, <3>2 DEF Tells
    <3> QED BY <3>1, <3>3 DEF WillSay, r
  <2>3. CASE i # 1
    <3>1. i - 1 \in 1..Len(r) /\ r[i - 1] = Event(s, what)
      BY <1>2, <2>1, <2>3
    <3>2. \A j \in 1..Len(r) : i - 1 < j => ~ Tells(r, j, s)
      BY <1>2, <1>3, <2>1
    <3> QED BY <3>1, <3>2 DEF WillSay, r
  <2> QED BY <2>2, <2>3
<1> QED BY <1>4, <1>5 DEF WillSay

\* The webview stops, the document changes, a frame is painted.
LEMMA BadgeRests ==
  ASSUME BadgeInv, UNCHANGED <<started, events, badge, reported, forwards, thread>>,
         streaming' => streaming
  PROVE  BadgeInv'
BY DEF BadgeInv, BadgeTypes, BadgeWillTell

\* An event that is no status of the stream of the canvas.
LEMMA BadgeOther ==
  ASSUME BadgeInv, NEW e \in Words, ~ (e.stream = started /\ e.what \in Statuses),
         events' = Append(events, e),
         UNCHANGED <<started, streaming, badge, reported, forwards, thread>>
  PROVE  BadgeInv'
<1>1. BadgeTypes'
  <2>1. events' \in Seq(Words)
    BY AppendProperties DEF BadgeInv, BadgeTypes
  <2> QED BY <2>1 DEF BadgeInv, BadgeTypes
<1>2. WillSay(events, started, reported[started], badge)
        => WillSay(events', started, reported[started], badge)
  <2>1. events \in Seq(Words)
    BY DEF BadgeInv, BadgeTypes
  <2> QED BY <2>1, WordJoins
<1>3. BadgeWillTell'
  BY <1>2 DEF BadgeInv, BadgeWillTell
<1> QED BY <1>1, <1>3 DEF BadgeInv

\* The last words of a thread that ends.
LEMMA BadgeEnds ==
  ASSUME BadgeInv, started \in Streams, NEW s \in Streams, thread[s] = "up",
         thread \in [Streams -> {"none", "up", "ended"}],
         thread' = [thread EXCEPT ![s] = "ended"], reported' = [reported EXCEPT ![s] = "none"],
         events' \in Seq(Words),
         s # started => (WillSay(events, started, reported[started], badge)
                          => WillSay(events', started, reported[started], badge)),
         UNCHANGED <<started, streaming, badge, forwards>>
  PROVE  BadgeInv'
<1>1. reported \in [Streams -> Statuses \cup {"none"}]
  BY DEF BadgeInv, BadgeTypes
<1>2. /\ \A r \in Streams : r # s => thread'[r] = thread[r] /\ reported'[r] = reported[r]
      /\ thread'[s] = "ended" /\ reported'[s] = "none"
  BY <1>1
<1>3. ~ (s > started)
  BY DEF BadgeInv, BadgeTypes
<1>4. BadgeTypes'
  <2>1. reported' \in [Streams -> Statuses \cup {"none"}]
    BY <1>1
  <2>2. \A r \in Streams : /\ thread'[r] # "up" => reported'[r] = "none"
                           /\ r > started => thread'[r] = "none"
    BY <1>2, <1>3 DEF BadgeInv, BadgeTypes
  <2> QED BY <2>1, <2>2 DEF BadgeInv, BadgeTypes
<1>5. BadgeWillTell'
  <2>1. CASE s = started
    BY <2>1, <1>2 DEF BadgeWillTell
  <2>2. CASE s # started
    BY <2>2, <1>2 DEF BadgeInv, BadgeWillTell
  <2> QED BY <2>1, <2>2
<1> QED BY <1>4, <1>5 DEF BadgeInv

\* The forwarder emits one report; the last stays the last.
LEMMA Emitted ==
  ASSUME NEW f \in Seq(Statuses), f # << >>
  PROVE  /\ Head(f) \in Statuses /\ Tail(f) \in Seq(Statuses)
         /\ Tail(f) = << >> => Head(f) = f[Len(f)]
         /\ Tail(f) # << >> => Tail(f)[Len(Tail(f))] = f[Len(f)]
<1> DEFINE t == Tail(f)
<1>1. /\ Head(f) = f[1] /\ Head(f) \in Statuses /\ t \in Seq(Statuses)
      /\ Len(t) = Len(f) - 1 /\ \A i \in 1..Len(t) : t[i] = f[i + 1]
  BY HeadTailProperties
<1>2. Len(f) \in Nat /\ Len(t) \in Nat /\ (t = << >> <=> Len(t) = 0)
  BY <1>1, LenProperties, EmptySeq
<1> HIDE DEF t
<1>3. t = << >> => Len(f) = 1
  BY <1>1, <1>2
<1>4. t # << >> => Len(t) \in 1..Len(t) /\ Len(t) + 1 = Len(f)
  BY <1>1, <1>2
<1> QED BY <1>1, <1>3, <1>4 DEF t

\* The threads.
LEMMA BadgeThreads ==
  ASSUME BadgeInv, StreamTypes, NEW s \in Streams, ThreadStep(s) \/ Forward(s)
  PROVE  BadgeInv'
<1>1. /\ events \in Seq(Words) /\ started \in Streams /\ s \in Int
      /\ thread \in [Streams -> {"none", "up", "ended"}]
      /\ reported \in [Streams -> Statuses \cup {"none"}]
      /\ forwards \in [Streams -> Seq(Statuses)]
  BY StreamBounds DEF BadgeInv, BadgeTypes, StreamTypes, Streams
<1>2. /\ \A w \in Statuses \cup {"slangCompile", "noAdapter"} : Event(s, w) \in Words
      /\ \A w : Event(s, w).stream = s /\ Event(s, w).what = w
  BY <1>1 DEF Event, Words
<1>3. ASSUME NEW q \in Seq(Words), NEW w \in Statuses \cup {"slangCompile", "noAdapter"}, NEW what, NEW shows
      PROVE  /\ Append(q, Event(s, w)) \in Seq(Words)
             /\ s # started /\ WillSay(q, started, what, shows)
                  => WillSay(Append(q, Event(s, w)), started, what, shows)
  <2> DEFINE e == Event(s, w)
  <2>1. e \in Words /\ e.stream = s
    BY <1>2
  <2> HIDE DEF e
  <2>2. Append(q, e) \in Seq(Words)
    BY <2>1, AppendProperties
  <2>3. s # started /\ WillSay(q, started, what, shows) => WillSay(Append(q, e), started, what, shows)
    BY <2>1, WordJoins
  <2> QED BY <2>2, <2>3 DEF e
<1>4. CASE RendererUnavailable(s)
  <2> DEFINE a == Append(events, Event(s, "noAdapter"))
             b == Append(a, Event(s, "stopped"))
             c == Append(b, Event(s, "stopped"))
  <2>1. events' = c
    BY <1>1, <1>2, <1>4 DEF RendererUnavailable, Emits, Statuses
  <2>2. /\ "noAdapter" \in Statuses \cup {"slangCompile", "noAdapter"}
        /\ "stopped" \in Statuses \cup {"slangCompile", "noAdapter"}
    BY DEF Statuses
  <2> HIDE DEF a, b, c
  <2>3. a \in Seq(Words) /\ b \in Seq(Words) /\ c \in Seq(Words)
    BY <1>1, <1>3, <2>2 DEF a, b, c
  <2>4. ASSUME s # started, WillSay(events, started, reported[started], badge)
        PROVE  WillSay(c, started, reported[started], badge)
    <3>1. WillSay(a, started, reported[started], badge)
      BY <1>1, <1>3, <2>2, <2>4 DEF a
    <3>2. WillSay(b, started, reported[started], badge)
      BY <1>3, <2>2, <2>3, <2>4, <3>1 DEF b
    <3> QED BY <1>3, <2>2, <2>3, <2>4, <3>2 DEF c
  <2>5. /\ thread[s] = "up" /\ thread' = [thread EXCEPT ![s] = "ended"]
        /\ reported' = [reported EXCEPT ![s] = "none"]
        /\ UNCHANGED <<started, streaming, badge, forwards>>
    BY <1>4 DEF RendererUnavailable, Drops, webview, notices
  <2> QED BY <1>1, <2>1, <2>3, <2>4, <2>5, BadgeEnds
<1>5. CASE EndThread(s)
  <2>1. events' = Append(events, Event(s, "stopped"))
    BY <1>1, <1>2, <1>5 DEF EndThread, Emits, Statuses
  <2>2. "stopped" \in Statuses \cup {"slangCompile", "noAdapter"}
    BY DEF Statuses
  <2>3. /\ events' \in Seq(Words)
        /\ s # started /\ WillSay(events, started, reported[started], badge)
             => WillSay(events', started, reported[started], badge)
    BY <1>1, <1>3, <2>1, <2>2
  <2>4. /\ thread[s] = "up" /\ thread' = [thread EXCEPT ![s] = "ended"]
        /\ reported' = [reported EXCEPT ![s] = "none"]
        /\ UNCHANGED <<started, streaming, badge, forwards>>
    BY <1>5 DEF EndThread, Drops, webview, notices
  <2> QED BY <1>1, <2>3, <2>4, BadgeEnds
<1>6. CASE RenderFrame(s)
  <2> DEFINE status == IF chain[s] # NoChain /\ pumping[s] THEN "live" ELSE "lastGood"
  <2>1. /\ thread[s] = "up" /\ reported' = [reported EXCEPT ![s] = status]
        /\ forwards' = IF reported[s] = status THEN forwards
                       ELSE [forwards EXCEPT ![s] = Append(@, status)]
        /\ UNCHANGED <<started, streaming, badge, events, thread>>
    BY <1>6 DEF RenderFrame, webview, notices
  <2>2. status \in Statuses
    BY DEF Statuses
  <2> HIDE DEF status
  <2>3. /\ forwards[s] \in Seq(Statuses) /\ Append(forwards[s], status) \in Seq(Statuses)
        /\ Append(forwards[s], status) # << >>
        /\ Append(forwards[s], status)[Len(Append(forwards[s], status))] = status
    BY <1>1, <2>2, AppendProperties
  <2>4. /\ reported' \in [Streams -> Statuses \cup {"none"}] /\ forwards' \in [Streams -> Seq(Statuses)]
        /\ reported'[s] = status
        /\ \A r \in Streams : r # s => reported'[r] = reported[r] /\ forwards'[r] = forwards[r]
        /\ forwards'[s] = IF reported[s] = status THEN forwards[s] ELSE Append(forwards[s], status)
    BY <1>1, <2>1, <2>2, <2>3
  <2>5. BadgeTypes'
    BY <1>1, <2>1, <2>4 DEF BadgeInv, BadgeTypes
  <2>6. BadgeWillTell'
    <3>1. CASE s # started
      BY <1>1, <2>1, <2>4, <3>1 DEF BadgeInv, BadgeWillTell
    <3>2. CASE s = started /\ reported[s] = status
      BY <2>1, <2>4, <3>2 DEF BadgeInv, BadgeWillTell
    <3>3. CASE s = started /\ reported[s] # status
      BY <2>1, <2>3, <2>4, <3>3 DEF BadgeWillTell
    <3> QED BY <3>1, <3>2, <3>3
  <2> QED BY <2>5, <2>6 DEF BadgeInv
<1>7. CASE Forward(s)
  <2> DEFINE w == Head(forwards[s])
  <2>1. /\ forwards[s] # << >> /\ forwards' = [forwards EXCEPT ![s] = Tail(forwards[s])]
        /\ events' = events \o <<Event(s, w)>>
        /\ UNCHANGED <<started, streaming, badge, reported, thread>>
    BY <1>7 DEF Forward, Emits, webview, notices
  <2>2. forwards[s] \in Seq(Statuses)
    BY <1>1
  <2>3. /\ w \in Statuses /\ Tail(forwards[s]) \in Seq(Statuses)
        /\ Tail(forwards[s]) = << >> => w = forwards[s][Len(forwards[s])]
        /\ Tail(forwards[s]) # << >> => Tail(forwards[s])[Len(Tail(forwards[s]))] = forwards[s][Len(forwards[s])]
    BY <2>1, <2>2, Emitted
  <2> HIDE DEF w
  <2>4. Event(s, w) \in Words
    BY <1>2, <2>3
  <2>5. events' = Append(events, Event(s, w)) /\ events' \in Seq(Words)
    <3>1. events' = Append(events, Event(s, w))
      BY <1>1, <2>1, <2>4
    <3> QED BY <1>1, <2>4, <3>1, AppendProperties
  <2>6. /\ forwards' \in [Streams -> Seq(Statuses)] /\ forwards'[s] = Tail(forwards[s])
        /\ \A r \in Streams : r # s => forwards'[r] = forwards[r]
    BY <1>1, <2>1, <2>3
  <2>7. BadgeTypes'
    BY <2>1, <2>5, <2>6 DEF BadgeInv, BadgeTypes
  <2>8. BadgeWillTell'
    <3> SUFFICES ASSUME streaming, thread[started] = "up", reported[started] # "none"
                 PROVE  /\ forwards'[started] # << >>
                             => forwards'[started][Len(forwards'[started])] = reported[started]
                        /\ forwards'[started] = << >>
                             => WillSay(events', started, reported[started], badge)
      BY <2>1 DEF BadgeWillTell
    <3>1. CASE s = started
      <4>1. forwards[s][Len(forwards[s])] = reported[s]
        BY <2>1, <3>1 DEF BadgeInv, BadgeWillTell
      <4>2. Tail(forwards[s]) = << >> => Event(s, reported[s]) \in Words /\ w = reported[s]
        BY <2>3, <2>4, <4>1
      <4>3. Tail(forwards[s]) = << >> => WillSay(events', started, reported[started], badge)
        <5>1. ASSUME w = reported[s]
              PROVE  WillSay(Append(events, Event(s, w)), s, w, badge)
          BY <1>1, <2>4, StatusJoins
        <5> QED BY <2>5, <3>1, <4>2, <5>1
      <4> QED BY <2>3, <2>6, <3>1, <4>1, <4>3
    <3>2. CASE s # started
      <4>1. forwards'[started] = forwards[started]
        BY <1>1, <2>6, <3>2
      <4>2. WillSay(events, started, reported[started], badge)
              => WillSay(events', started, reported[started], badge)
        BY <1>1, <1>3, <2>3, <2>5, <3>2
      <4> QED BY <4>1, <4>2 DEF BadgeInv, BadgeWillTell
    <3> QED BY <3>1, <3>2
  <2> QED BY <2>7, <2>8 DEF BadgeInv
<1>8. ASSUME Forward(s) \/ RendererUnavailable(s) \/ RenderFrame(s) \/ EndThread(s) PROVE BadgeInv'
  BY <1>4, <1>5, <1>6, <1>7, <1>8
<1> QED BY <1>8 DEF ThreadStep

\* A new stream has no thread yet, and nothing to say.
LEMMA BadgeStart ==
  ASSUME BadgeInv, StreamTypes, Start
  PROVE  BadgeInv'
<1>1. /\ started' = started + 1 /\ started' \in Streams /\ started \in Int
      /\ UNCHANGED <<badge, events, reported, forwards, thread>>
  BY StreamBounds DEF Start, StreamTypes, Streams, notices, renderer
<1>2. thread[started'] = "none" /\ \A s \in Streams : s > started' => s > started
  BY <1>1, StreamBounds DEF BadgeInv, BadgeTypes, Streams
<1> QED BY <1>1, <1>2 DEF BadgeInv, BadgeTypes, BadgeWillTell

\* The listener takes the events of the stream the webview owns.
LEMMA BadgeDelivers ==
  ASSUME QueueInv, BadgeInv, StreamTypes, DeliverEvent
  PROVE  BadgeInv'
<1> DEFINE e == Head(events)
<1>1. /\ events \in Seq(Words) /\ events # << >> /\ events' = Tail(events)
      /\ UNCHANGED <<started, streaming, reported, forwards, thread>>
      /\ reported \in [Streams -> Statuses \cup {"none"}] /\ started \in Streams /\ started # 0
  BY StreamBounds DEF DeliverEvent, BadgeInv, BadgeTypes, webview, renderer, StreamTypes, Streams
<1>2. events' \in Seq(Words) /\ e \in Words /\ e = events[1]
  BY <1>1, HeadTailProperties
<1>3. streaming => current = started
  BY DEF QueueInv, OwnsTheLast
<1>4. streaming => badge' = IF Tells(events, 1, started) THEN e.what ELSE badge
  BY <1>1, <1>2, <1>3 DEF DeliverEvent, Surfaced, notices, Tells
<1>5. BadgeTypes'
  BY <1>1, <1>2 DEF BadgeInv, BadgeTypes
<1> HIDE DEF e
<1>6. ASSUME streaming, reported[started] # "none", WillSay(events, started, reported[started], badge)
      PROVE  WillSay(events', started, reported[started], badge')
  <2>1. reported[started] \in Statuses
    BY <1>1, <1>6
  <2>2. badge' = IF Tells(events, 1, started) THEN Head(events).what ELSE badge
    BY <1>4, <1>6 DEF e
  <2> QED BY <1>1, <1>6, <2>1, <2>2, WordArrives
<1>7. BadgeWillTell'
  BY <1>1, <1>6 DEF BadgeInv, BadgeWillTell
<1> QED BY <1>5, <1>7 DEF BadgeInv

\* The thread of a stream begins, with nothing said yet.
LEMMA BadgeStarted ==
  ASSUME QueueInv, BadgeInv, StreamTypes, NEW i \in 1..Len(ipc), StartStream(i)
  PROVE  BadgeInv'
<1> DEFINE s == ipc[i].arg
<1>1. /\ ipc[i].op = "start" /\ thread' = [thread EXCEPT ![s] = "up"]
      /\ UNCHANGED <<started, streaming, badge, events, reported, forwards>>
  BY DEF StartStream, Executes, webview, notices, renderer
<1>2. s \in 1..started /\ s \in Streams /\ started \in Streams /\ started \in Nat
  BY <1>1, StartsAreStreams DEF StreamTypes
<1> HIDE DEF s
<1>3. /\ \A r \in Streams : r # s => thread'[r] = thread[r]
      /\ thread'[s] = "up" /\ ~ (s > started)
  BY <1>1, <1>2 DEF StreamTypes
<1>4. BadgeTypes'
  <2>1. \A r \in Streams : /\ thread'[r] # "up" => reported[r] = "none"
                           /\ r > started => thread'[r] = "none"
    BY <1>3 DEF BadgeInv, BadgeTypes
  <2> QED BY <1>1, <2>1 DEF BadgeInv, BadgeTypes
<1>5. reported[started] # "none" => thread[started] = "up"
  BY <1>2 DEF BadgeInv, BadgeTypes
<1>6. BadgeWillTell'
  BY <1>1, <1>5 DEF BadgeInv, BadgeWillTell
<1> QED BY <1>4, <1>6 DEF BadgeInv

\* Every step keeps the badge's due, and paints frames of the current stream only.
LEMMA BadgeStep == QueueInv /\ LatestInv /\ BadgeInv /\ [Next]_vars
                     => BadgeInv' /\ CanvasTakesTheCurrentStream
<1> SUFFICES ASSUME QueueInv, LatestInv, BadgeInv, [Next]_vars
             PROVE  BadgeInv' /\ CanvasTakesTheCurrentStream
  OBVIOUS
<1>1. StreamTypes
  BY DEF LatestInv
<1>2. ASSUME UNCHANGED <<started, events, badge, reported, forwards, thread, canvas>>,
             streaming' => streaming
      PROVE  BadgeInv' /\ CanvasTakesTheCurrentStream
  BY <1>2, BadgeRests DEF CanvasTakesTheCurrentStream
<1>3. CASE StreamStep
  <2>1. CASE Start
    BY <1>1, <2>1, BadgeStart DEF Start, CanvasTakesTheCurrentStream
  <2>2. CASE Stop
    BY <1>2, <2>2 DEF Stop, notices, renderer
  <2>3. CASE DeliverEvent
    BY <1>1, <2>3, BadgeDelivers DEF DeliverEvent, webview, CanvasTakesTheCurrentStream
  <2>4. CASE ExecuteCall
    <3> SUFFICES ASSUME NEW i \in 1..Len(ipc),
                        StartStream(i) \/ StopStream(i) \/ LoadBuiltin(i) \/ LoadChainSources(i)
                 PROVE  BadgeInv' /\ CanvasTakesTheCurrentStream
      BY <2>4 DEF ExecuteCall
    <3>1. CASE StartStream(i)
      BY <1>1, <3>1, BadgeStarted DEF StartStream, webview, CanvasTakesTheCurrentStream
    <3>2. CASE StopStream(i)
      BY <1>2, <3>2 DEF StopStream, webview, notices, renderer
    <3>3. CASE LoadBuiltin(i)
      BY <1>2, <3>3 DEF LoadBuiltin, webview, notices
    <3>4. CASE LoadChainSources(i)
      <4>1. UNCHANGED <<started, streaming, badge, reported, forwards, thread, canvas>>
        BY <3>4 DEF LoadChainSources, webview, notices
      <4>2. CASE UNCHANGED events
        BY <1>2, <4>1, <4>2
      <4>3. CASE events' = Append(events, Event(active, "slangCompile"))
        <5> DEFINE e == Event(active, "slangCompile")
        <5>1. active \in Int
          BY <1>1, StartsAreStreams
        <5>2. e \in Words /\ e.what \notin Statuses
          BY <5>1 DEF Event, Words, Statuses
        <5> HIDE DEF e
        <5>3. events' = Append(events, e)
          BY <4>3 DEF e
        <5> QED BY <4>1, <5>2, <5>3, BadgeOther DEF CanvasTakesTheCurrentStream
      <4> QED BY <3>4, <4>2, <4>3 DEF LoadChainSources
    <3> QED BY <3>1, <3>2, <3>3, <3>4
  <2>5. ASSUME NEW s \in Streams, DeliverFrame(s) PROVE BadgeInv' /\ CanvasTakesTheCurrentStream
    <3>1. BadgeInv'
      BY <2>5, BadgeRests DEF DeliverFrame, notices, renderer
    <3>2. CanvasTakesTheCurrentStream
      BY <2>5 DEF DeliverFrame, CanvasTakesTheCurrentStream, QueueInv, OwnsTheLast
    <3> QED BY <3>1, <3>2
  <2>6. ASSUME NEW s \in Streams, ThreadStep(s) \/ Forward(s)
        PROVE  BadgeInv' /\ CanvasTakesTheCurrentStream
    <3>1. UNCHANGED canvas
      BY <2>6 DEF ThreadStep, RendererUnavailable, RenderFrame, EndThread, Forward, webview
    <3> QED BY <1>1, <2>6, <3>1, BadgeThreads DEF CanvasTakesTheCurrentStream
  <2> QED BY <1>3, <2>1, <2>2, <2>3, <2>4, <2>5, <2>6 DEF StreamStep
<1>4. ASSUME NEW k \in Kinds, Edit(k) PROVE BadgeInv' /\ CanvasTakesTheCurrentStream
  BY <1>2, <1>4 DEF Edit, streamVars, webview, notices, renderer
<1>5. ASSUME NEW v, Apply(v) PROVE BadgeInv' /\ CanvasTakesTheCurrentStream
  BY <1>2, <1>5 DEF Apply, webview, renderer
<1>6. ASSUME UNCHANGED streamVars PROVE BadgeInv' /\ CanvasTakesTheCurrentStream
  BY <1>2, <1>6 DEF streamVars, webview, notices, renderer
<1>7. CASE TimerFires
  BY <1>5, <1>6, <1>7 DEF TimerFires
<1>8. ASSUME NEW v \in Versions, Compiled(v) \/ Rejected(v)
      PROVE  BadgeInv' /\ CanvasTakesTheCurrentStream
  BY <1>5, <1>6, <1>8 DEF Compiled, Rejected
<1>9. CASE UNCHANGED vars
  BY <1>6, <1>9 DEF vars
<1> QED BY <1>3, <1>4, <1>7, <1>8, <1>9 DEF Next

\* Nothing has been reported.
LEMMA BadgeInit == Init => BadgeInv
<1> SUFFICES ASSUME Init PROVE BadgeInv
  OBVIOUS
<1>1. /\ events = << >> /\ reported = [s \in Streams |-> "none"]
      /\ forwards = [s \in Streams |-> << >>] /\ thread = [s \in Streams |-> "none"] /\ started = 1
  BY DEF Init, StreamsInit
<1>2. events \in Seq(Words) /\ << >> \in Seq(Statuses)
  BY <1>1
<1>3. forwards \in [Streams -> Seq(Statuses)]
  BY <1>1, <1>2
<1>4. 1 \in Streams
  BY StreamBounds DEF Streams
<1> QED BY <1>1, <1>2, <1>3, <1>4 DEF BadgeInv, BadgeTypes, BadgeWillTell

(* Whatever was started and stopped before, and however late the last words and     *)
(* frames of older streams arrive: at rest the badge has the status which the       *)
(* stream of the canvas reported last, and the canvas paints frames of that stream  *)
(* only (the filter of useEngineEvents and the cancelled channels of PreviewCanvas).*)
THEOREM CurrentStreamShown == Spec => ShowsTheCurrentStream
<1>1. StreamTypes /\ BadgeInv => BadgeIsOfTheCurrentStream
  <2> SUFFICES ASSUME StreamTypes, BadgeInv, Quiet, Renders, reported[started] # "none"
               PROVE  badge = reported[started]
    BY DEF BadgeIsOfTheCurrentStream
  <2>1. /\ streaming /\ thread[started] = "up" /\ events = << >> /\ forwards[started] = << >>
    BY DEF Quiet, Renders, StreamTypes
  <2>2. WillSay(events, started, reported[started], badge)
    BY <2>1 DEF BadgeInv, BadgeWillTell
  <2>3. \A i \in 1..Len(events) : FALSE
    BY <2>1
  <2> QED BY <2>2, <2>3 DEF WillSay
<1>2. LatestInv => StreamTypes
  BY DEF LatestInv
<1>3. QueueInv /\ LatestInv /\ BadgeInv /\ [Next]_vars => CanvasTakesTheCurrentStream
  BY BadgeStep
<1>4. Init => QueueInv /\ LatestInv /\ BadgeInv
  BY QueueInit, LatestInit, BadgeInit
<1>5. QueueInv /\ LatestInv /\ BadgeInv /\ [Next]_vars => (QueueInv /\ LatestInv /\ BadgeInv)'
  BY QueueStep, LatestStep, BadgeStep
<1> QED BY <1>1, <1>2, <1>3, <1>4, <1>5, PTL DEF Spec, ShowsTheCurrentStream

-----------------------------------------------------------------------------
(* Whole-number division.                                                   *)

LEMMA Quotient ==
  ASSUME NEW a \in Int, NEW b \in Nat \ {0}
  PROVE  /\ a \div b \in Int
         /\ (a \div b) * b <= a
         /\ a < (a \div b) * b + b
  OBVIOUS

\* The quotient is the only number with these two bounds.
LEMMA OnlyQuotient ==
  ASSUME NEW a \in Int, NEW b \in Nat \ {0}, NEW q \in Int, q * b <= a, a < q * b + b
  PROVE  a \div b = q
<1> DEFINE d == a \div b
<1>1. d \in Int /\ d * b <= a /\ a < d * b + b  BY Quotient
<1> HIDE DEF d
<1>2. CASE d < q
  <2>1. (d + 1) * b <= q * b  BY <1>1, <1>2, SMT
  <2> QED  BY <1>1, <2>1, SMT
<1>3. CASE q < d
  <2>1. (q + 1) * b <= d * b  BY <1>1, <1>3, SMT
  <2> QED  BY <1>1, <2>1, SMT
<1> QED  BY <1>1, <1>2, <1>3 DEF d

\* Rounding is off by half a unit at most.
LEMMA Rounded ==
  ASSUME NEW a \in Nat, NEW b \in Nat \ {0}
  PROVE  /\ RoundDiv(a, b) \in Nat
         /\ 2 * (RoundDiv(a, b) * b) <= 2 * a + b
         /\ 2 * a < 2 * (RoundDiv(a, b) * b) + b
<1> DEFINE q == (2 * a + b) \div (2 * b)
<1>1. 2 * a + b \in Int /\ 2 * b \in Nat \ {0}  OBVIOUS
<1>2. q \in Int /\ q * (2 * b) <= 2 * a + b /\ 2 * a + b < q * (2 * b) + 2 * b
  BY <1>1, Quotient
<1> HIDE DEF q
<1>3. q * (2 * b) = 2 * (q * b)  BY <1>2
<1>4. q >= 0
  <2> SUFFICES ASSUME q <= -1 PROVE FALSE  BY <1>2
  <2>1. (q + 1) * (2 * b) <= 0  BY <1>2, SMT
  <2>2. (q + 1) * (2 * b) = q * (2 * b) + 2 * b  BY <1>2, SMT
  <2> QED  BY <1>2, <2>1, <2>2
<1>5. q = RoundDiv(a, b)  BY DEF q, RoundDiv
<1> QED  BY <1>2, <1>3, <1>4, <1>5

\* Rounding keeps the order.
LEMMA RoundsInOrder ==
  ASSUME NEW a \in Nat, NEW b \in Nat \ {0}, NEW c \in Nat, a <= c * b
  PROVE  RoundDiv(a, b) <= c
<1> DEFINE q == RoundDiv(a, b)
<1>1. q \in Nat /\ 2 * (q * b) <= 2 * a + b  BY Rounded
<1> HIDE DEF q
<1>2. SUFFICES ASSUME c + 1 <= q PROVE FALSE  BY <1>1 DEF q
<1>3. (c + 1) * b <= q * b  BY <1>1, <1>2, SMT
<1>4. (c + 1) * b = c * b + b  BY SMT
<1> QED  BY <1>1, <1>3, <1>4, SMT

-----------------------------------------------------------------------------
(* The content rectangle.                                                   *)

\* Pixel counts of a picture, none of them zero.
Counts == Nat \ {0}
Sizes  == Counts \X Counts

\* One axis of a rectangle centered in the output.
LEMMA Centered ==
  ASSUME NEW out \in Counts, NEW fit \in Nat, NEW w, w = Clamp(fit, 1, out)
  PROVE  /\ w \in 1..out
         /\ (out - w) \div 2 \in Nat
         /\ (out - w) - (out - w) \div 2 - (out - w) \div 2 \in {0, 1}
  BY DEF Counts, Clamp, Lesser, Greater

\* An image that fits is not clamped.
LEMMA Unclamped ==
  ASSUME NEW out \in Counts, NEW fit \in 1..out
  PROVE  Clamp(fit, 1, out) = fit
  BY DEF Counts, Clamp, Lesser, Greater

\* How often the source goes into one axis of the output.
LEMMA Multiples ==
  ASSUME NEW o \in Counts, NEW s \in Counts, s <= o, NEW q, q = o \div s
  PROVE  /\ q \in 1..o
         /\ q * s <= o
         /\ \A n \in Int : n <= q => n * s <= o
         /\ (q + 1) * s > o
<1>1. q \in Int /\ q * s <= o /\ o < q * s + s
  <2>1. o \in Int /\ s \in Nat \ {0}  BY DEF Counts
  <2> QED  BY <2>1, Quotient
<1>2. (q + 1) * s > o
  <2>1. (q + 1) * s = q * s + s  BY <1>1, SMT DEF Counts
  <2> QED  BY <1>1, <2>1
<1>3. q >= 1
  <2> SUFFICES ASSUME q + 1 <= 1 PROVE FALSE  BY <1>1
  <2>1. (q + 1) * s <= 1 * s  BY <1>1, SMT DEF Counts
  <2> QED  BY <1>2, <2>1, SMT DEF Counts
<1>4. q <= o
  <2>1. q * 1 <= q * s  BY <1>1, <1>3, SMT DEF Counts
  <2> QED  BY <1>1, <2>1, SMT DEF Counts
<1>5. ASSUME NEW n \in Int, n <= q PROVE n * s <= o
  <2>1. n * s <= q * s  BY <1>1, <1>5, SMT DEF Counts
  <2> QED  BY <1>1, <2>1, SMT DEF Counts
<1> QED  BY <1>1, <1>2, <1>3, <1>4, <1>5 DEF Counts

\* The largest multiple of the source that fits in the output.
LEMMA LargestMultiple ==
  ASSUME NEW out \in Sizes, NEW src \in Sizes, \A a \in Axes : src[a] <= out[a]
  PROVE  \E n \in 1..Greater(out[1], out[2]) :
           /\ IntegerFit(out, src) = <<src[1] * n, src[2] * n>>
           /\ \A a \in Axes : n * src[a] <= out[a]
           /\ \E a \in Axes : (n + 1) * src[a] > out[a]
<1> DEFINE p == out[1] \div src[1]
           q == out[2] \div src[2]
           n == Greater(Lesser(p, q), 1)
<1>0. /\ out[1] \in Counts /\ out[2] \in Counts /\ src[1] \in Counts /\ src[2] \in Counts
      /\ src[1] <= out[1] /\ src[2] <= out[2]
  BY DEF Sizes, Axes
<1>1. /\ p \in 1..out[1] /\ (p + 1) * src[1] > out[1]
      /\ \A k \in Int : k <= p => k * src[1] <= out[1]
  BY <1>0, Multiples
<1>2. /\ q \in 1..out[2] /\ (q + 1) * src[2] > out[2]
      /\ \A k \in Int : k <= q => k * src[2] <= out[2]
  BY <1>0, Multiples
<1>3. IntegerFit(out, src) = <<src[1] * n, src[2] * n>>
  BY DEF IntegerFit
<1> HIDE DEF p, q
<1>4. n \in Int /\ n <= p /\ n <= q /\ (n = p \/ n = q) /\ n \in 1..Greater(out[1], out[2])
  BY <1>0, <1>1, <1>2 DEF Greater, Lesser, Counts
<1> HIDE DEF n
<1>5. n * src[1] <= out[1] /\ n * src[2] <= out[2]
  BY <1>1, <1>2, <1>4
<1>6. (n + 1) * src[1] > out[1] \/ (n + 1) * src[2] > out[2]
  BY <1>1, <1>2, <1>4
<1> QED  BY <1>3, <1>4, <1>5, <1>6 DEF Axes

\* Scaled to an axis of length o, an image of length s by t has a side of length
\* t o / s, to within half a pixel; it fits in p if the exact length does.
LEMMA Scaled ==
  ASSUME NEW o \in Counts, NEW p \in Counts, NEW s \in Counts, NEW t \in Counts,
         t * o <= p * s
  PROVE  \E fit \in 0..p :
           /\ RoundDiv(t * o, s) = fit
           /\ 2 * (fit * s - t * o) <= s /\ - (2 * (fit * s - t * o)) <= s
<1> DEFINE fit == RoundDiv(t * o, s)
<1>1. t * o \in Nat /\ s \in Nat \ {0} /\ p \in Nat  BY DEF Counts
<1>2. fit \in Nat /\ 2 * (fit * s) <= 2 * (t * o) + s /\ 2 * (t * o) < 2 * (fit * s) + s
  BY <1>1, Rounded
<1>3. fit <= p
  BY <1>1, RoundsInOrder
<1> HIDE DEF fit
<1>4. fit * s \in Int /\ t * o \in Int /\ s \in Int  BY <1>1, <1>2
<1>5. 2 * (fit * s - t * o) <= s /\ - (2 * (fit * s - t * o)) <= s
  BY <1>2, <1>4
<1> QED  BY <1>1, <1>2, <1>3, <1>5 DEF fit

-----------------------------------------------------------------------------
(* What the commands leave of the geometry.                                 *)

Viewports == {NoViewport} \cup {Config(w, h, i) : w \in Nat, h \in Nat, i \in BOOLEAN}

GeometryOK == source \in Sizes /\ pane \in Sizes /\ simulated \in Viewports

LEMMA OutputIsASize ==
  ASSUME NEW cfg \in Viewports
  PROVE  AtLeastOne(cfg.size) \in Sizes /\ cfg.integerScale \in BOOLEAN
<1>1. \A w, h \in Nat : AtLeastOne(<<w, h>>) \in Sizes
  BY DEF AtLeastOne, Greater, Sizes, Counts
<1>2. CASE cfg = NoViewport
  BY <1>1, <1>2 DEF NoViewport
<1>3. CASE \E w \in Nat, h \in Nat, i \in BOOLEAN : cfg = Config(w, h, i)
  BY <1>1, <1>3 DEF Config
<1> QED  BY <1>2, <1>3 DEF Viewports

LEMMA SizesStay ==
  ASSUME NEW size \in Sizes
  PROVE  AtLeastOne(size) = size
<1>1. PICK w \in Counts, h \in Counts : size = <<w, h>>  BY DEF Sizes
<1> QED  BY <1>1 DEF AtLeastOne, Greater, Counts

\* Whatever is loaded, resized or simulated, no size the renderer works with has a
\* zero side (set_viewport raises one to 1, as does the simulated output).
THEOREM GeometryCorrect == InspectorSpec => []GeometryOK
<1>1. InspectorInit => GeometryOK
  <2> SUFFICES ASSUME InspectorInit PROVE GeometryOK
    OBVIOUS
  <2>1. source \in Sizes  BY DimsAssumption DEF InspectorInit, Sizes, Counts
  <2>2. pane \in Sizes  BY DimsAssumption DEF InspectorInit, Sizes, Counts
  <2>3. simulated \in Viewports  BY DEF InspectorInit, Viewports
  <2> QED  BY <2>1, <2>2, <2>3 DEF GeometryOK
<1>2. GeometryOK /\ [InspectorNext]_inspectorVars => GeometryOK'
  <2> SUFFICES ASSUME GeometryOK, [InspectorNext]_inspectorVars PROVE GeometryOK'
    OBVIOUS
  <2>1. ASSUME NEW w \in SrcDims, NEW h \in SrcDims, LoadSource(w, h) PROVE GeometryOK'
    BY <2>1, DimsAssumption DEF LoadSource, GeometryOK, Sizes, Counts
  <2>2. ASSUME NEW w \in PaneDims, NEW h \in PaneDims, ChangePane(w, h) PROVE GeometryOK'
    BY <2>2, DimsAssumption DEF ChangePane, SetViewport, GeometryOK, AtLeastOne, Greater, Sizes, Counts
  <2>3. ASSUME NEW cfg \in Viewports, ChangeSimulated(cfg) PROVE GeometryOK'
    BY <2>3 DEF ChangeSimulated, SetSimulatedViewport, GeometryOK
  <2>4. NoViewport \in Viewports /\ \A w, h \in Dims, i \in BOOLEAN : Config(w, h, i) \in Viewports
    BY DimsAssumption DEF Viewports
  <2>5. CASE UNCHANGED inspectorVars
    BY <2>5 DEF GeometryOK, inspectorVars, geometry
  <2> QED  BY <2>1, <2>2, <2>3, <2>4, <2>5 DEF InspectorNext, ChangeSource, Draw
<1> QED  BY <1>1, <1>2, PTL DEF InspectorSpec

-----------------------------------------------------------------------------
(* Where the image lands.                                                   *)

\* What is fitted into an output is a size, with no axis negative.
LEMMA FitIsASize ==
  ASSUME NEW out \in Sizes, NEW src \in Sizes
  PROVE  IntegerFit(out, src) \in Nat \X Nat /\ AspectFit(out, src) \in Nat \X Nat
<1>0. out[1] \in Counts /\ out[2] \in Counts /\ src[1] \in Counts /\ src[2] \in Counts
  BY DEF Sizes
<1>1. \A a, b, c \in Counts : RoundDiv(a * b, c) \in Nat
  BY Rounded DEF Counts
<1>2. AspectFit(out, src) \in Nat \X Nat
  BY <1>0, <1>1 DEF AspectFit, Counts
<1>3. \A a, b \in Counts : a \div b \in Int
  BY Quotient DEF Counts
<1>4. \A p, q \in Int : Greater(Lesser(p, q), 1) \in Counts
  BY DEF Greater, Lesser, Counts
<1>5. \A a, b \in Counts : a * b \in Nat
  BY DEF Counts
<1>6. PICK n \in Counts : IntegerFit(out, src) = <<src[1] * n, src[2] * n>>
  BY <1>0, <1>3, <1>4 DEF IntegerFit
<1> QED  BY <1>0, <1>2, <1>5, <1>6

\* The rectangle of a fit, along each axis.
LEMMA RectCentered ==
  ASSUME NEW out \in Sizes, NEW fit \in Nat \X Nat, NEW r, r = ContentRectOf(out, fit), NEW a \in Axes
  PROVE  /\ r.size[a] = Clamp(fit[a], 1, out[a])
         /\ r.size[a] \in 1..out[a]
         /\ r.offset[a] \in Nat
         /\ out[a] - r.size[a] - r.offset[a] - r.offset[a] \in {0, 1}
<1>1. out[a] \in Counts /\ fit[a] \in Nat  BY DEF Sizes, Axes
<1>2. r.size[a] = Clamp(fit[a], 1, out[a])
  BY DEF ContentRectOf, Axes
<1>3. r.offset[a] = (out[a] - r.size[a]) \div 2
  BY DEF ContentRectOf, Axes
<1> QED  BY <1>1, <1>2, <1>3, Centered

LEMMA ContentIsPlaced ==
  ASSUME GeometryOK, NEW a \in Axes
  PROVE  /\ Out \in Sizes /\ Out[a] \in Counts
         /\ Rect.size[a] \in 1..Out[a]
         /\ Rect.offset[a] \in Nat
         /\ Out[a] - Rect.size[a] - Rect.offset[a] - Rect.offset[a] \in {0, 1}
<1>1. Out \in Sizes  BY OutputIsASize DEF Out, GeometryOK
<1>2. AtLeastOne(source) = source /\ source \in Sizes  BY SizesStay DEF GeometryOK
<1>3. PICK fit \in Nat \X Nat : Rect = ContentRectOf(Out, fit)
  BY <1>1, <1>2, FitIsASize DEF Rect, Out, ContentRect
<1> QED  BY <1>1, <1>3, RectCentered DEF Sizes, Axes

LEMMA FitsCentered == GeometryOK => ContentFitsCentered
<1> SUFFICES ASSUME GeometryOK, NEW a \in Axes
             PROVE  Rect.size[a] >= 1 /\ RightBar(a) >= 0 /\ RightBar(a) - LeftBar(a) \in {0, 1}
  BY DEF ContentFitsCentered
<1>1. /\ Out[a] \in Counts /\ Rect.size[a] \in 1..Out[a] /\ Rect.offset[a] \in Nat
      /\ Out[a] - Rect.size[a] - Rect.offset[a] - Rect.offset[a] \in {0, 1}
  BY ContentIsPlaced
<1> QED  BY <1>1 DEF RightBar, LeftBar, Counts

LEMMA MultipleIsLargest == GeometryOK => LargestIntegerMultiple
<1> SUFFICES ASSUME GeometryOK, simulated.integerScale, \A a \in Axes : source[a] <= Out[a]
             PROVE  \E n \in 1..Greater(Out[1], Out[2]) :
                      /\ \A a \in Axes : Rect.size[a] = n * source[a]
                      /\ \E a \in Axes : (n + 1) * source[a] > Out[a]
  BY DEF LargestIntegerMultiple
<1>1. Out \in Sizes /\ source \in Sizes /\ AtLeastOne(source) = source
  BY OutputIsASize, SizesStay DEF Out, GeometryOK
<1>2. PICK n \in 1..Greater(Out[1], Out[2]) :
        /\ IntegerFit(Out, source) = <<source[1] * n, source[2] * n>>
        /\ \A a \in Axes : n * source[a] <= Out[a]
        /\ \E a \in Axes : (n + 1) * source[a] > Out[a]
  BY <1>1, LargestMultiple
<1>3. Rect = ContentRectOf(Out, IntegerFit(Out, source))
  BY <1>1 DEF Rect, Out, ContentRect
<1>4. ASSUME NEW a \in Axes PROVE Rect.size[a] = n * source[a]
  <2>1. Out[a] \in Counts /\ source[a] \in Counts /\ n \in Nat /\ n >= 1
    BY <1>1 DEF Sizes, Axes, Greater, Counts
  <2>2. IntegerFit(Out, source) \in Nat \X Nat
    BY <1>1, FitIsASize
  <2>3. IntegerFit(Out, source)[a] = n * source[a]
    BY <1>2, <2>1 DEF Axes, Counts
  <2>4. Rect.size[a] = Clamp(n * source[a], 1, Out[a])
    BY <1>1, <1>3, <2>2, <2>3, RectCentered
  <2>5. n * source[a] \in 1..Out[a]
    <3>1. n * 1 <= n * source[a]  BY <2>1, SMT DEF Counts
    <3> QED  BY <1>2, <2>1, <3>1 DEF Counts
  <2> QED  BY <2>1, <2>4, <2>5, Unclamped
<1> QED  BY <1>2, <1>4

LEMMA RatioKept == GeometryOK => AspectRatioKept
<1> SUFFICES ASSUME GeometryOK, ~simulated.integerScale
             PROVE  \E a \in Axes :
                      LET b == 3 - a
                          error == 2 * (Rect.size[b] * source[a] - source[b] * Out[a])
                      IN  /\ Rect.size[a] = Out[a]
                          /\ \/ error <= source[a] /\ -error <= source[a]
                             \/ Rect.size[b] = 1 /\ error > 0
  BY DEF AspectRatioKept
<1>1. Out \in Sizes /\ source \in Sizes /\ AtLeastOne(source) = source
  BY OutputIsASize, SizesStay DEF Out, GeometryOK
<1>2. /\ Out[1] \in Counts /\ Out[2] \in Counts /\ source[1] \in Counts /\ source[2] \in Counts
  BY <1>1 DEF Sizes
<1>3. Rect = ContentRectOf(Out, AspectFit(Out, source)) /\ AspectFit(Out, source) \in Nat \X Nat
  BY <1>1, FitIsASize DEF Rect, Out, ContentRect
<1>4. /\ Rect.size[1] = Clamp(AspectFit(Out, source)[1], 1, Out[1])
      /\ Rect.size[2] = Clamp(AspectFit(Out, source)[2], 1, Out[2])
  BY <1>1, <1>3, RectCentered DEF Axes
<1>5. ASSUME NEW o \in Counts, NEW p \in Counts, NEW s \in Counts, NEW t \in Counts,
             t * o <= p * s, NEW w, w = Clamp(RoundDiv(t * o, s), 1, p)
      PROVE  \/ 2 * (w * s - t * o) <= s /\ -(2 * (w * s - t * o)) <= s
             \/ w = 1 /\ 2 * (w * s - t * o) > 0
  <2>1. PICK fit \in 0..p : /\ RoundDiv(t * o, s) = fit
                            /\ 2 * (fit * s - t * o) <= s /\ - (2 * (fit * s - t * o)) <= s
    BY <1>5, Scaled
  <2>2. CASE fit = 0
    <3>1. w = 1  BY <1>5, <2>1, <2>2 DEF Clamp, Lesser, Greater, Counts
    <3>2. 0 * s = 0 /\ 1 * s = s /\ t * o \in Nat /\ s \in Nat  BY DEF Counts
    <3>3. 2 * (t * o) <= s  BY <2>1, <2>2, <3>2
    <3>4. t * o >= 1  BY SMT DEF Counts
    <3> QED  BY <3>1, <3>2, <3>3, <3>4
  <2>3. CASE fit # 0
    <3>1. fit \in 1..p  BY <2>1, <2>3
    <3>2. w = fit  BY <1>5, <2>1, <3>1, Unclamped
    <3> QED  BY <2>1, <3>2
  <2> QED  BY <2>2, <2>3
<1>6. ASSUME NEW o \in Counts PROVE Clamp(o, 1, o) = o
  BY <1>6 DEF Clamp, Lesser, Greater, Counts
<1>7. CASE Out[1] * source[2] <= Out[2] * source[1]
  <2>1. AspectFit(Out, source) = <<Out[1], RoundDiv(source[2] * Out[1], source[1])>>
    BY <1>7 DEF AspectFit
  <2>2. source[2] * Out[1] <= Out[2] * source[1]
    <3>1. source[2] * Out[1] = Out[1] * source[2]  BY <1>2, SMT DEF Counts
    <3> QED  BY <1>7, <3>1
  <2>3. Rect.size[1] = Out[1]  BY <1>2, <1>4, <1>6, <2>1
  <2>4. Rect.size[2] = Clamp(RoundDiv(source[2] * Out[1], source[1]), 1, Out[2])
    BY <1>4, <2>1
  <2>5. \/ /\ 2 * (Rect.size[2] * source[1] - source[2] * Out[1]) <= source[1]
           /\ -(2 * (Rect.size[2] * source[1] - source[2] * Out[1])) <= source[1]
        \/ Rect.size[2] = 1 /\ 2 * (Rect.size[2] * source[1] - source[2] * Out[1]) > 0
    BY <1>2, <1>5, <2>2, <2>4
  <2>6. 1 \in Axes /\ 3 - 1 = 2  BY DEF Axes
  <2> QED  BY <2>3, <2>5, <2>6
<1>8. CASE ~ (Out[1] * source[2] <= Out[2] * source[1])
  <2>1. AspectFit(Out, source) = <<RoundDiv(source[1] * Out[2], source[2]), Out[2]>>
    BY <1>8 DEF AspectFit
  <2>2. source[1] * Out[2] <= Out[1] * source[2]
    <3>1. source[1] * Out[2] = Out[2] * source[1]  BY <1>2, SMT DEF Counts
    <3>2. Out[1] * source[2] \in Int /\ Out[2] * source[1] \in Int  BY <1>2 DEF Counts
    <3> QED  BY <1>8, <3>1, <3>2
  <2>3. Rect.size[2] = Out[2]  BY <1>2, <1>4, <1>6, <2>1
  <2>4. Rect.size[1] = Clamp(RoundDiv(source[1] * Out[2], source[2]), 1, Out[1])
    BY <1>4, <2>1
  <2>5. \/ /\ 2 * (Rect.size[1] * source[2] - source[1] * Out[2]) <= source[2]
           /\ -(2 * (Rect.size[1] * source[2] - source[1] * Out[2])) <= source[2]
        \/ Rect.size[1] = 1 /\ 2 * (Rect.size[1] * source[2] - source[1] * Out[2]) > 0
    BY <1>2, <1>5, <2>2, <2>4
  <2>6. 2 \in Axes /\ 3 - 2 = 1  BY DEF Axes
  <2> QED  BY <2>3, <2>5, <2>6
<1> QED  BY <1>7, <1>8

\* A rectangle drawn along an axis of the pane starts in the pane and ends in it.
LEMMA DrawnInside ==
  ASSUME NEW p \in Counts, NEW o \in Counts, NEW offset \in Nat, NEW length \in 1..o,
         offset + offset + length <= o, NEW c, c = CompositeAxis(p, o, offset, length)
  PROVE  c[1] \in Nat /\ c[2] \in Counts /\ c[1] + c[2] <= p
<1> DEFINE start == RoundDiv(offset * p, o)
           len   == Lesser(RoundDiv(length * p, o), Greater(p - start, 0))
<1>1. c = <<start, Greater(len, 1)>>  BY DEF CompositeAxis
<1>2. o \in Nat \ {0} /\ offset * p \in Nat /\ length * p \in Nat  BY DEF Counts
<1>3. start \in Nat /\ 2 * (start * o) <= 2 * (offset * p) + o  BY <1>2, Rounded
<1>4. RoundDiv(length * p, o) \in Nat  BY <1>2, Rounded
<1> HIDE DEF start
<1>5. start <= p - 1
  <2> SUFFICES ASSUME p <= start PROVE FALSE  BY <1>3 DEF Counts
  <2>1. p * o <= start * o  BY <1>2, <1>3, SMT DEF Counts
  <2>2. 2 * (offset * p) <= (o - 1) * p
    <3>1. 2 * offset <= o - 1  BY <1>2
    <3>2. (2 * offset) * p <= (o - 1) * p  BY <1>2, <3>1, SMT DEF Counts
    <3>3. (2 * offset) * p = 2 * (offset * p)  BY SMT DEF Counts
    <3> QED  BY <3>2, <3>3
  <2>3. (o - 1) * p = p * o - p  BY <1>2, SMT DEF Counts
  <2>4. p * o \in Int /\ start * o \in Int /\ p \in Nat /\ p >= 1  BY <1>2, <1>3 DEF Counts
  <2>5. p * o + p <= o  BY <1>2, <1>3, <2>1, <2>2, <2>3, <2>4
  <2>6. 1 * o <= p * o  BY <1>2, <2>4, SMT
  <2> QED  BY <1>2, <2>4, <2>5, <2>6
<1>6. len \in Nat /\ start + len <= p  BY <1>3, <1>4, <1>5 DEF Lesser, Greater, Counts
<1> HIDE DEF len
<1> QED  BY <1>1, <1>3, <1>5, <1>6 DEF Greater, Counts

\* What the inspector maps by: the rectangle of the image in the pane, and the
\* size of the image, an axis each.
LEMMA MappingIsPlaced ==
  ASSUME GeometryOK, NEW a \in Axes
  PROVE  /\ Mapping.pane[a][1] \in Nat /\ Mapping.pane[a][2] \in Counts
         /\ Mapping.pane[a][1] + Mapping.pane[a][2] <= pane[a]
         /\ Mapping.content[a] \in Counts
         /\ pane[a] \in Counts
<1>0. pane[a] \in Counts /\ pane \in Sizes  BY DEF GeometryOK, Sizes, Axes
<1>1. CASE simulated = NoViewport
  <2>1. Mapping.pane = <<<<0, pane[1]>>, <<0, pane[2]>>>> /\ Mapping.content = pane
    BY <1>1 DEF Mapping, PaneMapping, ViewportSize
  <2> QED  BY <1>0, <2>1 DEF Axes, Counts
<1>2. CASE simulated # NoViewport
  <2>1. /\ Out[a] \in Counts /\ Rect.size[a] \in 1..Out[a] /\ Rect.offset[a] \in Nat
        /\ Out[a] - Rect.size[a] - Rect.offset[a] - Rect.offset[a] \in {0, 1}
    BY ContentIsPlaced
  <2>2. Mapping.pane[a] = CompositeAxis(pane[a], Out[a], Rect.offset[a], Rect.size[a])
    BY <1>2 DEF Mapping, PaneMapping, FinalCompositeRect, Out, Rect, Axes
  <2>3. Mapping.content[a] = Rect.size[a]
    BY <1>2 DEF Mapping, PaneMapping, ViewportSize, Rect
  <2>4. Rect.offset[a] + Rect.offset[a] + Rect.size[a] <= Out[a]
    BY <2>1 DEF Counts
  <2>5. /\ Mapping.pane[a][1] \in Nat /\ Mapping.pane[a][2] \in Counts
        /\ Mapping.pane[a][1] + Mapping.pane[a][2] <= pane[a]
    BY <1>0, <2>1, <2>2, <2>4, DrawnInside
  <2> QED  BY <1>0, <2>1, <2>3, <2>5 DEF Counts
<1> QED  BY <1>1, <1>2

LEMMA CompositeStaysInside == GeometryOK => CompositeInsidePane
  BY MappingIsPlaced DEF CompositeInsidePane, Counts

\* The final image lands where it should, whatever the sizes of the source, of the
\* output and of the pane (viewport.rs, Renderer::final_composite_rect).
THEOREM PlacementRight == InspectorSpec => []PlacementIsRight
<1>1. GeometryOK => PlacementIsRight
  BY FitsCentered, MultipleIsLargest, RatioKept, CompositeStaysInside DEF PlacementIsRight
<1> QED  BY <1>1, GeometryCorrect, PTL

-----------------------------------------------------------------------------
(* What the inspector reports.  Pixel d of the L pixels of the rectangle    *)
(* has its center at (2 d + 1) / 2 L of the way, over S pixels of the image.*)

\* The pixel of the image under a center.
Under(d, L, S) == ((2 * d + 1) * S) \div (2 * L)

LEMMA UnderBounds ==
  ASSUME NEW d \in Nat, NEW L \in Counts, NEW S \in Counts
  PROVE  /\ (2 * d + 1) * S \in Nat
         /\ Under(d, L, S) \in Nat
         /\ Under(d, L, S) * (2 * L) <= (2 * d + 1) * S
         /\ (2 * d + 1) * S < Under(d, L, S) * (2 * L) + 2 * L
<1>1. (2 * d + 1) * S \in Nat /\ 2 * L \in Nat \ {0}  BY SMT DEF Counts
<1>2. /\ Under(d, L, S) \in Int
      /\ Under(d, L, S) * (2 * L) <= (2 * d + 1) * S
      /\ (2 * d + 1) * S < Under(d, L, S) * (2 * L) + 2 * L
  BY <1>1, Quotient DEF Under
<1>3. Under(d, L, S) >= 0
  <2> DEFINE u == Under(d, L, S)
  <2>1. u \in Int /\ (2 * d + 1) * S < u * (2 * L) + 2 * L  BY <1>2
  <2> HIDE DEF u
  <2>2. SUFFICES ASSUME u + 1 <= 0 PROVE FALSE  BY <2>1 DEF u
  <2>3. (u + 1) * (2 * L) <= 0  BY <1>1, <2>1, <2>2, SMT
  <2>4. (u + 1) * (2 * L) = u * (2 * L) + 2 * L  BY <1>1, <2>1, SMT
  <2> QED  BY <1>1, <2>1, <2>3, <2>4
<1> QED  BY <1>1, <1>2, <1>3

\* Further along the rectangle is further along the image.
LEMMA UnderInOrder ==
  ASSUME NEW d \in Nat, NEW e \in Nat, d <= e, NEW L \in Counts, NEW S \in Counts
  PROVE  Under(d, L, S) <= Under(e, L, S)
<1> DEFINE u == Under(d, L, S)
           v == Under(e, L, S)
<1>1. /\ (2 * d + 1) * S \in Nat /\ u \in Nat /\ u * (2 * L) <= (2 * d + 1) * S
      /\ (2 * e + 1) * S \in Nat /\ v \in Nat /\ (2 * e + 1) * S < v * (2 * L) + 2 * L
  BY UnderBounds
<1> HIDE DEF u, v
<1>2. SUFFICES ASSUME v + 1 <= u PROVE FALSE  BY <1>1 DEF u, v
<1>3. (2 * d + 1) * S <= (2 * e + 1) * S  BY SMT DEF Counts
<1>4. (v + 1) * (2 * L) <= u * (2 * L)  BY <1>1, <1>2, SMT DEF Counts
<1>5. (v + 1) * (2 * L) = v * (2 * L) + 2 * L  BY <1>1, SMT DEF Counts
<1>6. u * (2 * L) \in Nat /\ v * (2 * L) \in Nat /\ 2 * L \in Nat  BY <1>1, SMT DEF Counts
<1> QED  BY <1>1, <1>3, <1>4, <1>5, <1>6

\* An image that is not shrunk shows each of its pixels.
LEMMA EveryPixelIsUnder ==
  ASSUME NEW L \in Counts, NEW S \in Counts, S <= L, NEW k \in 0 .. S - 1
  PROVE  \E d \in 0 .. L - 1 : Under(d, L, S) = k
<1> DEFINE top == 2 * L * k + S - 1
           d == top \div (2 * S)
<1>0. S \in Nat /\ S >= 1 /\ L \in Nat /\ L >= 1 /\ k \in Nat /\ k <= S - 1 /\ 2 * L * k \in Nat
  BY SMT DEF Counts
<1>1. top \in Nat /\ 2 * S \in Nat \ {0} /\ 2 * L * k = top - S + 1
  BY <1>0
<1>2. d \in Int /\ d * (2 * S) <= top /\ top < d * (2 * S) + 2 * S
  BY <1>1, Quotient
<1>3. 2 * L * k <= 2 * L * S - 2 * L
  <2>1. (2 * L) * k <= (2 * L) * (S - 1)  BY <1>0, SMT
  <2>2. (2 * L) * (S - 1) = 2 * L * S - 2 * L  BY <1>0, SMT
  <2> QED  BY <2>1, <2>2
<1> HIDE DEF d, top
<1>4. d >= 0
  <2> SUFFICES ASSUME d + 1 <= 0 PROVE FALSE  BY <1>2
  <2>1. (d + 1) * (2 * S) <= 0  BY <1>1, <1>2, SMT
  <2>2. (d + 1) * (2 * S) = d * (2 * S) + 2 * S  BY <1>1, <1>2, SMT
  <2> QED  BY <1>1, <1>2, <2>1, <2>2
<1>5. d <= L - 1
  <2> SUFFICES ASSUME L <= d PROVE FALSE  BY <1>0, <1>2
  <2>1. L * (2 * S) <= d * (2 * S)  BY <1>0, <1>1, <1>2, SMT
  <2>2. L * (2 * S) = 2 * L * S /\ 2 * L * S \in Nat  BY <1>0, SMT
  <2> QED  BY <1>0, <1>1, <1>2, <1>3, <2>1, <2>2
<1>6. (2 * d + 1) * S = d * (2 * S) + S  BY <1>0, <1>2, SMT
<1>7. k * (2 * L) = 2 * L * k  BY <1>0, SMT
<1>8. k * (2 * L) <= (2 * d + 1) * S /\ (2 * d + 1) * S < k * (2 * L) + 2 * L
  <2>1. d * (2 * S) \in Int  BY <1>1, <1>2
  <2> QED  BY <1>0, <1>1, <1>2, <1>6, <1>7, <2>1
<1>9. (2 * d + 1) * S \in Int /\ 2 * L \in Nat \ {0} /\ k \in Int  BY <1>0, <1>2, SMT
<1>10. Under(d, L, S) = k
  BY <1>8, <1>9, OnlyQuotient DEF Under
<1> QED  BY <1>0, <1>2, <1>4, <1>5, <1>10

\* The linear sampler blends the pixel under the center with the one before or
\* after it.
LEMMA UnderIsBlended ==
  ASSUME NEW d \in Nat, NEW L \in Counts, NEW S \in Counts,
         NEW left, left = ((2 * d + 1) * S - L) \div (2 * L)
  PROVE  left \in Int /\ (Under(d, L, S) = left \/ Under(d, L, S) = left + 1)
<1> DEFINE X == (2 * d + 1) * S
           u == Under(d, L, S)
<1>1. X \in Nat /\ u \in Nat /\ u * (2 * L) <= X /\ X < u * (2 * L) + 2 * L
  BY UnderBounds
<1>2. X - L \in Int /\ 2 * L \in Nat \ {0} /\ L \in Nat  BY <1>1 DEF Counts
<1>3. left \in Int /\ left * (2 * L) <= X - L /\ X - L < left * (2 * L) + 2 * L
  BY <1>2, Quotient
<1> HIDE DEF u, X
<1>4. u * (2 * L) \in Int /\ left * (2 * L) \in Int  BY <1>1, <1>2, <1>3
<1>5. left <= u
  <2> SUFFICES ASSUME u + 1 <= left PROVE FALSE  BY <1>1, <1>3
  <2>1. (u + 1) * (2 * L) <= left * (2 * L)  BY <1>1, <1>2, <1>3, SMT
  <2>2. (u + 1) * (2 * L) = u * (2 * L) + 2 * L  BY <1>1, <1>2, SMT
  <2> QED  BY <1>1, <1>2, <1>3, <1>4, <2>1, <2>2
<1>6. u <= left + 1
  <2> SUFFICES ASSUME left + 2 <= u PROVE FALSE  BY <1>1, <1>3
  <2>1. (left + 2) * (2 * L) <= u * (2 * L)  BY <1>1, <1>2, <1>3, SMT
  <2>2. \A m, n \in Int : (m + 2) * n = m * n + 2 * n  BY SMT
  <2>3. left \in Int /\ 2 * L \in Int  BY <1>2, <1>3
  <2>4. (left + 2) * (2 * L) = left * (2 * L) + 2 * (2 * L)  BY ONLY <2>2, <2>3
  <2> QED  BY <1>1, <1>2, <1>3, <1>4, <2>1, <2>4
<1> QED  BY <1>1, <1>3, <1>5, <1>6 DEF u

\* The pixel reported, of a pane pixel on the rectangle.
LEMMA MappedIsUnder ==
  ASSUME NEW axis, axis[1] \in Nat, axis[2] \in Counts, NEW S \in Counts, NEW p \in Int,
         InsideAxis(p, axis)
  PROVE  /\ p - axis[1] \in 0 .. axis[2] - 1
         /\ MapAxis(p, axis, S) = Lesser(Under(p - axis[1], axis[2], S), S - 1)
         /\ MapAxis(p, axis, S) \in 0 .. S - 1
<1>1. p - axis[1] \in 0 .. axis[2] - 1  BY DEF InsideAxis, Counts
<1>2. Under(p - axis[1], axis[2], S) \in Nat  BY <1>1, UnderBounds
<1>3. MapAxis(p, axis, S) = Lesser(Under(p - axis[1], axis[2], S), S - 1)
  BY DEF MapAxis, Under
<1> QED  BY <1>1, <1>2, <1>3 DEF Lesser, Counts

LEMMA ReachesEveryPixel == GeometryOK => InspectorReachesEveryPixel
<1> SUFFICES ASSUME GeometryOK, NEW a \in Axes
             PROVE  LET axis == Mapping.pane[a]
                        size == Mapping.content[a]
                        hit  == [p \in axis[1] .. axis[1] + axis[2] - 1 |-> MapAxis(p, axis, size)]
                    IN  /\ \A p \in DOMAIN hit : hit[p] \in 0 .. size - 1
                        /\ \A p, q \in DOMAIN hit : p <= q => hit[p] <= hit[q]
                        /\ axis[2] >= size => {hit[p] : p \in DOMAIN hit} = 0 .. size - 1
  BY DEF InspectorReachesEveryPixel
<1> DEFINE axis == Mapping.pane[a]
           size == Mapping.content[a]
           hit  == [p \in axis[1] .. axis[1] + axis[2] - 1 |-> MapAxis(p, axis, size)]
<1>1. axis[1] \in Nat /\ axis[2] \in Counts /\ size \in Counts  BY MappingIsPlaced
<1> HIDE DEF axis, size
<1>2. ASSUME NEW p \in axis[1] .. axis[1] + axis[2] - 1
      PROVE  /\ p - axis[1] \in 0 .. axis[2] - 1
             /\ MapAxis(p, axis, size) = Lesser(Under(p - axis[1], axis[2], size), size - 1)
             /\ MapAxis(p, axis, size) \in 0 .. size - 1
  <2>1. p \in Int /\ InsideAxis(p, axis)  BY <1>1 DEF InsideAxis, Counts
  <2> QED  BY <1>1, <2>1, MappedIsUnder
<1>3. ASSUME NEW p \in axis[1] .. axis[1] + axis[2] - 1, NEW q \in axis[1] .. axis[1] + axis[2] - 1,
             p <= q
      PROVE  MapAxis(p, axis, size) <= MapAxis(q, axis, size)
  <2>1. p - axis[1] \in Nat /\ q - axis[1] \in Nat /\ p - axis[1] <= q - axis[1]
    BY <1>1, <1>3 DEF Counts
  <2>2. Under(p - axis[1], axis[2], size) <= Under(q - axis[1], axis[2], size)
    BY <1>1, <2>1, UnderInOrder
  <2>3. Under(p - axis[1], axis[2], size) \in Nat /\ Under(q - axis[1], axis[2], size) \in Nat
    BY <1>1, <2>1, UnderBounds
  <2> QED  BY <1>1, <1>2, <2>2, <2>3 DEF Lesser, Counts
<1>4. ASSUME axis[2] >= size, NEW k \in 0 .. size - 1
      PROVE  \E p \in axis[1] .. axis[1] + axis[2] - 1 : MapAxis(p, axis, size) = k
  <2>1. PICK d \in 0 .. axis[2] - 1 : Under(d, axis[2], size) = k
    BY <1>1, <1>4, EveryPixelIsUnder DEF Counts
  <2>2. axis[1] + d \in axis[1] .. axis[1] + axis[2] - 1 /\ (axis[1] + d) - axis[1] = d
    BY <1>1 DEF Counts
  <2>3. MapAxis(axis[1] + d, axis, size) = Lesser(k, size - 1)
    BY <1>2, <2>1, <2>2
  <2> QED  BY <1>1, <2>2, <2>3 DEF Lesser, Counts
<1>5. DOMAIN hit = axis[1] .. axis[1] + axis[2] - 1 /\ \A p \in DOMAIN hit : hit[p] = MapAxis(p, axis, size)
  OBVIOUS
<1> HIDE DEF hit
<1>6. \A p \in DOMAIN hit : hit[p] \in 0 .. size - 1  BY <1>2, <1>5
<1>7. \A p, q \in DOMAIN hit : p <= q => hit[p] <= hit[q]  BY <1>3, <1>5
<1>8. axis[2] >= size => {hit[p] : p \in DOMAIN hit} = 0 .. size - 1  BY <1>4, <1>5, <1>6
<1> QED  BY <1>6, <1>7, <1>8 DEF hit, axis, size

\* The pixel reported is one of those the sampler blends there.
LEMMA MappedIsBlended ==
  ASSUME NEW axis, axis[1] \in Nat, axis[2] \in Counts, NEW S \in Counts, NEW p \in Int,
         InsideAxis(p, axis)
  PROVE  MapAxis(p, axis, S) \in Blended(p, axis, S)
<1> DEFINE d == p - axis[1]
           left == ((2 * d + 1) * S - axis[2]) \div (2 * axis[2])
           u == Under(d, axis[2], S)
<1>1. d \in Nat /\ MapAxis(p, axis, S) = Lesser(u, S - 1)  BY MappedIsUnder
<1>2. u \in Nat  BY <1>1, UnderBounds
<1>3. left \in Int /\ (u = left \/ u = left + 1)  BY <1>1, UnderIsBlended
<1>4. Blended(p, axis, S) = {Clamp(left, 0, S - 1), Clamp(left + 1, 0, S - 1)}
  BY DEF Blended
<1> HIDE DEF left, u
<1>5. Clamp(u, 0, S - 1) = Lesser(u, S - 1)  BY <1>2 DEF Clamp, Lesser, Greater, Counts
<1> QED  BY <1>1, <1>3, <1>4, <1>5

LEMMA ProbeIsRight == GeometryOK => ProbeNamesTheShownPixel
<1> SUFFICES ASSUME GeometryOK, drawn = {Geometry},
                    NEW x \in 0 .. pane[1] - 1, NEW y \in 0 .. pane[2] - 1
             PROVE  /\ \A r \in Answers(x, y) :
                         r.inside => r.rgba.kind = "image" /\ \A a \in Axes : r.at[a] \in r.rgba.axes[a]
                    /\ InspectPixel(x, y).inside <=> ReadPixelRegion(x, y).kind = "image"
  BY DEF ProbeNamesTheShownPixel, ProbesAgree
<1>0. /\ 1 \in Axes /\ 2 \in Axes /\ \A a \in Axes : a = 1 \/ a = 2
      /\ x \in Int /\ y \in Int /\ pane[1] \in Counts /\ pane[2] \in Counts
  BY DEF Axes, GeometryOK, Sizes
<1>1. \A a \in Axes : /\ Mapping.pane[a][1] \in Nat /\ Mapping.pane[a][2] \in Counts
                      /\ Mapping.content[a] \in Counts
  BY MappingIsPlaced
<1>2. ReadPixelRegion(x, y) = BlitToOffscreen(Geometry, <<x, y>>)
  <2>1. Lesser(x, pane[1] - 1) = x /\ Lesser(y, pane[2] - 1) = y  BY <1>0 DEF Lesser, Counts
  <2>2. drawn # {} /\ (CHOOSE g \in drawn : TRUE) = Geometry  OBVIOUS
  <2> QED  BY <2>1, <2>2 DEF ReadPixelRegion
<1>3. Mapping = PaneMapping(Geometry.simulated, Geometry.source, Geometry.pane)
  BY DEF Mapping, Geometry
<1> DEFINE inside == InsideAxis(x, Mapping.pane[1]) /\ InsideAxis(y, Mapping.pane[2])
<1>4. CASE inside
  <2> DEFINE at == <<MapAxis(x, Mapping.pane[1], Mapping.content[1]),
                     MapAxis(y, Mapping.pane[2], Mapping.content[2])>>
             rgba == [kind |-> "image",
                      axes |-> [a \in {1, 2} |-> Blended(<<x, y>>[a], Mapping.pane[a], Mapping.content[a])]]
  <2>1. ReadPixelRegion(x, y) = rgba
    BY <1>2, <1>3, <1>4 DEF BlitToOffscreen
  <2>2. Greater(Mapping.content[1], 1) = Mapping.content[1] /\ Greater(Mapping.content[2], 1) = Mapping.content[2]
    BY <1>0, <1>1 DEF Greater, Counts
  <2>3. InspectPixel(x, y) = InspectResult(TRUE, at, Mapping.content, rgba)
    BY <1>4, <2>1, <2>2 DEF InspectPixel, MapPanePixel
  <2>4. at[1] \in Blended(x, Mapping.pane[1], Mapping.content[1])
    BY <1>0, <1>1, <1>4, MappedIsBlended
  <2>5. at[2] \in Blended(y, Mapping.pane[2], Mapping.content[2])
    BY <1>0, <1>1, <1>4, MappedIsBlended
  <2>6. rgba.kind = "image" /\ \A a \in Axes : at[a] \in rgba.axes[a]
    BY <2>4, <2>5 DEF Axes
  <2> HIDE DEF at, rgba
  <2> QED  BY <2>1, <2>3, <2>6 DEF Answers, InspectResult
<1>5. CASE ~inside
  <2>1. ReadPixelRegion(x, y) = Bar
    BY <1>2, <1>3, <1>5 DEF BlitToOffscreen
  <2>2. ~InspectPixel(x, y).inside
    BY <1>5 DEF InspectPixel, MapPanePixel, InspectResult
  <2> QED  BY <2>1, <2>2 DEF Answers, InspectResult, Bar
<1> QED  BY <1>4, <1>5

\* A probe reaches every pixel of the image and names the one it read, at every
\* size of the image and the pane (inspect.rs, Renderer::pane_mapping).
THEOREM ProbesRight == InspectorSpec => []ProbesAreRight
<1>1. GeometryOK => ProbesAreRight
  BY ReachesEveryPixel, ProbeIsRight DEF ProbesAreRight
<1> QED  BY <1>1, GeometryCorrect, PTL
=============================================================================
