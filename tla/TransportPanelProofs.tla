------------------------ MODULE TransportPanelProofs ------------------------
(* What holds of the transport panel for any clips, rates, marks and bounds:   *)
(* the past frames the renderer samples, what the panel ends up showing, and   *)
(* the pace of playback.  The invariant IInv has a part for the render thread  *)
(* (ThreadInv: every step moves the pump to a position whose picture and past  *)
(* follow it) and one for the panel (PanelInv: the last report under way tells *)
(* the truth, and with none under way the panel shows it or will).             *)
EXTENDS TransportPanel, SequenceTheorems, TLAPS

\* The renderer samples the pump's frame as soon as it has been given one.
Sampled ==
  /\ primed => HavePump /\ source = Frame(at)
  /\ source # Waiting => source[2] < LengthOf[source[1]] /\ source[3] = cuts
  /\ past # << >> => source # Waiting

\* What was reported last is the position of the pump, unless it is a new one.
Reported == lastPosition = IF primed THEN at ELSE NotReported

\* The last report under way is the position of the pump.
LastReportTells ==
  primed /\ positions # << >> => positions[Len(positions)] = [index |-> at, len |-> Length]

\* With none under way the panel shows it, or will once the seek it sent is applied.
PanelWillShow ==
  primed /\ mirrored /\ positions = << >> =>
    /\ shown.len = Length /\ shown.index < Length
    /\ \/ shown.index = at
       \/ \E i \in 1 .. Len(queue) : queue[i] = [op |-> "seek", arg |-> shown.index]

\* The status reported last tells what the pane shows.
StatusTells == lastStatus # "none" => (lastStatus = "live" <=> pane # Waiting)

\* The last status under way is that one, or the badge shows it unless it was cleared.
Comes(q, status, badge) ==
  \/ (\A i \in 1 .. Len(q) : q[i] \notin Statuses) /\ badge \in {"none", status}
  \/ \E i \in 1 .. Len(q) : /\ q[i] = status /\ status \in Statuses
                            /\ \A j \in i + 1 .. Len(q) : q[j] \notin Statuses

\* What the badge was told, and is still to be told, ends with the last status.
LastStatusComes == Comes(events, lastStatus, statusShown)

-----------------------------------------------------------------------------
(* Arithmetic. *)

\* What a remainder is.
LEMMA Remainder ==
  ASSUME NEW n \in Nat \ {0}, NEW a \in Nat
  PROVE  a % n \in 0 .. n - 1 /\ a = n * (a \div n) + (a % n) /\ a \div n \in Nat
OBVIOUS

\* Numbers below n are their own remainder.
LEMMA SmallRemainder ==
  ASSUME NEW n \in Nat \ {0}, NEW a \in 0 .. n - 1
  PROVE  a % n = a
OBVIOUS

\* Once around changes no remainder.
LEMMA Around ==
  ASSUME NEW n \in Nat \ {0}, NEW a \in Nat
  PROVE  (a + n) % n = a % n
<1> DEFINE d == a \div n
           r == a % n
           e == (a + n) \div n
           s == (a + n) % n
<1>0. a + n \in Nat  OBVIOUS
<1>a. r \in 0 .. n - 1 /\ a = n * d + r /\ d \in Nat  BY Remainder
<1>b. s \in 0 .. n - 1 /\ a + n = n * e + s /\ e \in Nat  BY <1>0, Remainder
<1>1. /\ r \in 0 .. n - 1 /\ a = n * d + r /\ d \in Nat
      /\ s \in 0 .. n - 1 /\ a + n = n * e + s /\ e \in Nat
  BY <1>a, <1>b
<1> HIDE DEF d, r, e, s
<1>2. CASE e = d + 1  BY <1>1, <1>2 DEF r, s
<1>3. CASE e <= d
  <2>1. n * e <= n * d  BY <1>1, <1>3
  <2> QED  BY <1>1, <2>1
<1>4. CASE e >= d + 2
  <2>1. n * e >= n * (d + 2)  BY <1>1, <1>4
  <2>2. n * (d + 2) = n * d + n + n  BY <1>1
  <2> QED  BY <1>1, <2>1, <2>2
<1> QED  BY <1>1, <1>2, <1>3, <1>4

\* The period of any rate is at least a tick.
LEMMA PeriodIsPositive ==
  ASSUME NEW rate \in Rates
  PROVE  AdvancePeriod(rate) \in Nat \ {0}
<1>1. rate \in Nat \ {0}  BY RatesAssumption
<1>2. (2 * TransportFps + rate) \div (2 * rate) \in Int  BY <1>1 DEF TransportFps
<1> QED  BY <1>2 DEF AdvancePeriod

\* A clip has a frame, and so has what plays in its absence.
LEMMA LengthIsPositive ==
  ASSUME NEW c \in Clips
  PROVE  LengthOf[c] \in Nat \ {0}
BY ClipsAssumption

-----------------------------------------------------------------------------
(* Statuses on their way to the badge. *)

\* What the engine says besides positions.
Words == Statuses \cup {"readback"}

\* An error that joins the statuses under way changes nothing.
LEMMA ErrorJoins ==
  ASSUME NEW q \in Seq(Words), NEW status, NEW badge, Comes(q, status, badge)
  PROVE  Append(q, "readback") \in Seq(Words) /\ Comes(Append(q, "readback"), status, badge)
<1> DEFINE r == Append(q, "readback")
<1>1. "readback" \in Words /\ "readback" \notin Statuses  BY DEF Words, Statuses
<1>2. /\ r \in Seq(Words) /\ Len(r) = Len(q) + 1 /\ Len(q) \in Nat
      /\ \A i \in 1 .. Len(q) : r[i] = q[i]
      /\ r[Len(q) + 1] = "readback"
  BY <1>1, AppendProperties, LenProperties
<1> HIDE DEF r
<1>3. CASE \A i \in 1 .. Len(q) : q[i] \notin Statuses
  <2>1. \A i \in 1 .. Len(r) : r[i] \notin Statuses  BY <1>1, <1>2, <1>3
  <2>2. CASE badge \in {"none", status}  BY <1>2, <2>1, <2>2 DEF Comes
  <2>3. CASE badge \notin {"none", status}  BY <1>3, <2>3 DEF Comes
  <2> QED  BY <1>2, <2>2, <2>3 DEF r
<1>4. ASSUME NEW i \in 1 .. Len(q), q[i] = status, status \in Statuses,
             \A j \in i + 1 .. Len(q) : q[j] \notin Statuses
      PROVE  Comes(r, status, badge)
  <2>1. i \in 1 .. Len(r) /\ r[i] = status /\ \A j \in i + 1 .. Len(r) : r[j] \notin Statuses
    BY <1>1, <1>2, <1>4
  <2> QED  BY <1>4, <2>1 DEF Comes
<1> QED  BY <1>2, <1>3, <1>4 DEF Comes, r

\* A status that joins them is the last.
LEMMA StatusJoins ==
  ASSUME NEW q \in Seq(Words), NEW status \in Statuses, NEW badge
  PROVE  Append(q, status) \in Seq(Words) /\ Comes(Append(q, status), status, badge)
<1>1. status \in Words  BY DEF Words
<1>2. /\ Append(q, status) \in Seq(Words) /\ Len(Append(q, status)) = Len(q) + 1 /\ Len(q) \in Nat
      /\ Append(q, status)[Len(q) + 1] = status
  BY <1>1, AppendProperties, LenProperties
<1> QED  BY <1>2 DEF Comes

\* A status that arrives is shown, and what is left still ends with the last.
LEMMA StatusArrives ==
  ASSUME NEW q \in Seq(Words), NEW status, NEW badge, Comes(q, status, badge), q # << >>
  PROVE  Comes(Tail(q), status, IF Head(q) \in Statuses THEN Head(q) ELSE badge)
<1> DEFINE r == Tail(q)
           b == IF Head(q) \in Statuses THEN Head(q) ELSE badge
<1>1. /\ r \in Seq(Words) /\ Len(r) = Len(q) - 1 /\ Len(q) \in Nat \ {0} /\ Head(q) = q[1]
      /\ \A i \in 1 .. Len(r) : r[i] = q[i + 1]
  BY HeadTailProperties, EmptySeq, LenProperties
<1> HIDE DEF r
<1>2. CASE (\A i \in 1 .. Len(q) : q[i] \notin Statuses) /\ badge \in {"none", status}
  <2>1. \A i \in 1 .. Len(r) : r[i] \notin Statuses  BY <1>1, <1>2
  <2>2. b = badge  BY <1>1, <1>2
  <2> QED  BY <1>2, <2>1, <2>2 DEF Comes, r
<1>3. ASSUME NEW i \in 1 .. Len(q), q[i] = status, status \in Statuses,
             \A j \in i + 1 .. Len(q) : q[j] \notin Statuses
      PROVE  Comes(r, status, b)
  <2>1. CASE i = 1
    <3>1. \A j \in 1 .. Len(r) : r[j] \notin Statuses  BY <1>1, <1>3, <2>1
    <3>2. b = status  BY <1>1, <1>3, <2>1
    <3> QED  BY <3>1, <3>2 DEF Comes
  <2>2. CASE i # 1
    <3>1. i - 1 \in 1 .. Len(r) /\ r[i - 1] = status  BY <1>1, <1>3, <2>2
    <3>2. \A j \in (i - 1) + 1 .. Len(r) : j + 1 \in i + 1 .. Len(q) /\ r[j] = q[j + 1]
      BY <1>1
    <3>3. \A j \in (i - 1) + 1 .. Len(r) : r[j] \notin Statuses  BY <1>3, <3>2
    <3> QED  BY <1>3, <3>1, <3>3 DEF Comes
  <2> QED  BY <2>1, <2>2
<1> QED  BY <1>2, <1>3 DEF Comes, r

\* ReportStatus keeps them so.
LEMMA ReportsCome ==
  ASSUME events \in Seq(Words), LastStatusComes, NEW status \in Statuses,
         NEW errors, errors \in {<< >>, <<"readback">>}, ReportStatus(status, errors),
         UNCHANGED statusShown
  PROVE  events' \in Seq(Words) /\ LastStatusComes' /\ lastStatus' = status
<1> DEFINE q == events \o errors
<1>0. "readback" \in Words /\ status \in Words  BY DEF Words
<1>1. q = events \/ q = Append(events, "readback")
  <2>1. events \o << >> = events  BY ConcatEmptySeq
  <2>2. events \o <<"readback">> = Append(events, "readback")  BY <1>0, AppendIsConcat
  <2> QED  BY <2>1, <2>2
<1>2. q \in Seq(Words) /\ Comes(q, lastStatus, statusShown)
  BY <1>1, ErrorJoins DEF LastStatusComes
<1>3. /\ lastStatus' = status
      /\ events' = q \o (IF lastStatus = status THEN << >> ELSE <<status>>)
  BY DEF ReportStatus
<1> HIDE DEF q
<1>4. CASE lastStatus = status
  <2>1. events' = q  BY <1>2, <1>3, <1>4, ConcatEmptySeq
  <2> QED  BY <1>2, <1>3, <1>4, <2>1 DEF LastStatusComes
<1>5. CASE lastStatus # status
  <2>1. events' = Append(q, status)  BY <1>0, <1>2, <1>3, <1>5, AppendIsConcat
  <2>2. events' \in Seq(Words) /\ Comes(events', status, statusShown)
    BY <1>2, <2>1, StatusJoins
  <2> QED  BY <1>3, <2>2 DEF LastStatusComes
<1> QED  BY <1>4, <1>5

-----------------------------------------------------------------------------
(* Moves of the pump. *)

\* What a move makes of position, picture and reports.
PumpTypes ==
  /\ clip \in Clips \cup {NoClip} /\ at \in Nat /\ (HavePump => at < Length)
  /\ primed \in BOOLEAN /\ cuts \in Nat
  /\ source \in Images \cup {Waiting} /\ past \in Seq(Images) /\ Len(past) <= Depth
  /\ lastPosition \in Nat \cup {NotReported} /\ positions \in Seq(Positions)

\* No past frame is from before the last jump.
PastIsOfTheCut == \A k \in DOMAIN past : past[k][3] = cuts

\* All that a move of the pump (prime, seek, advance) has to keep.
Moved ==
  /\ PumpTypes /\ Sampled /\ HistoryIsContiguous /\ PastIsOfTheCut /\ Reported /\ LastReportTells

\* A move that leaves no report under way made none, and left the pump where it was.
Told == positions' = << >> => positions = << >> /\ at' = at /\ primed /\ primed'

\* A frame of the pump is an image.
LEMMA FrameIsImage ==
  ASSUME NEW c \in Clips, NEW i \in Nat, NEW k \in Nat
  PROVE  /\ <<c, i, k>> \in Images /\ <<c, i, k>> # Waiting
         /\ <<c, i, k>>[1] = c /\ <<c, i, k>>[2] = i /\ <<c, i, k>>[3] = k
BY MarksAssumption DEF Images

\* ReportPosition of the new position.
LEMMA ReportTells ==
  ASSUME PumpTypes, Reported, LastReportTells, HavePump, NEW i \in 0 .. Length - 1,
         ReportPosition(i), at' = i, primed' = TRUE, UNCHANGED clip
  PROVE  /\ Reported' /\ LastReportTells' /\ Told
         /\ lastPosition' \in Nat \cup {NotReported} /\ positions' \in Seq(Positions)
<1>0. clip \in Clips /\ Length \in Nat \ {0} /\ Length' = Length /\ i \in Nat
  BY LengthIsPositive DEF PumpTypes, HavePump, Length
<1>1. Reported' /\ lastPosition' \in Nat \cup {NotReported}
  BY <1>0 DEF ReportPosition, Reported
<1>2. CASE lastPosition = i
  <2>1. primed /\ at = i  BY <1>0, <1>2, MarksAssumption DEF Reported, PumpTypes
  <2>2. positions' = positions  BY <1>2 DEF ReportPosition
  <2> QED  BY <1>0, <1>1, <2>1, <2>2 DEF LastReportTells, Told, PumpTypes
<1>3. CASE lastPosition # i
  <2> DEFINE p == [index |-> i, len |-> Length]
  <2>1. positions' = Append(positions, p) /\ p \in Positions /\ positions \in Seq(Positions)
    BY <1>0, <1>3 DEF ReportPosition, Positions, PumpTypes
  <2> HIDE DEF p
  <2>2. /\ positions' \in Seq(Positions) /\ positions' # << >>
        /\ Len(positions') = Len(positions) + 1 /\ positions'[Len(positions) + 1] = p
    BY <2>1, AppendProperties
  <2>3. positions'[Len(positions')] = [index |-> at', len |-> Length']
    BY <1>0, <2>2 DEF p
  <2> QED  BY <1>1, <2>2, <2>3 DEF LastReportTells, Told
<1> QED  BY <1>2, <1>3

\* No move.
LEMMA HoldMoves ==
  ASSUME Moved, Hold, UNCHANGED <<clip, cuts>>
  PROVE  Moved' /\ (primed => Told)
BY DEF Moved, Hold, PumpTypes, Sampled, HistoryIsContiguous, PastIsOfTheCut, Reported, LastReportTells,
   Told, HavePump, Length, Frame

\* The first frame of a pump starts the history over.
LEMMA PrimeMoves ==
  ASSUME Moved, Prime, HavePump, ~primed, UNCHANGED <<clip, cuts>>
  PROVE  Moved' /\ Told /\ primed' /\ source' = Frame(at)'
<1>0. clip \in Clips /\ Length \in Nat \ {0} /\ Length' = Length /\ at \in 0 .. Length - 1 /\ cuts \in Nat
  BY LengthIsPositive DEF Moved, PumpTypes, HavePump, Length
<1>1. /\ at' = at /\ primed' = TRUE /\ past' = << >> /\ source' = <<clip, at, cuts>>
      /\ ReportPosition(at)
  BY DEF Prime, SetSource, Frame
<1>2. /\ Reported' /\ LastReportTells' /\ Told
      /\ lastPosition' \in Nat \cup {NotReported} /\ positions' \in Seq(Positions)
  BY <1>0, <1>1, ReportTells DEF Moved
<1>3. source' \in Images /\ source' # Waiting /\ source'[1] = clip /\ source'[2] = at /\ source'[3] = cuts
  BY <1>0, <1>1, FrameIsImage
<1>4. past' \in Seq(Images) /\ Len(past') = 0 /\ DOMAIN past' = {}
  BY <1>1, EmptySeq
<1>5. PumpTypes'
  BY <1>0, <1>1, <1>2, <1>3, <1>4, DepthAssumption DEF PumpTypes, HavePump, Moved
<1>6. source' = Frame(at)'  BY <1>1 DEF Frame
<1>7. Sampled'  BY <1>0, <1>1, <1>3, <1>6 DEF Sampled, HavePump, Length
<1>8. HistoryIsContiguous' /\ PastIsOfTheCut'
  BY <1>4 DEF HistoryIsContiguous, PastIsOfTheCut
<1> QED  BY <1>1, <1>2, <1>5, <1>6, <1>7, <1>8 DEF Moved

\* A seek starts it over at any position, in a new stretch.
LEMMA SeekMoves ==
  ASSUME Moved, HavePump, NEW i \in Nat, at' = i % Length, primed' = TRUE, cuts' = cuts + 1,
         source' = <<clip, i % Length, cuts + 1>>, past' = << >>,
         ReportPosition(i % Length), UNCHANGED clip
  PROVE  Moved' /\ Told
<1>0. clip \in Clips /\ Length \in Nat \ {0} /\ Length' = Length /\ cuts + 1 \in Nat
  BY LengthIsPositive DEF Moved, PumpTypes, HavePump, Length
<1> DEFINE a == i % Length
<1>1. a \in 0 .. Length - 1 /\ a \in Nat  BY <1>0, Remainder
<1>a. at' = a /\ source' = <<clip, a, cuts + 1>> /\ ReportPosition(a)  OBVIOUS
<1> HIDE DEF a
<1>2. /\ Reported' /\ LastReportTells' /\ Told
      /\ lastPosition' \in Nat \cup {NotReported} /\ positions' \in Seq(Positions)
  BY <1>0, <1>1, <1>a, ReportTells DEF Moved
<1>3. source' \in Images /\ source' # Waiting /\ source'[1] = clip /\ source'[2] = a /\ source'[3] = cuts'
  BY <1>0, <1>1, <1>a, FrameIsImage
<1>4. past' \in Seq(Images) /\ Len(past') = 0 /\ DOMAIN past' = {}
  BY EmptySeq
<1>5. PumpTypes'
  BY <1>0, <1>1, <1>a, <1>2, <1>3, <1>4, DepthAssumption DEF PumpTypes, HavePump, Moved
<1>6. source' = Frame(at)'  BY <1>a DEF Frame
<1>7. Sampled'  BY <1>0, <1>1, <1>a, <1>3, <1>6 DEF Sampled, HavePump, Length
<1>8. HistoryIsContiguous' /\ PastIsOfTheCut'
  BY <1>4 DEF HistoryIsContiguous, PastIsOfTheCut
<1> QED  BY <1>2, <1>5, <1>7, <1>8 DEF Moved

\* One frame on, every frame of the past is one further back.
LEMMA OneFurtherBack ==
  ASSUME NEW n \in Nat \ {0}, NEW s \in 0 .. n - 1, NEW k \in Nat
  PROVE  (((s + 1) % n) + (k + 1) * (n - 1)) % n = (s + k * (n - 1)) % n
<1> DEFINE a == s + k * (n - 1)
<1>1. k * (n - 1) \in Nat  OBVIOUS
<1>2. a \in Nat  BY <1>1
<1>3. CASE s + 1 < n
  <2>1. s + 1 \in 0 .. n - 1  BY <1>3
  <2>2. (s + 1) % n = s + 1  BY <2>1, SmallRemainder
  <2>3. (k + 1) * (n - 1) = k * (n - 1) + (n - 1)  OBVIOUS
  <2>4. ((s + 1) % n) + (k + 1) * (n - 1) = a + n  BY <1>1, <2>2, <2>3
  <2>5. (a + n) % n = a % n  BY <1>2, Around
  <2> QED  BY <2>4, <2>5
<1>4. CASE s + 1 = n
  <2>1. n \in Nat /\ n % n = 0  BY Around, SmallRemainder
  <2>2. (k + 1) * (n - 1) = k * (n - 1) + (n - 1)  OBVIOUS
  <2>3. ((s + 1) % n) + (k + 1) * (n - 1) = a  BY <1>1, <1>4, <2>1, <2>2
  <2> QED  BY <2>3
<1> QED  BY <1>3, <1>4

\* The frame before joins the history, of which as much is kept as the chain wants.
LEMMA AdvanceMoves ==
  ASSUME Moved, AdvancePump, HavePump, primed, UNCHANGED <<clip, cuts>>
  PROVE  Moved' /\ Told /\ source' = Frame(at)'
<1>0. /\ clip \in Clips /\ Length \in Nat \ {0} /\ Length' = Length /\ at \in 0 .. Length - 1
      /\ cuts \in Nat /\ at \in Nat /\ past \in Seq(Images) /\ cuts' = cuts /\ clip' = clip
  BY LengthIsPositive DEF Moved, PumpTypes, HavePump, Length
<1>1. source = <<clip, at, cuts>>  BY DEF Moved, Sampled, Frame
<1>2. source \in Images /\ source # Waiting /\ source[1] = clip /\ source[2] = at /\ source[3] = cuts
  BY <1>0, <1>1, FrameIsImage
<1> DEFINE n == NextIndex
           r == <<source>> \o past
           m == Lesser(Depth, Len(past) + 1)
<1>3. n \in 0 .. Length - 1 /\ n \in Nat /\ n = (at + 1) % Length
  BY <1>0, Remainder DEF NextIndex
<1>a. /\ at' = n /\ source' = <<clip, n, cuts>> /\ past' = SubSeq(r, 1, m)
      /\ primed' = TRUE /\ ReportPosition(n)
  BY <1>2 DEF AdvancePump, AdvanceSource, Frame, Moved, PumpTypes
<1> HIDE DEF n
<1>4. /\ Reported' /\ LastReportTells' /\ Told
      /\ lastPosition' \in Nat \cup {NotReported} /\ positions' \in Seq(Positions)
  BY <1>0, <1>3, <1>a, ReportTells DEF Moved
<1>5. source' \in Images /\ source' # Waiting /\ source'[1] = clip /\ source'[2] = n /\ source'[3] = cuts
  BY <1>0, <1>3, <1>a, FrameIsImage
<1>6. /\ r \in Seq(Images) /\ Len(r) = Len(past) + 1 /\ Len(past) \in Nat /\ r[1] = source
      /\ \A i \in 1 .. Len(past) : r[i + 1] = past[i]
  <2>1. <<source>> \in Seq(Images) /\ Len(<<source>>) = 1 /\ <<source>>[1] = source  BY <1>2
  <2>2. Len(past) \in Nat  BY <1>0, LenProperties
  <2>3. /\ r \in Seq(Images) /\ Len(r) = 1 + Len(past)
        /\ \A i \in 1 .. 1 + Len(past) : r[i] = IF i <= 1 THEN <<source>>[i] ELSE past[i - 1]
    BY <1>0, <2>1, ConcatProperties
  <2> QED  BY <2>1, <2>2, <2>3
<1>7. m \in Nat /\ m <= Depth /\ m <= Len(r)
  BY <1>6, DepthAssumption DEF Lesser
<1> HIDE DEF r, m
<1>8. /\ past' \in Seq(Images) /\ Len(past') = m
      /\ \A i \in 1 .. m : past'[i] = r[i]
  <2>1. \A i \in 1 .. m : r[i] \in Images  BY <1>6, <1>7, ElementOfSeq
  <2> QED  BY <1>7, <1>a, <2>1, SubSeqProperties
<1>9. DOMAIN past' = 1 .. m /\ m \in Nat  BY <1>7, <1>8, LenProperties
<1>10. PumpTypes'
  BY <1>0, <1>a, <1>3, <1>4, <1>5, <1>7, <1>8 DEF PumpTypes, HavePump
<1>11. source' = Frame(at)'  BY <1>0, <1>a DEF Frame
<1>12. Sampled'  BY <1>0, <1>a, <1>3, <1>5, <1>11 DEF Sampled, HavePump, Length
<1>13. ASSUME NEW k \in 1 .. m
       PROVE  /\ past'[k][1] = clip /\ past'[k][3] = cuts
              /\ past'[k][2] = (n + k * (Length - 1)) % Length
  <2>1. past'[k] = r[k]  BY <1>8
  <2>2. CASE k = 1
    <3>1. past'[k] = source  BY <1>6, <2>1, <2>2
    <3>2. (n + (0 + 1) * (Length - 1)) % Length = (at + 0 * (Length - 1)) % Length
      BY <1>0, <1>3, OneFurtherBack
    <3>3. at % Length = at  BY <1>0, SmallRemainder
    <3>4. at + 0 * (Length - 1) = at /\ 0 + 1 = k  BY <1>0, <2>2
    <3> QED  BY <1>2, <3>1, <3>2, <3>3, <3>4
  <2>3. CASE k # 1
    <3> DEFINE j == k - 1
    <3>1. j \in 1 .. Len(past) /\ j \in Nat /\ j + 1 = k  BY <1>6, <1>7, <2>3
    <3>2. past'[k] = past[j]  BY <1>6, <2>1, <3>1
    <3>3. j \in DOMAIN past  BY <1>0, <3>1, LenProperties
    <3>4. past[j][1] = clip /\ past[j][3] = cuts /\ past[j][2] = (at + j * (Length - 1)) % Length
      BY <1>2, <3>3 DEF Moved, HistoryIsContiguous, Length
    <3> HIDE DEF j
    <3>5. (n + (j + 1) * (Length - 1)) % Length = (at + j * (Length - 1)) % Length
      BY <1>0, <1>3, <3>1, OneFurtherBack
    <3> QED  BY <3>1, <3>2, <3>4, <3>5
  <2> QED  BY <2>2, <2>3
<1>14. HistoryIsContiguous' /\ PastIsOfTheCut'
  BY <1>0, <1>5, <1>9, <1>13 DEF HistoryIsContiguous, PastIsOfTheCut, Length
<1> QED  BY <1>4, <1>10, <1>11, <1>12, <1>14 DEF Moved

-----------------------------------------------------------------------------
(* Steps of the render thread. *)

\* The thread's own values: what is queued and reported, tempo, status, marks.
ThreadTypes ==
  /\ queue \in Seq(Commands) /\ playing \in BOOLEAN /\ haveShader \in BOOLEAN
  /\ fps \in Rates /\ accum \in 0 .. (AdvancePeriod(fps) - 1) /\ waited \in 0 .. AdvancePeriod(fps)
  /\ accum <= waited
  /\ {feedback, pane} \subseteq Images \cup {Waiting} /\ (feedback # Waiting => feedback[3] = cuts)
  /\ lastStatus \in Statuses \cup {"none"} /\ events \in Seq(Words)

\* The panel's own values.
PanelTypes ==
  /\ tab \in {"closed", "open", "listening"} /\ mirrored \in BOOLEAN
  /\ shown \in Positions /\ playShown \in BOOLEAN
  /\ statusShown \in Statuses \cup {"none"} /\ sends \in 0 .. MaxSends

\* The inductive invariant, the thread's part and the panel's.
ThreadInv == Moved /\ ThreadTypes
PanelInv  == PanelWillShow /\ StatusTells /\ LastStatusComes
IInv == ThreadInv /\ PanelTypes /\ PanelInv

\* Reports are made of every move, so far as the panel can tell.
Heard == primed' /\ positions' = << >> => positions = << >> /\ at' = at /\ primed

\* A command leaves the queue.
LEMMA Receives ==
  ASSUME queue \in Seq(Commands), NEW op, NEW arg, Receive(op, arg)
  PROVE  /\ queue' \in Seq(Commands) /\ queue # << >> /\ Head(queue) = [op |-> op, arg |-> arg]
         /\ Head(queue) = queue[1] /\ Len(queue) \in Nat \ {0} /\ Len(queue') = Len(queue) - 1
         /\ \A i \in 1 .. Len(queue') : queue'[i] = queue[i + 1]
         /\ UNCHANGED <<pane, lastStatus, events>>
BY HeadTailProperties, EmptySeq, LenProperties DEF Receive

\* The seek that the panel sent is still under way, or was applied as it shows it.
LEMMA PopKeepsPanel ==
  ASSUME IInv, NEW op, NEW arg, Receive(op, arg), UNCHANGED <<clip, panelVars>>, Heard,
         op = "seek" /\ HavePump => at' = arg % Length
  PROVE  PanelWillShow'
<1> SUFFICES ASSUME primed', mirrored', positions' = << >>
             PROVE  /\ shown.len = Length /\ shown.index < Length
                    /\ \/ shown.index = at'
                       \/ \E i \in 1 .. Len(queue') : queue'[i] = [op |-> "seek", arg |-> shown.index]
  BY DEF PanelWillShow, panelVars, panelState, Length
<1>0. primed /\ mirrored /\ positions = << >> /\ at' = at
  BY DEF Heard, panelVars, panelState
<1>1. /\ queue \in Seq(Commands) /\ HavePump /\ clip \in Clips /\ Length \in Nat \ {0}
      /\ shown.index \in Nat
  BY <1>0, LengthIsPositive
     DEF IInv, ThreadInv, ThreadTypes, PanelTypes, Positions, Moved, PumpTypes, Sampled, HavePump, Length
<1>2. /\ shown.len = Length /\ shown.index < Length
      /\ \/ shown.index = at
         \/ \E i \in 1 .. Len(queue) : queue[i] = [op |-> "seek", arg |-> shown.index]
  BY <1>0 DEF IInv, PanelInv, PanelWillShow
<1>3. /\ Head(queue) = [op |-> op, arg |-> arg] /\ Head(queue) = queue[1]
      /\ Len(queue) \in Nat \ {0} /\ Len(queue') = Len(queue) - 1
      /\ \A i \in 1 .. Len(queue') : queue'[i] = queue[i + 1]
  BY <1>1, Receives
<1>4. ASSUME NEW i \in 1 .. Len(queue), queue[i] = [op |-> "seek", arg |-> shown.index]
      PROVE  \/ shown.index = at'
             \/ \E j \in 1 .. Len(queue') : queue'[j] = [op |-> "seek", arg |-> shown.index]
  <2>1. CASE i = 1
    <3>1. op = "seek" /\ arg = shown.index  BY <1>3, <1>4, <2>1
    <3>2. shown.index \in 0 .. Length - 1  BY <1>1, <1>2
    <3>3. shown.index % Length = shown.index  BY <1>1, <3>2, SmallRemainder
    <3> QED  BY <1>1, <3>1, <3>3
  <2>2. CASE i # 1
    <3>1. i - 1 \in 1 .. Len(queue') /\ queue'[i - 1] = queue[i]  BY <1>3, <2>2
    <3> QED  BY <1>4, <3>1
  <2> QED  BY <2>1, <2>2
<1> QED  BY <1>0, <1>2, <1>4

\* A new window begins with no ticks.
LEMMA WindowBegins ==
  ASSUME NEW rate \in Rates
  PROVE  0 \in 0 .. (AdvancePeriod(rate) - 1) /\ 0 \in 0 .. AdvancePeriod(rate)
BY PeriodIsPositive

\* Every command keeps the state of the thread right, and the panel will hear of it.
LEMMA CommandKeeps ==
  ASSUME IInv, ApplyCommand, UNCHANGED panelVars
  PROVE  ThreadInv' /\ PanelWillShow' /\ queue # << >> /\ UNCHANGED <<pane, lastStatus, events>>
<1>0. Moved /\ ThreadTypes /\ PumpTypes /\ queue \in Seq(Commands) /\ fps \in Rates
  BY DEF IInv, ThreadInv, Moved, ThreadTypes
<1>1. ASSUME NEW c \in Clips, Load(c)
      PROVE  ThreadInv' /\ PanelWillShow' /\ queue # << >> /\ UNCHANGED <<pane, lastStatus, events>>
  <2>1. /\ queue' \in Seq(Commands) /\ queue # << >> /\ UNCHANGED <<pane, lastStatus, events>>
        /\ clip' = c /\ at' = 0 /\ primed' = FALSE /\ playing' = FALSE /\ accum' = 0 /\ waited' = 0
        /\ lastPosition' = NotReported
        /\ UNCHANGED <<fps, cuts, haveShader, source, past, feedback, positions>>
    BY <1>0, <1>1, Receives DEF Load, picture
  <2>2. Moved'
    <3>1. LengthOf[c] \in Nat \ {0} /\ Length' = LengthOf[c]
      BY <2>1, LengthIsPositive DEF Length
    <3>2. PumpTypes'
      <4>1. clip' \in Clips \cup {NoClip} /\ at' \in Nat /\ at' < Length'  BY <2>1, <3>1
      <4>2. primed' \in BOOLEAN /\ lastPosition' \in Nat \cup {NotReported}  BY <2>1
      <4> QED  BY <1>0, <2>1, <4>1, <4>2 DEF PumpTypes
    <3>3. Sampled'  BY <1>0, <2>1 DEF Moved, Sampled
    <3>4. HistoryIsContiguous' /\ PastIsOfTheCut'
      BY <1>0, <2>1 DEF Moved, HistoryIsContiguous, PastIsOfTheCut
    <3>5. Reported' /\ LastReportTells'  BY <2>1 DEF Reported, LastReportTells
    <3> QED  BY <3>2, <3>3, <3>4, <3>5 DEF Moved
  <2>3. ThreadTypes'
    <3>1. 0 \in 0 .. (AdvancePeriod(fps) - 1) /\ 0 \in 0 .. AdvancePeriod(fps)
      BY <1>0, WindowBegins
    <3>2. accum' \in 0 .. (AdvancePeriod(fps') - 1) /\ waited' \in 0 .. AdvancePeriod(fps') /\ accum' <= waited'
      BY <2>1, <3>1
    <3> QED  BY <1>0, <2>1, <3>2 DEF ThreadTypes
  <2>4. PanelWillShow'  BY <2>1 DEF PanelWillShow
  <2> QED  BY <2>1, <2>2, <2>3, <2>4 DEF ThreadInv
\* What the commands that leave the pump alone have in common.
<1>k. ASSUME NEW op, NEW arg, Receive(op, arg), op # "seek", ThreadTypes',
             UNCHANGED <<clip, at, primed, cuts, source, lastPosition, positions>>,
             past' = past \/ past' = << >>
      PROVE  ThreadInv' /\ PanelWillShow' /\ queue # << >> /\ UNCHANGED <<pane, lastStatus, events>>
  <2>1. << >> \in Seq(Images) /\ Len(<< >>) = 0 /\ DOMAIN << >> = {}  BY EmptySeq
  <2>2. Moved'
    <3>1. Length' = Length /\ Frame(at)' = Frame(at) /\ HavePump' = HavePump
      BY <1>k DEF Length, Frame, HavePump
    <3>2. past' \in Seq(Images) /\ Len(past') <= Depth
      <4>1. past \in Seq(Images) /\ Len(past) <= Depth  BY <1>0 DEF PumpTypes
      <4>2. CASE past' = past  BY <4>1, <4>2
      <4>3. CASE past' = << >>  BY <2>1, <4>3, DepthAssumption
      <4> QED  BY <1>k, <4>2, <4>3
    <3>6. PumpTypes'  BY <1>0, <1>k, <3>1, <3>2 DEF PumpTypes
    <3>3. Sampled'  BY <1>0, <1>k, <3>1 DEF Moved, Sampled
    <3>4. HistoryIsContiguous' /\ PastIsOfTheCut'
      BY <1>0, <1>k, <2>1 DEF Moved, HistoryIsContiguous, PastIsOfTheCut
    <3>5. Reported' /\ LastReportTells'
      BY <1>0, <1>k, <3>1 DEF Moved, Reported, LastReportTells
    <3> QED  BY <3>6, <3>3, <3>4, <3>5 DEF Moved
  <2>3. Heard  BY <1>k DEF Heard
  <2>4. PanelWillShow'  BY <1>k, <2>3, PopKeepsPanel
  <2> QED  BY <1>0, <1>k, <2>2, <2>4, Receives DEF ThreadInv
<1>2. CASE Play
  <2>1. ThreadTypes'
    BY <1>0, <1>2, Receives, WindowBegins DEF ThreadTypes, Play, picture
  <2> QED  BY <1>2, <1>k, <2>1 DEF Play, picture
<1>3. CASE Pause
  <2>1. ThreadTypes'  BY <1>0, <1>3, Receives DEF ThreadTypes, Pause, picture
  <2> QED  BY <1>3, <1>k, <2>1 DEF Pause, picture
<1>4. ASSUME NEW rate \in Rates, SetFps(rate)
      PROVE  ThreadInv' /\ PanelWillShow' /\ queue # << >> /\ UNCHANGED <<pane, lastStatus, events>>
  <2>1. ThreadTypes'
    BY <1>0, <1>4, Receives, WindowBegins DEF ThreadTypes, SetFps, picture
  <2> QED  BY <1>4, <1>k, <2>1 DEF SetFps, picture
<1>5. CASE SetChain
  <2>1. ThreadTypes'  BY <1>0, <1>5, Receives DEF ThreadTypes, SetChain, playback
  <2> QED  BY <1>5, <1>k, <2>1 DEF SetChain, playback
<1>6. CASE SetEmptyChain
  <2>1. ThreadTypes'  BY <1>0, <1>6, Receives DEF ThreadTypes, SetEmptyChain, playback, picture
  <2> QED  BY <1>6, <1>k, <2>1 DEF SetEmptyChain, playback, picture
<1>7. CASE Step
  <2>1. /\ Receive("step", 0) /\ queue' \in Seq(Commands) /\ queue # << >>
        /\ UNCHANGED <<pane, lastStatus, events, clip, playing, fps, accum, cuts, waited, haveShader, feedback>>
    BY <1>0, <1>7, Receives DEF Step
  <2>2. Moved' /\ Heard
    <3>1. CASE Hold
      <4>1. Moved' /\ (primed => Told)  BY <1>0, <2>1, <3>1, HoldMoves
      <4>2. primed' = primed  BY <3>1 DEF Hold
      <4> QED  BY <4>1, <4>2 DEF Told, Heard
    <3>2. CASE HavePump /\ ~primed /\ Prime
      <4>1. Moved' /\ Told  BY <1>0, <2>1, <3>2, PrimeMoves
      <4> QED  BY <4>1 DEF Told, Heard
    <3>3. CASE HavePump /\ primed /\ AdvancePump
      <4>1. Moved' /\ Told  BY <1>0, <2>1, <3>3, AdvanceMoves
      <4> QED  BY <4>1 DEF Told, Heard
    <3> QED  BY <1>7, <3>1, <3>2, <3>3 DEF Step
  <2>3. ThreadTypes'  BY <1>0, <2>1 DEF ThreadTypes
  <2>4. PanelWillShow'  BY <2>1, <2>2, PopKeepsPanel
  <2> QED  BY <2>1, <2>2, <2>3, <2>4 DEF ThreadInv
<1>8. ASSUME NEW i \in Indices, Seek(i)
      PROVE  ThreadInv' /\ PanelWillShow' /\ queue # << >> /\ UNCHANGED <<pane, lastStatus, events>>
  <2>0. i \in Nat  BY ClipsAssumption DEF Indices
  <2>1. /\ Receive("seek", i) /\ queue' \in Seq(Commands) /\ queue # << >>
        /\ UNCHANGED <<pane, lastStatus, events, clip, playing, fps, accum, waited, haveShader>>
    BY <1>0, <1>8, Receives DEF Seek
  <2>2. CASE HavePump
    <3>1. /\ at' = i % Length /\ primed' = TRUE /\ cuts' = cuts + 1
          /\ source' = <<clip, i % Length, cuts + 1>> /\ past' = << >> /\ feedback' = Waiting
          /\ ReportPosition(i % Length)
      BY <1>8, <2>2 DEF Seek
    <3>2. Moved' /\ Told  BY <1>0, <2>0, <2>1, <2>2, <3>1, SeekMoves
    <3>3. ThreadTypes'  BY <1>0, <2>1, <3>1 DEF ThreadTypes
    <3>4. Heard  BY <3>2 DEF Heard, Told
    <3>5. PanelWillShow'  BY <2>1, <3>1, <3>4, PopKeepsPanel
    <3> QED  BY <2>1, <3>2, <3>3, <3>5 DEF ThreadInv
  <2>3. CASE ~HavePump
    <3>1. Hold /\ UNCHANGED <<cuts, feedback>>  BY <1>8, <2>3 DEF Seek
    <3>2. Moved'  BY <1>0, <2>1, <3>1, HoldMoves
    <3>3. ThreadTypes'  BY <1>0, <2>1, <3>1 DEF ThreadTypes
    <3>4. ~primed'  BY <1>0, <2>3, <3>1 DEF Moved, Sampled, Hold
    <3> QED  BY <2>1, <3>2, <3>3, <3>4 DEF ThreadInv, PanelWillShow
  <2> QED  BY <2>2, <2>3
<1> QED  BY <1>1, <1>2, <1>3, <1>4, <1>5, <1>6, <1>7, <1>8 DEF ApplyCommand

\* A tick paces the pump: it moves when it plays and has waited for its period, and
\* the renderer then has its frame.
LEMMA PaceKeeps ==
  ASSUME ThreadInv, Pace, UNCHANGED <<clip, fps, playing, cuts>>
  PROVE  /\ Moved' /\ Heard
         /\ accum' \in 0 .. (AdvancePeriod(fps) - 1) /\ waited' \in 0 .. AdvancePeriod(fps)
         /\ accum' <= waited'
         /\ HavePump => primed' /\ source' = <<clip', at', cuts'>>
         /\ at' # at => playing /\ waited + 1 >= AdvancePeriod(fps)
<1> DEFINE period == AdvancePeriod(fps)
<1>0. Moved /\ fps \in Rates /\ accum \in 0 .. (period - 1) /\ waited \in 0 .. period /\ accum <= waited
  BY DEF ThreadInv, ThreadTypes
<1>p. period \in Nat \ {0}  BY <1>0, PeriodIsPositive
<1> HIDE DEF period
<1>w. /\ Lesser(waited + 1, period) \in 0 .. period
      /\ accum <= Lesser(waited + 1, period)
      /\ accum + 1 < period => accum + 1 <= Lesser(waited + 1, period)
  BY <1>0, <1>p DEF Lesser
<1>1. CASE ~HavePump
  <2>1. Hold /\ UNCHANGED <<accum, waited>>  BY <1>1 DEF Pace
  <2>2. ~primed  BY <1>0, <1>1 DEF Moved, Sampled
  <2>3. Moved' /\ at' = at /\ primed' = primed  BY <1>0, <2>1, HoldMoves DEF Hold
  <2> QED  BY <1>0, <1>1, <2>1, <2>2, <2>3 DEF Heard, period
<1>2. CASE HavePump /\ ~primed
  <2>1. Prime /\ waited' = Lesser(waited + 1, period) /\ accum' = accum
    BY <1>2 DEF Pace, period
  <2>2. Moved' /\ Told /\ primed' /\ source' = Frame(at)'
    BY <1>0, <1>2, <2>1, PrimeMoves
  <2>3. at' = at  BY <2>1 DEF Prime
  <2> QED  BY <1>0, <1>w, <2>1, <2>2, <2>3 DEF Heard, Told, Frame, period
<1>3. CASE HavePump /\ primed /\ playing /\ Length > 1 /\ accum + 1 >= period
  <2>1. AdvancePump /\ accum' = 0 /\ waited' = 0  BY <1>3 DEF Pace, period
  <2>2. Moved' /\ Told /\ source' = Frame(at)'  BY <1>0, <1>3, <2>1, AdvanceMoves
  <2>3. primed'  BY <1>3, <2>1 DEF AdvancePump
  <2>4. waited + 1 >= period  BY <1>0, <1>3, <1>p
  <2> QED  BY <1>p, <1>3, <2>1, <2>2, <2>3, <2>4 DEF Heard, Told, Frame, period
<1>4. CASE HavePump /\ primed /\ ~(playing /\ Length > 1 /\ accum + 1 >= period)
  <2>1. Hold /\ waited' = Lesser(waited + 1, period)
    BY <1>4 DEF Pace, period
  <2>2. \/ accum' = accum
        \/ accum' = accum + 1 /\ ~(accum + 1 >= period)
    BY <1>4 DEF Pace, period
  <2>3. accum' \in 0 .. (period - 1) /\ accum' <= waited'
    BY <1>0, <1>p, <1>w, <2>1, <2>2
  <2>4. Moved' /\ Told  BY <1>0, <1>4, <2>1, HoldMoves
  <2>5. at' = at /\ primed' = primed /\ source' = source  BY <2>1 DEF Hold
  <2>6. source = Frame(at)  BY <1>0, <1>4 DEF Moved, Sampled
  <2> QED  BY <1>4, <1>w, <2>1, <2>3, <2>4, <2>5, <2>6 DEF Heard, Told, Frame, period
<1> QED  BY <1>1, <1>2, <1>3, <1>4

\* A frame drawn keeps picture, status and panel right, and shows the pump.
LEMMA TickKeeps ==
  ASSUME IInv, RenderTick, UNCHANGED panelVars
  PROVE  /\ IInv'
         /\ pane' # Waiting => pane' = <<clip', at', cuts'>> /\ primed'
         /\ at' # at => playing /\ waited + 1 >= AdvancePeriod(fps)
<1>0. /\ ThreadInv /\ PanelTypes /\ PanelInv /\ Pace
      /\ UNCHANGED <<queue, clip, playing, fps, cuts, haveShader>>
      /\ UNCHANGED <<tab, shown, playShown, mirrored, statusShown, sends>>
  BY DEF IInv, RenderTick, panelVars, panelState
<1>1. /\ Moved' /\ Heard
      /\ accum' \in 0 .. (AdvancePeriod(fps) - 1) /\ waited' \in 0 .. AdvancePeriod(fps)
      /\ accum' <= waited'
      /\ HavePump => primed' /\ source' = <<clip', at', cuts'>>
      /\ at' # at => playing /\ waited + 1 >= AdvancePeriod(fps)
  BY <1>0, PaceKeeps
<1>2. /\ events \in Seq(Words) /\ LastStatusComes
      /\ {feedback, pane} \subseteq Images \cup {Waiting} /\ (feedback # Waiting => feedback[3] = cuts)
  BY <1>0 DEF ThreadInv, ThreadTypes, PanelInv
<1>3. HavePump => /\ source' \in Images \cup {Waiting} /\ source' # Waiting /\ source'[3] = cuts
                  /\ source' = <<clip', at', cuts'>> /\ primed'
  <2> SUFFICES ASSUME HavePump PROVE /\ source' \in Images \cup {Waiting} /\ source' # Waiting
                                     /\ source'[3] = cuts
    BY <1>1
  <2>1. clip' \in Clips /\ at' \in Nat /\ cuts' \in Nat /\ cuts' = cuts
    BY <1>0, <1>1 DEF Moved, PumpTypes, HavePump
  <2> QED  BY <1>1, <2>1, FrameIsImage
<1>4. /\ events' \in Seq(Words) /\ LastStatusComes' /\ StatusTells' /\ lastStatus' \in Statuses
      /\ {feedback', pane'} \subseteq Images \cup {Waiting} /\ (feedback' # Waiting => feedback'[3] = cuts')
      /\ pane' # Waiting => pane' = <<clip', at', cuts'>> /\ primed'
  <2>s. {"live", "lastGood"} = Statuses  BY DEF Statuses
  <2>1. CASE ShowFrame
    <3>1. HavePump /\ feedback' = source' /\ pane' = source' /\ ReportStatus("live", << >>)
      BY <2>1 DEF ShowFrame
    <3>2. events' \in Seq(Words) /\ LastStatusComes' /\ lastStatus' = "live"
      BY <1>0, <1>2, <2>s, <3>1, ReportsCome
    <3> QED  BY <1>0, <1>3, <2>s, <3>1, <3>2 DEF StatusTells
  <2>2. CASE ReadBackFails
    <3>1. HavePump /\ feedback' = source' /\ pane' = Waiting /\ ReportStatus("lastGood", <<"readback">>)
      BY <2>2 DEF ReadBackFails
    <3>2. events' \in Seq(Words) /\ LastStatusComes' /\ lastStatus' = "lastGood"
      BY <1>0, <1>2, <2>s, <3>1, ReportsCome
    <3> QED  BY <1>0, <1>3, <2>s, <3>1, <3>2 DEF StatusTells
  <2>3. CASE ShowWaiting
    <3>1. feedback' = feedback /\ pane' = Waiting /\ ReportStatus("lastGood", << >>)
      BY <2>3 DEF ShowWaiting
    <3>2. events' \in Seq(Words) /\ LastStatusComes' /\ lastStatus' = "lastGood"
      BY <1>0, <1>2, <2>s, <3>1, ReportsCome
    <3> QED  BY <1>0, <1>2, <2>s, <3>1, <3>2 DEF StatusTells
  <2> QED  BY <2>1, <2>2, <2>3 DEF RenderTick
<1>5. ThreadTypes'
  BY <1>0, <1>1, <1>4 DEF ThreadInv, ThreadTypes
<1>6. PanelWillShow'
  <2> SUFFICES ASSUME primed', mirrored', positions' = << >>
               PROVE  /\ shown.len = Length /\ shown.index < Length
                      /\ \/ shown.index = at'
                         \/ \E i \in 1 .. Len(queue) : queue[i] = [op |-> "seek", arg |-> shown.index]
    BY <1>0 DEF PanelWillShow, Length
  <2>1. primed /\ mirrored /\ positions = << >> /\ at' = at  BY <1>0, <1>1 DEF Heard
  <2> QED  BY <1>0, <2>1 DEF PanelInv, PanelWillShow
<1>7. PanelTypes'  BY <1>0 DEF PanelTypes
<1> QED  BY <1>1, <1>4, <1>5, <1>6, <1>7 DEF IInv, ThreadInv, PanelInv

-----------------------------------------------------------------------------
(* Steps of the user and the reports' arrival. *)

\* What these steps leave alone.
LEMMA ThreadRests ==
  ASSUME ThreadInv, UNCHANGED <<playback, picture, pane, lastPosition, lastStatus>>,
         queue' \in Seq(Commands), positions' \in Seq(Positions), events' \in Seq(Words),
         positions' # << >> => positions # << >> /\ positions'[Len(positions')] = positions[Len(positions)]
  PROVE  ThreadInv'
<1>1. /\ UNCHANGED <<clip, at, primed, playing, fps, accum, cuts, waited>>
      /\ UNCHANGED <<haveShader, source, past, feedback, pane, lastPosition, lastStatus>>
  BY DEF playback, picture
<1>2. Length' = Length /\ HavePump' = HavePump /\ Frame(at)' = Frame(at)
  BY <1>1 DEF Length, HavePump, Frame
<1>3. PumpTypes'  BY <1>1, <1>2 DEF ThreadInv, Moved, PumpTypes
<1>4. Sampled' /\ Reported'  BY <1>1, <1>2 DEF ThreadInv, Moved, Sampled, Reported
<1>5. HistoryIsContiguous' /\ PastIsOfTheCut'
  BY <1>1 DEF ThreadInv, Moved, HistoryIsContiguous, PastIsOfTheCut
<1>6. LastReportTells'  BY <1>1, <1>2 DEF ThreadInv, Moved, LastReportTells
<1>7. ThreadTypes'  BY <1>1 DEF ThreadInv, ThreadTypes
<1> QED  BY <1>3, <1>4, <1>5, <1>6, <1>7 DEF ThreadInv, Moved

\* A command sent joins the queue, and takes no seek out of it.
LEMMA SendKeeps ==
  ASSUME IInv, NEW op, NEW arg, [op |-> op, arg |-> arg] \in Commands, Send(op, arg),
         UNCHANGED tab, playShown' \in BOOLEAN,
         mirrored' = mirrored,
         \/ shown' = shown
         \/ /\ op = "seek" /\ shown' = [shown EXCEPT !.index = arg]
            /\ arg \in Nat /\ arg < shown.len
  PROVE  IInv'
<1> DEFINE c == [op |-> op, arg |-> arg]
<1>0. /\ sends < MaxSends /\ sends' = sends + 1 /\ queue' = Append(queue, c) /\ c \in Commands
      /\ UNCHANGED <<playback, picture, pane, reports, statusShown>>
  BY DEF Send, Act
<1>1. /\ UNCHANGED <<clip, at, primed, pane, lastPosition, lastStatus, positions, events, statusShown>>
      /\ Length' = Length
  BY <1>0 DEF playback, reports, Length
<1>2. /\ ThreadInv /\ PanelTypes /\ PanelInv /\ queue \in Seq(Commands)
      /\ positions \in Seq(Positions) /\ events \in Seq(Words) /\ shown \in Positions
  BY DEF IInv, ThreadInv, ThreadTypes, Moved, PumpTypes, PanelTypes
<1> HIDE DEF c
<1>3. /\ queue' \in Seq(Commands) /\ Len(queue') = Len(queue) + 1 /\ Len(queue) \in Nat
      /\ \A i \in 1 .. Len(queue) : queue'[i] = queue[i]
      /\ queue'[Len(queue) + 1] = c
  BY <1>0, <1>2, AppendProperties, LenProperties
<1>4. ThreadInv'  BY <1>0, <1>1, <1>2, <1>3, ThreadRests
<1>5. shown' \in Positions
  BY <1>2 DEF Positions
<1>6. PanelTypes'
  BY <1>0, <1>1, <1>2, <1>5, BoundsAssumption DEF PanelTypes
<1>7. StatusTells' /\ LastStatusComes'
  BY <1>1, <1>2 DEF PanelInv, StatusTells, LastStatusComes
<1>8. PanelWillShow'
  <2> SUFFICES ASSUME primed, mirrored, positions = << >>
               PROVE  /\ shown'.len = Length /\ shown'.index < Length
                      /\ \/ shown'.index = at
                         \/ \E i \in 1 .. Len(queue') : queue'[i] = [op |-> "seek", arg |-> shown'.index]
    BY <1>1 DEF PanelWillShow
  <2>1. /\ shown.len = Length /\ shown.index < Length
        /\ \/ shown.index = at
           \/ \E i \in 1 .. Len(queue) : queue[i] = [op |-> "seek", arg |-> shown.index]
    BY <1>2 DEF PanelInv, PanelWillShow
  <2>2. CASE shown' = shown
    <3>1. \A i \in 1 .. Len(queue) : i \in 1 .. Len(queue')  BY <1>3
    <3> QED  BY <1>3, <2>1, <2>2, <3>1
  <2>3. CASE /\ op = "seek" /\ shown' = [shown EXCEPT !.index = arg]
             /\ arg \in Nat /\ arg < shown.len
    <3>1. shown'.index = arg /\ shown'.len = shown.len  BY <1>2, <2>3 DEF Positions
    <3>2. Len(queue) + 1 \in 1 .. Len(queue') /\ queue'[Len(queue) + 1] = [op |-> "seek", arg |-> shown'.index]
      BY <1>3, <2>3, <3>1 DEF c
    <3> QED  BY <2>1, <2>3, <3>1, <3>2
  <2> QED  BY <2>2, <2>3
<1> QED  BY <1>4, <1>6, <1>7, <1>8 DEF IInv, PanelInv

\* What the panel can send.
LEMMA CommandsSent ==
  /\ \A op \in {"play", "pause", "step", "setChain", "setEmptyChain"} : [op |-> op, arg |-> 0] \in Commands
  /\ \A c \in Clips : [op |-> "load", arg |-> c] \in Commands
  /\ \A i \in Nat : [op |-> "seek", arg |-> i] \in Commands
  /\ \A rate \in Rates : [op |-> "setFps", arg |-> rate] \in Commands
BY DEF Commands

\* What the panel shows of no source.
LEMMA FreshIsPosition == Fresh \in Positions
BY DEF Fresh, Positions

\* Tab and badge come and go.
LEMMA ViewKeeps ==
  ASSUME IInv, UNCHANGED threadVars,
         tab' \in {"closed", "open", "listening"}, playShown' \in BOOLEAN, sends' \in 0 .. MaxSends,
         \/ UNCHANGED <<shown, mirrored>>
         \/ shown' = Fresh /\ mirrored' = FALSE,
         statusShown' \in {statusShown, "none"}
  PROVE  IInv'
<1>1. /\ UNCHANGED <<queue, playback, picture, reports, pane>>
      /\ UNCHANGED <<clip, at, primed, pane, lastPosition, lastStatus, positions, events>>
      /\ Length' = Length
  BY DEF threadVars, playback, reports, Length
<1>2. /\ ThreadInv /\ PanelTypes /\ PanelInv /\ queue \in Seq(Commands)
      /\ positions \in Seq(Positions) /\ events \in Seq(Words)
  BY DEF IInv, ThreadInv, ThreadTypes, Moved, PumpTypes
<1>3. ThreadInv'  BY <1>1, <1>2, ThreadRests
<1>4. PanelTypes'
  <2>1. shown' \in Positions /\ mirrored' \in BOOLEAN
    BY <1>2, FreshIsPosition DEF PanelTypes
  <2>2. statusShown' \in Statuses \cup {"none"}  BY <1>2 DEF PanelTypes
  <2> QED  BY <2>1, <2>2 DEF PanelTypes
<1>5. StatusTells'  BY <1>1, <1>2 DEF PanelInv, StatusTells
<1>6. LastStatusComes'
  <2>1. Comes(events, lastStatus, statusShown)  BY <1>2 DEF PanelInv, LastStatusComes
  <2>2. Comes(events, lastStatus, statusShown')  BY <2>1 DEF Comes
  <2> QED  BY <1>1, <2>2 DEF LastStatusComes
<1>7. PanelWillShow'
  BY <1>1, <1>2 DEF PanelInv, PanelWillShow
<1> QED  BY <1>3, <1>4, <1>5, <1>6, <1>7 DEF IInv, PanelInv

\* Whatever the user does, panel and thread will agree.
LEMMA UserKeeps ==
  ASSUME IInv, UserStep \/ Listen
  PROVE  IInv'
<1>0. PanelTypes /\ playShown \in BOOLEAN /\ sends \in 0 .. MaxSends /\ 0 \in Nat
  BY DEF IInv, PanelTypes
<1>1. ASSUME NEW c \in Clips, ClickLoad(c) PROVE IInv'
  BY <1>0, <1>1, SendKeeps, CommandsSent DEF ClickLoad, panelState
<1>2. CASE ClickPlay \/ ClickPause \/ ClickStep
  BY <1>0, <1>2, SendKeeps, CommandsSent DEF ClickPlay, ClickPause, ClickStep, Keeps
<1>3. ASSUME NEW i \in Indices, MoveSlider(i) PROVE IInv'
  <2>1. i \in Nat  BY ClipsAssumption DEF Indices
  <2>2. [op |-> "seek", arg |-> i] \in Commands  BY <2>1, CommandsSent
  <2> QED  BY <1>0, <1>3, <2>1, <2>2, SendKeeps DEF MoveSlider
<1>4. ASSUME NEW rate \in Rates, ChangeFps(rate) PROVE IInv'
  BY <1>0, <1>4, SendKeeps, CommandsSent DEF ChangeFps, panelState
<1>5. CASE SendChain
  <2>1. ASSUME NEW op \in {"setChain", "setEmptyChain"}, Send(op, 0), UNCHANGED panelState PROVE IInv'
    BY <1>0, <2>1, SendKeeps, CommandsSent DEF panelState
  <2>2. ASSUME NEW c \in Clips, Send("load", c), UNCHANGED panelState PROVE IInv'
    BY <1>0, <2>2, SendKeeps, CommandsSent DEF panelState
  <2> QED  BY <1>5, <2>1, <2>2 DEF SendChain
<1>s. Act => sends' \in 0 .. MaxSends  BY <1>0, BoundsAssumption DEF Act
<1>6. CASE OpenTab
  BY <1>0, <1>s, <1>6, ViewKeeps DEF OpenTab
<1>7. CASE LeaveTab
  BY <1>0, <1>s, <1>7, ViewKeeps DEF LeaveTab
<1>8. CASE ReplaceDocument
  <2>1. UNCHANGED <<tab, shown, playShown, mirrored, threadVars>> /\ statusShown' = "none" /\ Act
    BY <1>8 DEF ReplaceDocument, panelState
  <2>2. tab' \in {"closed", "open", "listening"}  BY <1>0, <2>1 DEF PanelTypes
  <2> QED  BY <1>0, <1>s, <2>1, <2>2, ViewKeeps
<1>9. CASE Listen
  BY <1>0, <1>9, ViewKeeps DEF Listen
<1> QED  BY <1>1, <1>2, <1>3, <1>4, <1>5, <1>6, <1>7, <1>8, <1>9 DEF UserStep

\* A position arrives: an open panel shows it, and it is the last one when no other is
\* under way.
LEMMA PositionKeeps ==
  ASSUME IInv, DeliverPosition
  PROVE  IInv'
<1>0. /\ ThreadInv /\ PanelTypes /\ PanelInv /\ queue \in Seq(Commands)
      /\ positions \in Seq(Positions) /\ events \in Seq(Words) /\ PumpTypes
  <2>1. ThreadInv /\ PumpTypes  BY DEF IInv, ThreadInv, Moved
  <2> QED  BY <2>1 DEF IInv, ThreadInv, ThreadTypes, PumpTypes
<1>1. /\ positions # << >> /\ positions' = Tail(positions)
      /\ UNCHANGED <<queue, playback, picture, pane, lastPosition, lastStatus, events>>
      /\ UNCHANGED <<tab, playShown, statusShown, sends>>
      /\ UNCHANGED <<clip, at, primed, pane>> /\ Length' = Length
  BY DEF DeliverPosition, playback, Length
<1>2. /\ Head(positions) = positions[1] /\ Head(positions) \in Positions
      /\ positions' \in Seq(Positions) /\ Len(positions') = Len(positions) - 1
      /\ Len(positions) \in Nat \ {0}
      /\ \A i \in 1 .. Len(positions') : positions'[i] = positions[i + 1]
      /\ positions' # << >> => Len(positions') \in Nat \ {0}
      /\ positions' = << >> => Len(positions') = 0
  <2>1. /\ Head(positions) = positions[1] /\ Head(positions) \in Positions
        /\ positions' \in Seq(Positions) /\ Len(positions') = Len(positions) - 1
        /\ \A i \in 1 .. Len(positions') : positions'[i] = positions[i + 1]
    BY <1>0, <1>1, HeadTailProperties
  <2>2. Len(positions) \in Nat \ {0}  BY <1>0, <1>1, EmptySeq
  <2>3. /\ positions' # << >> => Len(positions') \in Nat \ {0}
        /\ positions' = << >> => Len(positions') = 0
    BY <2>1, EmptySeq
  <2> QED  BY <2>1, <2>2, <2>3
<1>3. positions' # << >> => positions'[Len(positions')] = positions[Len(positions)]
  BY <1>2
<1>4. ThreadInv'  BY <1>0, <1>1, <1>2, <1>3, ThreadRests
<1>5. /\ tab = "listening" => shown' = Head(positions)
      /\ tab # "listening" => shown' = shown /\ mirrored' = FALSE
      /\ mirrored' \in BOOLEAN
  BY DEF DeliverPosition
<1>6. PanelTypes'  BY <1>0, <1>1, <1>2, <1>5 DEF PanelTypes
<1>7. StatusTells' /\ LastStatusComes'
  BY <1>0, <1>1 DEF PanelInv, StatusTells, LastStatusComes
<1>8. PanelWillShow'
  <2> SUFFICES ASSUME primed, mirrored', positions' = << >>
               PROVE  shown'.len = Length /\ shown'.index < Length /\ shown'.index = at
    BY <1>1 DEF PanelWillShow
  <2>1. shown' = positions[1] /\ Len(positions) = 1  BY <1>2, <1>5
  <2>2. positions[1] = [index |-> at, len |-> Length]
    BY <1>0, <1>1, <2>1 DEF ThreadInv, Moved, LastReportTells
  <2>3. at < Length  BY <1>0 DEF ThreadInv, Moved, Sampled, PumpTypes
  <2> QED  BY <2>1, <2>2, <2>3
<1> QED  BY <1>4, <1>6, <1>7, <1>8 DEF IInv, PanelInv

\* An event arrives.
LEMMA EventKeeps ==
  ASSUME IInv, DeliverEvent
  PROVE  IInv'
<1>0. /\ ThreadInv /\ PanelTypes /\ PanelInv /\ queue \in Seq(Commands)
      /\ positions \in Seq(Positions) /\ events \in Seq(Words)
  BY DEF IInv, ThreadInv, ThreadTypes, Moved, PumpTypes
<1>1. /\ events # << >> /\ events' = Tail(events)
      /\ statusShown' = IF Head(events) \in Statuses THEN Head(events) ELSE statusShown
      /\ UNCHANGED <<queue, playback, picture, pane, lastPosition, lastStatus, positions>>
      /\ UNCHANGED <<tab, shown, playShown, mirrored, sends>>
      /\ UNCHANGED <<clip, at, primed, pane>> /\ Length' = Length
  BY DEF DeliverEvent, playback, panelState, Length
<1>2. events' \in Seq(Words)  BY <1>0, <1>1, HeadTailProperties
<1>3. ThreadInv'  BY <1>0, <1>1, <1>2, ThreadRests
<1>4. PanelTypes'  BY <1>0, <1>1 DEF PanelTypes
<1>5. StatusTells' /\ PanelWillShow'
  BY <1>0, <1>1 DEF PanelInv, StatusTells, PanelWillShow
<1>6. LastStatusComes'
  BY <1>0, <1>1, StatusArrives DEF PanelInv, LastStatusComes
<1> QED  BY <1>3, <1>4, <1>5, <1>6 DEF IInv, PanelInv

-----------------------------------------------------------------------------
(* The theorems. *)

\* What the two action properties say of a step.
ShowsThePump == pane' # pane /\ pane' # Waiting => pane' = <<clip', at', cuts'>> /\ primed'
KeepsThePace == queue = << >> /\ at' # at => playing /\ waited + 1 >= AdvancePeriod(fps)

\* A thread that has just begun, and a panel that has just opened, agree.
LEMMA InitIInv == Init => IInv
<1> SUFFICES ASSUME Init PROVE IInv  OBVIOUS
<1>0. /\ queue = << >> /\ clip = NoClip /\ at = 0 /\ primed = FALSE /\ playing = FALSE
      /\ fps = DefaultFps /\ accum = 0 /\ haveShader = FALSE
      /\ source = Waiting /\ past = << >> /\ feedback = Waiting /\ pane = Waiting
      /\ lastPosition = NotReported /\ lastStatus = "none"
      /\ positions = << >> /\ events = << >> /\ cuts = 0 /\ waited = 0
      /\ tab = "closed" /\ shown = Fresh /\ playShown = FALSE /\ mirrored = FALSE
      /\ statusShown = "none" /\ sends = 0
  BY DEF Init, ThreadInit
<1>1. /\ << >> \in Seq(Commands) /\ << >> \in Seq(Positions) /\ << >> \in Seq(Words) /\ << >> \in Seq(Images)
      /\ Len(<< >>) = 0 /\ DOMAIN << >> = {}
  BY EmptySeq
<1>2. PumpTypes
  <2>1. Len(past) <= Depth  BY <1>0, <1>1, DepthAssumption
  <2> QED  BY <1>0, <1>1, <2>1 DEF PumpTypes, HavePump
<1>3. Sampled /\ Reported /\ LastReportTells  BY <1>0 DEF Sampled, Reported, LastReportTells
<1>4. HistoryIsContiguous /\ PastIsOfTheCut  BY <1>0, <1>1 DEF HistoryIsContiguous, PastIsOfTheCut
<1>5. ThreadTypes
  <2>1. fps \in Rates  BY <1>0, RatesAssumption
  <2>2. accum \in 0 .. (AdvancePeriod(fps) - 1) /\ waited \in 0 .. AdvancePeriod(fps) /\ accum <= waited
    BY <1>0, <2>1, WindowBegins
  <2> QED  BY <1>0, <1>1, <2>1, <2>2 DEF ThreadTypes
<1>6. PanelTypes
  <2>1. shown \in Positions  BY <1>0, FreshIsPosition
  <2>2. sends \in 0 .. MaxSends  BY <1>0, BoundsAssumption
  <2> QED  BY <1>0, <2>1, <2>2 DEF PanelTypes
<1>7. PanelWillShow /\ StatusTells  BY <1>0 DEF PanelWillShow, StatusTells
<1>8. LastStatusComes  BY <1>0, <1>1 DEF LastStatusComes, Comes
<1> QED  BY <1>2, <1>3, <1>4, <1>5, <1>6, <1>7, <1>8 DEF IInv, ThreadInv, Moved, PanelInv

\* Every step keeps the invariant, the pace, and the pane in step with the pump.
LEMMA NextIInv == IInv /\ [Next]_vars => IInv' /\ ShowsThePump /\ KeepsThePace
<1> SUFFICES ASSUME IInv, [Next]_vars PROVE IInv' /\ ShowsThePump /\ KeepsThePace
  OBVIOUS
<1>1. CASE ThreadStep /\ ApplyCommand
  <2>1. ApplyCommand /\ UNCHANGED panelVars  BY <1>1 DEF ThreadStep
  <2>2. ThreadInv' /\ PanelWillShow' /\ queue # << >> /\ UNCHANGED <<pane, lastStatus, events>>
    BY <2>1, CommandKeeps
  <2>3. UNCHANGED <<tab, shown, playShown, mirrored, statusShown, sends>>
    BY <2>1 DEF panelVars, panelState
  <2>4. PanelTypes' /\ StatusTells' /\ LastStatusComes'
    BY <2>2, <2>3 DEF IInv, PanelTypes, PanelInv, StatusTells, LastStatusComes
  <2> QED  BY <2>2, <2>4 DEF IInv, PanelInv, ShowsThePump, KeepsThePace
<1>2. CASE ThreadStep /\ RenderTick
  <2>1. RenderTick /\ UNCHANGED panelVars  BY <1>2 DEF ThreadStep
  <2> QED  BY <2>1, TickKeeps DEF ShowsThePump, KeepsThePace
\* Nothing else moves pump or pane.
<1>r. ASSUME IInv', UNCHANGED <<pane, at>> PROVE IInv' /\ ShowsThePump /\ KeepsThePace
  BY <1>r DEF ShowsThePump, KeepsThePace
<1>3. CASE UserStep \/ Listen
  <2>1. UNCHANGED <<pane, at>>
    BY <1>3 DEF UserStep, Listen, ClickLoad, ClickPlay, ClickPause, ClickStep, MoveSlider, ChangeFps,
       OpenTab, LeaveTab, SendChain, ReplaceDocument, Send, threadVars, playback
  <2> QED  BY <1>3, <1>r, <2>1, UserKeeps
<1>4. CASE DeliverPosition
  <2>1. UNCHANGED <<pane, at>>  BY <1>4 DEF DeliverPosition, playback
  <2> QED  BY <1>4, <1>r, <2>1, PositionKeeps
<1>5. CASE DeliverEvent
  <2>1. UNCHANGED <<pane, at>>  BY <1>5 DEF DeliverEvent, playback
  <2> QED  BY <1>5, <1>r, <2>1, EventKeeps
<1>6. CASE UNCHANGED vars
  <2>1. /\ UNCHANGED <<pane, at, threadVars, tab, shown, playShown, mirrored, statusShown, sends>>
    BY <1>6 DEF vars, threadVars, panelVars, panelState, playback
  <2>2. PanelTypes  BY DEF IInv
  <2>3. tab' \in {"closed", "open", "listening"} /\ playShown' \in BOOLEAN /\ sends' \in 0 .. MaxSends
    BY <2>1, <2>2 DEF PanelTypes
  <2>4. IInv'  BY <2>1, <2>3, ViewKeeps
  <2> QED  BY <1>r, <2>1, <2>4
<1> QED  BY <1>1, <1>2, <1>3, <1>4, <1>5, <1>6 DEF Next, ThreadStep

\* The invariant holds throughout.
LEMMA SpecIInv == Spec => []IInv
BY InitIInv, NextIInv, PTL DEF Spec

\* The frames OriginalHistory samples are the ones played just before the frame
\* on screen, in order, and none of them is from before a seek or a new source.
THEOREM PastFollows == Spec => []PastFollowsTheSource
<1>1. IInv => PastFollowsTheSource
  <2> SUFFICES ASSUME IInv PROVE PastFollowsTheSource  OBVIOUS
  <2>0. Moved /\ ThreadTypes /\ PanelTypes /\ PumpTypes  BY DEF IInv, ThreadInv, Moved
  <2>1. TypeOK
    BY <2>0 DEF TypeOK, ThreadTypes, PanelTypes, PumpTypes, Words
  <2>2. HistoryIsContiguous /\ SeeksCutThePast
    BY <2>0 DEF Moved, PastIsOfTheCut, SeeksCutThePast, ThreadTypes
  <2> QED  BY <2>1, <2>2 DEF PastFollowsTheSource
<1> QED  BY <1>1, SpecIInv, PTL

\* With no command, report or event under way the slider shows the engine's
\* position and length, and the badge what the preview pane shows.
THEOREM PanelFollows == Spec => []PanelFollowsTheEngine
<1>1. IInv => PanelFollowsTheEngine
  <2> SUFFICES ASSUME IInv PROVE PanelFollowsTheEngine  OBVIOUS
  <2>1. SliderShowsTheFrame
    <3> SUFFICES ASSUME queue = << >>, positions = << >>, primed, mirrored
                 PROVE  shown = [index |-> at, len |-> Length] /\ source = Frame(at)
      BY DEF SliderShowsTheFrame
    <3>1. source = Frame(at) /\ shown \in Positions
      BY DEF IInv, ThreadInv, Moved, Sampled, PanelTypes
    <3>2. Len(queue) = 0  BY EmptySeq
    <3>3. shown.len = Length /\ shown.index = at  BY <3>2 DEF IInv, PanelInv, PanelWillShow
    <3> QED  BY <3>1, <3>3 DEF Positions
  <2>2. BadgeTellsTheTruth
    <3> SUFFICES ASSUME events = << >>, statusShown # "none"
                 PROVE  statusShown = "live" <=> pane # Waiting
      BY DEF BadgeTellsTheTruth
    <3>1. Len(events) = 0  BY EmptySeq
    <3>2. statusShown = lastStatus  BY <3>1 DEF IInv, PanelInv, LastStatusComes, Comes
    <3> QED  BY <3>2 DEF IInv, PanelInv, StatusTells
  <2> QED  BY <2>1, <2>2 DEF PanelFollowsTheEngine
<1> QED  BY <1>1, SpecIInv, PTL

\* Between commands the engine takes a frame further only while it plays, and
\* not before the period of its rate has passed since the frame before.
THEOREM PlaybackPaced == Spec => PlaybackIsPaced
<1>1. IInv /\ [Next]_vars => [ShowsThePump]_vars /\ [KeepsThePace]_vars
  BY NextIInv
<1>2. PlaybackIsPaced <=> [][ShowsThePump]_vars /\ [][KeepsThePace]_vars
  BY DEF PlaybackIsPaced, FramesShowThePump, AdvancesAreAPeriodApart, ShowsThePump, KeepsThePace
<1> QED  BY <1>1, <1>2, SpecIInv, PTL DEF Spec
=============================================================================
