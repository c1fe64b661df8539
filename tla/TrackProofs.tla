---------------------------- MODULE TrackProofs ----------------------------
(***************************************************************************)
(* What is told of a track is so, for every track of any length, however   *)
(* it is cut by pauses and whatever ties and missing readings it has:      *)
(* where it was at any moment, how much of it any laps are, its lines and  *)
(* marks on the map, and its charts.                                       *)
(***************************************************************************)
EXTENDS AlgorithmProofs

-----------------------------------------------------------------------------
(* Tracks, and where one was.                                              *)

(* A track whose points have moments and places.                           *)
Located(track) ==
  /\ track.points \in Seq(ToSet(track.points)) /\ track.segments \in Seq(ToSet(track.segments))
  /\ \A i \in DOMAIN track.points : track.points[i].t \in Int /\ track.points[i].place \in Int
  /\ \A s \in DOMAIN track.segments : track.segments[s].startIndex \in Int /\ track.segments[s].endIndex \in Int
  /\ ValidTrackGeometry(track.points, track.segments, << >>)

(* Time never goes back along its points.                                  *)
InTimeOrder(points) == \A i, j \in 1..Len(points) : i <= j => points[i].t <= points[j].t

LEMMA TimeGoesOn ==
  ASSUME NEW points, Len(points) \in Nat, \A i \in 1..Len(points) : points[i].t \in Int, TemporalOrder(points)
  PROVE  InTimeOrder(points)
<1> DEFINE n == Len(points)
<1>1. \A i \in 1..(n - 1) : points[i].t <= points[i + 1].t
  BY DEF TemporalOrder
<1> SUFFICES ASSUME NEW i \in 1..n
             PROVE  \A j \in i..n : points[i].t <= points[j].t
  BY DEF InTimeOrder
<1> DEFINE S == {j \in i..n : points[i].t <= points[j].t}
<1>2. i \in S
  OBVIOUS
<1>3. ASSUME NEW j \in i..(n - 1), j \in S PROVE j + 1 \in S
  <2>1. j \in 1..(n - 1) /\ j \in 1..n /\ j + 1 \in 1..n /\ j + 1 \in i..n
    OBVIOUS
  <2>2. points[j].t <= points[j + 1].t /\ points[i].t <= points[j].t
    BY <1>1, <1>3, <2>1
  <2> QED
    BY <2>1, <2>2
<1>4. i \in Int /\ n \in Int
  OBVIOUS
<1> HIDE DEF S, n
<1>5. \A j \in i..n : j \in S
  BY <1>2, <1>3, <1>4, UpTo
<1> QED
  BY <1>5 DEF S

(* Its segments, one after another, have each point of it.                 *)
Parted(track) ==
  /\ Len(track.points) \in Nat /\ DOMAIN track.points = 1..Len(track.points)
  /\ Len(track.segments) \in Nat /\ DOMAIN track.segments = 1..Len(track.segments)
  /\ track.points = << >> => track.segments = << >>
  /\ track.points # << >> => Len(track.points) >= 1 /\ SegmentsCover(Len(track.points), track.segments)
  /\ InTimeOrder(track.points)

LEMMA LocatedIsParted ==
  ASSUME NEW track, Located(track)
  PROVE  Parted(track)
<1> DEFINE n == Len(track.points)
           m == Len(track.segments)
           segments == track.segments
<1>1. /\ n \in Nat /\ DOMAIN track.points = 1..n /\ m \in Nat /\ DOMAIN segments = 1..m
      /\ (segments = << >> <=> m = 0) /\ (track.points = << >> <=> n = 0)
  BY DEF Located
<1>2. InTimeOrder(track.points)
  BY <1>1, TimeGoesOn DEF Located, ValidTrackGeometry
<1>3. /\ \A s \in 1..m : /\ segments[s].startIndex \in Int /\ segments[s].endIndex \in Int
                         /\ segments[s].startIndex >= 1 /\ segments[s].endIndex <= n
                         /\ segments[s].startIndex <= segments[s].endIndex
      /\ SegmentsCoverPoints(track.points, segments)
  BY <1>1 DEF Located, ValidTrackGeometry, SegmentRanges
<1>4. ASSUME m # 0
      PROVE  n >= 1 /\ SegmentsCover(n, segments)
  <2>1. /\ segments[1].startIndex = 1 /\ segments[m].endIndex = n
        /\ \A s \in 2..m : segments[s].startIndex = segments[s - 1].endIndex + 1
    BY <1>1, <1>3, <1>4 DEF SegmentsCoverPoints
  <2>2. n >= 1
    <3>1. m \in 1..m
      BY <1>1, <1>4
    <3> QED
      BY <1>1, <1>3, <2>1, <3>1
  <2>3. \A s \in 1..m : s > 1 => s \in 2..m
    BY <1>1
  <2>4. \A s \in 1..m : segments[s].startIndex \in 1..n /\ segments[s].endIndex \in 1..n
    BY <1>1, <1>3
  <2> QED
    BY <1>1, <1>3, <1>4, <2>1, <2>2, <2>3, <2>4 DEF SegmentsCover
<1>5. m = 0 <=> n = 0
  <2>1. m = 0 => n = 0
    BY <1>1, <1>3 DEF SegmentsCoverPoints
  <2>2. m # 0 => n # 0
    BY <1>4
  <2> QED
    BY <2>1, <2>2
<1> QED
  BY <1>1, <1>2, <1>4, <1>5 DEF Parted

(* Every point is of one segment.                                          *)
Owned(segments, i, s) == s \in 1..Len(segments) /\ segments[s].startIndex <= i /\ i <= segments[s].endIndex

LEMMA LaterSegments ==
  ASSUME NEW n \in Nat, NEW segments, SegmentsCover(n, segments)
  PROVE  \A s, u \in 1..Len(segments) : s < u => segments[s].endIndex < segments[u].startIndex
<1> DEFINE m == Len(segments)
<1>1. /\ m \in Nat
      /\ \A s \in 1..m : /\ segments[s].startIndex \in Int /\ segments[s].endIndex \in Int
                         /\ segments[s].startIndex <= segments[s].endIndex
                         /\ s > 1 => segments[s].startIndex = segments[s - 1].endIndex + 1
  BY DEF SegmentsCover
<1> SUFFICES ASSUME NEW s \in 1..m
             PROVE  \A u \in (s + 1)..m : segments[s].endIndex < segments[u].startIndex
  BY <1>1
<1> DEFINE S == {u \in s..m : u # s => segments[s].endIndex < segments[u].startIndex}
<1>2. s \in S
  BY <1>1
<1>3. ASSUME NEW u \in s..(m - 1), u \in S PROVE u + 1 \in S
  <2>1. u \in 1..m /\ u + 1 \in 1..m /\ u + 1 > 1 /\ u + 1 \in s..m /\ (u + 1) - 1 = u
    BY <1>1
  <2>2. segments[u + 1].startIndex = segments[u].endIndex + 1 /\ segments[u].startIndex <= segments[u].endIndex
    BY <1>1, <2>1
  <2>3. segments[s].endIndex \in Int /\ segments[u].startIndex \in Int /\ segments[u].endIndex \in Int
    BY <1>1, <2>1
  <2>4. u # s => segments[s].endIndex < segments[u].startIndex
    BY <1>3
  <2>5. segments[s].endIndex < segments[u + 1].startIndex
    BY <2>2, <2>3, <2>4
  <2> QED
    BY <2>1, <2>5
<1>4. s \in Int /\ m \in Int
  BY <1>1
<1> HIDE DEF S, m
<1>5. \A u \in s..m : u \in S
  BY <1>2, <1>3, <1>4, UpTo
<1>6. \A u \in (s + 1)..m : u \in s..m /\ u # s
  BY <1>4
<1> QED
  BY <1>5, <1>6 DEF S

LEMMA OwnerIs ==
  ASSUME NEW n \in Nat, NEW segments, SegmentsCover(n, segments), NEW i \in 1..n
  PROVE  /\ \E s : Owned(segments, i, s)
         /\ \A s, u : Owned(segments, i, s) /\ Owned(segments, i, u) => s = u
<1> DEFINE m == Len(segments)
           T == {s \in 1..m : i <= segments[s].endIndex}
<1>1. /\ m \in Nat /\ m >= 1 /\ segments[1].startIndex = 1 /\ segments[m].endIndex = n
      /\ \A s \in 1..m : /\ segments[s].startIndex \in Int /\ segments[s].endIndex \in Int
                         /\ s > 1 => segments[s].startIndex = segments[s - 1].endIndex + 1
  <2>1. segments # << >> /\ m \in Nat /\ segments[1].startIndex = 1 /\ segments[m].endIndex = n
        /\ \A s \in 1..m : /\ segments[s].startIndex \in Int /\ segments[s].endIndex \in Int
                           /\ s > 1 => segments[s].startIndex = segments[s - 1].endIndex + 1
    BY DEF SegmentsCover
  <2>2. m # 0
    BY <2>1
  <2> QED
    BY <2>1, <2>2
<1>2. T \in SUBSET Nat /\ T # {}
  BY <1>1
<1>3. PICK s \in T : \A u \in T : s <= u
  BY <1>2, LeastNatural
<1>4. Owned(segments, i, s)
  <2>1. s \in 1..m /\ i <= segments[s].endIndex
    BY <1>3
  <2>2. CASE s = 1
    BY <1>1, <2>1, <2>2 DEF Owned
  <2>3. CASE s # 1
    <3>1. s - 1 \in 1..m /\ s > 1 /\ ~(s <= s - 1)
      BY <1>1, <2>1, <2>3
    <3>2. s - 1 \notin T
      BY <1>3, <3>1
    <3>3. ~(i <= segments[s - 1].endIndex)
      BY <3>1, <3>2
    <3>4. segments[s].startIndex = segments[s - 1].endIndex + 1 /\ segments[s - 1].endIndex \in Int
      BY <1>1, <2>1, <3>1
    <3>5. segments[s].startIndex <= i
      BY <3>3, <3>4
    <3> QED
      BY <2>1, <3>5 DEF Owned
  <2> QED
    BY <2>2, <2>3
<1>5. ASSUME NEW u, NEW v, Owned(segments, i, u), Owned(segments, i, v)
      PROVE  u = v
  <2>1. /\ u \in 1..m /\ v \in 1..m /\ u \in Int /\ v \in Int
        /\ segments[u].startIndex <= i /\ i <= segments[u].endIndex
        /\ segments[v].startIndex <= i /\ i <= segments[v].endIndex
    BY <1>5 DEF Owned
  <2>2. /\ segments[u].startIndex \in Int /\ segments[u].endIndex \in Int
        /\ segments[v].startIndex \in Int /\ segments[v].endIndex \in Int
    BY <1>1, <2>1
  <2>3. \A a, b \in 1..m : a < b => segments[a].endIndex < segments[b].startIndex
    BY LaterSegments
  <2>4. ~(u < v)
    BY <2>1, <2>2, <2>3
  <2>5. ~(v < u)
    BY <2>1, <2>2, <2>3
  <2> QED
    BY <2>1, <2>4, <2>5
<1> QED
  BY <1>4, <1>5

LEMMA OnTheWay ==
  ASSUME NEW a \in Int, NEW b \in Int, NEW x \in Int, NEW d \in Int
  PROVE  ((a * d + (b - a) * x) - a * d) * d = (b - a) * x * d
<1>1. a * d \in Int /\ (b - a) * x \in Int
  OBVIOUS
<1>2. (a * d + (b - a) * x) - a * d = (b - a) * x
  BY <1>1
<1> QED
  BY <1>2

(* positionAt: of every track and at every moment, the answer is the place *)
(* observed last, or one on the way from it within its segment, and over a *)
(* pause it is where the recording stopped.                                *)
THEOREM PositionsAreObserved ==
  ASSUME NEW track, Located(track), NEW t \in Int
  PROVE  PositionIsObserved(track, t)
<1> DEFINE points == track.points
           segments == track.segments
           n == Len(points)
           m == Len(segments)
           answer == PositionAt(track, t)
           seen == {i \in DOMAIN points : points[i].t <= t}
           ahead == {i \in DOMAIN points : points[i].t >= t}
           latest == Max(seen)
<1>1. Parted(track) /\ \A i \in 1..n : points[i].t \in Int /\ points[i].place \in Int
  BY LocatedIsParted DEF Located
<1>2. n \in Nat /\ DOMAIN points = 1..n /\ m \in Nat /\ DOMAIN segments = 1..m
      /\ \A i, j \in 1..n : i <= j => points[i].t <= points[j].t
  BY <1>1 DEF Parted, InTimeOrder
<1>3. CASE n = 0
  <2>1. seen = {} /\ answer = Absent
    BY <1>2, <1>3 DEF PositionAt
  <2> QED
    BY <2>1 DEF PositionIsObserved
<1>4. CASE n # 0
  <2>1. n >= 1 /\ 1 \in 1..n /\ n \in 1..n
    BY <1>2, <1>4
  <2>2. t < points[1].t <=> seen = {}
    BY <1>1, <1>2, <2>1
  <2>3. t > points[n].t <=> ahead = {}
    BY <1>1, <1>2, <2>1
  <2>4. CASE seen = {} \/ ahead = {}
    <3>1. answer = Absent
      BY <2>2, <2>3, <2>4 DEF PositionAt
    <3> QED
      BY <2>4, <3>1 DEF PositionIsObserved
  <2>5. CASE seen # {} /\ ahead # {}
    <3>1. answer = Within(points, segments[OwningSegment(track, t)], t)
      <4>1. ~(n = 0) /\ ~(t < points[1].t \/ t > points[n].t)
        BY <1>4, <2>2, <2>3, <2>5
      <4> QED
        BY <4>1 DEF PositionAt
    <3>2. latest \in seen /\ \A i \in seen : i <= latest
      BY <1>2, <2>5, GreatestIs
    <3>3. latest \in 1..n /\ points[latest].t <= t
      BY <1>2, <3>2
    <3>4. \A i \in 1..n : points[i].t <= t => i <= latest
      BY <1>2, <3>2
    <3> HIDE DEF latest
    <3>5. SegmentsCover(n, segments)
      BY <1>1, <2>1 DEF Parted
    <3>6. PICK o : Owned(segments, latest, o)
      BY <1>2, <3>3, <3>5, OwnerIs
    <3>7. /\ o \in 1..m /\ segments[o].startIndex <= latest /\ latest <= segments[o].endIndex
          /\ segments[o].startIndex \in 1..n /\ segments[o].endIndex \in 1..n
      BY <3>5, <3>6 DEF Owned, SegmentsCover
    <3>8. OwningSegment(track, t) = o
      <4> DEFINE begun == {s \in DOMAIN segments : t >= points[segments[s].startIndex].t}
      <4>1. o \in begun
        <5>1. points[segments[o].startIndex].t <= points[latest].t
          BY <1>2, <3>3, <3>7
        <5>2. points[segments[o].startIndex].t \in Int /\ points[latest].t \in Int
          BY <1>1, <3>3, <3>7
        <5>3. t >= points[segments[o].startIndex].t
          BY <3>3, <5>1, <5>2
        <5> QED
          BY <1>2, <3>7, <5>3
      <4>2. ASSUME NEW s \in begun PROVE s <= o
        <5>1. s \in 1..m /\ segments[s].startIndex \in 1..n /\ points[segments[s].startIndex].t <= t
          <6>1. s \in 1..m
            BY <1>2
          <6>2. segments[s].startIndex \in 1..n
            BY <3>5, <6>1 DEF SegmentsCover
          <6> QED
            BY <1>1, <6>1, <6>2
        <5>2. segments[s].startIndex <= latest
          BY <3>4, <5>1
        <5>3. o < s => segments[o].endIndex < segments[s].startIndex
          BY <1>2, <3>5, <3>7, <5>1, LaterSegments
        <5> QED
          BY <3>3, <3>7, <5>1, <5>2, <5>3
      <4>3. begun \in SUBSET (1..m) /\ begun # {}
        BY <1>2, <4>1
      <4> HIDE DEF begun
      <4>4. Max(begun) \in begun /\ \A x \in begun : x <= Max(begun)
        BY <1>2, <4>3, GreatestIs
      <4>5. Max(begun) = o
        <5>1. Max(begun) \in 1..m /\ Max(begun) <= o
          BY <4>2, <4>3, <4>4
        <5>2. o <= Max(begun)
          BY <4>1, <4>4
        <5> QED
          BY <3>7, <5>1, <5>2
      <4> QED
        BY <4>5 DEF OwningSegment, begun
    <3> DEFINE within == {segments[o].startIndex} \cup
                           {i \in segments[o].startIndex..segments[o].endIndex : points[i].t <= t}
               index == Max(within)
    <3>9. index = latest
      <4>1. within \in SUBSET (1..n) /\ within # {}
        BY <1>2, <3>7
      <4>2. latest \in within
        BY <3>3, <3>7
      <4>3. ASSUME NEW i \in within PROVE i <= latest
        <5>1. i \in 1..n
          BY <4>1
        <5> QED
          BY <3>4, <3>7, <5>1
      <4> HIDE DEF within
      <4>4. Max(within) \in within /\ \A x \in within : x <= Max(within)
        BY <1>2, <4>1, GreatestIs
      <4> QED
        <5>1. Max(within) \in 1..n /\ Max(within) <= latest
          BY <4>1, <4>3, <4>4
        <5>2. latest <= Max(within)
          BY <4>2, <4>4
        <5>3. Max(within) = latest
          BY <3>3, <5>1, <5>2
        <5> QED
          BY <5>3 DEF within
    <3>10. Within(points, segments[o], t) =
             IF points[index].t = t \/ index = n \/ index >= segments[o].endIndex
               THEN [num |-> points[index].place, den |-> 1]
               ELSE [num |-> points[index].place * (points[index + 1].t - points[index].t)
                               + (points[index + 1].place - points[index].place) * (t - points[index].t),
                     den |-> points[index + 1].t - points[index].t]
      BY DEF Within
    <3> HIDE DEF within, index
    <3>11. (\E s \in DOMAIN segments : segments[s].endIndex = latest) <=> (latest = n \/ latest >= segments[o].endIndex)
      <4>1. ASSUME NEW s \in 1..m, segments[s].endIndex = latest
            PROVE  latest >= segments[o].endIndex
        <5>1. Owned(segments, latest, s)
          BY <3>3, <3>5, <4>1 DEF Owned, SegmentsCover
        <5>2. s = o
          BY <1>2, <3>3, <3>5, <3>6, <5>1, OwnerIs
        <5> QED
          BY <3>3, <4>1, <5>2
      <4>2. latest = n => segments[m].endIndex = latest /\ m \in 1..m
        BY <1>2, <3>5, <3>7 DEF SegmentsCover
      <4>3. latest >= segments[o].endIndex => segments[o].endIndex = latest
        BY <3>3, <3>7
      <4> QED
        BY <1>2, <3>7, <4>1, <4>2, <4>3
    <3> DEFINE stopped == points[latest].t = t \/ (\E s \in DOMAIN segments : segments[s].endIndex = latest)
    <3>12. CASE stopped
      <4>1. answer = [num |-> points[latest].place, den |-> 1]
        BY <3>1, <3>8, <3>9, <3>10, <3>11, <3>12
      <4> QED
        BY <2>5, <3>12, <4>1 DEF PositionIsObserved, latest
    <3>13. CASE ~stopped
      <4> DEFINE a == points[latest].place
                 b == points[latest + 1].place
                 d == points[latest + 1].t - points[latest].t
                 x == t - points[latest].t
      <4>1. answer = [num |-> a * d + (b - a) * x, den |-> d]
        BY <3>1, <3>8, <3>9, <3>10, <3>11, <3>13
      <4>2. latest + 1 \in 1..n
        BY <1>2, <3>3, <3>11, <3>13
      <4>3. a \in Int /\ b \in Int /\ d \in Int /\ x \in Int /\ d > 0
        <5>1. ~(points[latest + 1].t <= t)
          BY <3>3, <3>4, <4>2
        <5>2. points[latest + 1].t \in Int /\ points[latest].t \in Int
          BY <1>1, <3>3, <4>2
        <5> QED
          BY <1>1, <3>3, <4>2, <5>1, <5>2, SMTT(30)
      <4> HIDE DEF a, b, d, x
      <4>4. answer.num = a * d + (b - a) * x /\ answer.den = d
        BY <4>1
      <4> HIDE DEF answer
      <4>5. (answer.num - a * answer.den) * d = (b - a) * x * answer.den
        BY <4>3, <4>4, OnTheWay
      <4>6. answer.den > 0
        BY <4>3, <4>4
      <4>7. /\ answer.den > 0
            /\ (answer.num - points[latest].place * answer.den) * (points[latest + 1].t - points[latest].t)
                 = (points[latest + 1].place - points[latest].place) * (t - points[latest].t) * answer.den
        BY <4>5, <4>6 DEF a, b, d, x
      <4> QED
        BY <2>5, <3>13, <4>7 DEF PositionIsObserved, latest, answer
    <3> QED
      BY <3>12, <3>13
  <2> QED
    BY <2>4, <2>5
<1> QED
  BY <1>3, <1>4

-----------------------------------------------------------------------------
(* On the map.                                                             *)

(* The least and the greatest of the values of a sequence.                 *)
ValuesOf(f, n) == {f[i] : i \in 1..n}

LEMMA ExtremesOf ==
  ASSUME NEW n \in Nat, n >= 1, NEW f, \A i \in 1..n : f[i] \in Int
  PROVE  /\ Max(ValuesOf(f, n)) \in ValuesOf(f, n) /\ Min(ValuesOf(f, n)) \in ValuesOf(f, n)
         /\ \A i \in 1..n : Min(ValuesOf(f, n)) <= f[i] /\ f[i] <= Max(ValuesOf(f, n))
<1> DEFINE values == {f[i] : i \in 1..n}
           S == {k \in 1..n : \E h, l \in 1..k : \A i \in 1..k : f[l] <= f[i] /\ f[i] <= f[h]}
<1>1. 1 \in S
  BY DEF S
<1>2. ASSUME NEW k \in 1..(n - 1), k \in S PROVE k + 1 \in S
  <2>1. PICK h \in 1..k, l \in 1..k : \A i \in 1..k : f[l] <= f[i] /\ f[i] <= f[h]
    BY <1>2
  <2>2. k + 1 \in 1..n /\ h \in 1..n /\ l \in 1..n /\ (\A i \in 1..k : i \in 1..n)
        /\ (\A i \in 1..(k + 1) : i \in 1..k \/ i = k + 1) /\ h \in 1..(k + 1) /\ l \in 1..(k + 1) /\ k + 1 \in 1..(k + 1)
    BY <1>2
  <2>3. f[h] \in Int /\ f[l] \in Int /\ f[k + 1] \in Int /\ \A i \in 1..k : f[i] \in Int
    BY <2>2
  <2>4. PICK a \in {h, k + 1} : f[h] <= f[a] /\ f[k + 1] <= f[a]
    BY <2>3
  <2>5. PICK b \in {l, k + 1} : f[b] <= f[l] /\ f[b] <= f[k + 1]
    BY <2>3
  <2>6. f[a] \in Int /\ f[b] \in Int /\ a \in 1..(k + 1) /\ b \in 1..(k + 1)
    BY <2>2, <2>3
  <2>7. \A i \in 1..(k + 1) : f[b] <= f[i] /\ f[i] <= f[a]
    BY <2>1, <2>2, <2>3, <2>4, <2>5, <2>6
  <2> QED
    BY <2>2, <2>6, <2>7
<1>3. 1 \in Int /\ n \in Int
  OBVIOUS
<1> HIDE DEF S
<1>4. \A k \in 1..n : k \in S
  BY <1>1, <1>2, <1>3, UpTo
<1>5. n \in S
  BY <1>4
<1>6. PICK h \in 1..n, l \in 1..n : \A i \in 1..n : f[l] <= f[i] /\ f[i] <= f[h]
  BY <1>5 DEF S
<1>7. f[h] \in values /\ f[l] \in values /\ (\A v \in values : v \in Int) /\ (\A v \in values : f[l] <= v /\ v <= f[h])
  BY <1>6
<1>8. \A v \in values : f[h] >= v
  BY <1>7
<1>9. Max(values) = CHOOSE x \in values : \A y \in values : x >= y
  BY DEF Max
<1>10. Min(values) = CHOOSE x \in values : \A y \in values : x <= y
  BY DEF Min
<1>11. Max(values) \in values /\ \A y \in values : Max(values) >= y
  BY <1>7, <1>8, <1>9
<1>12. Min(values) \in values /\ \A y \in values : Min(values) <= y
  BY <1>7, <1>10
<1>13. \A i \in 1..n : f[i] \in values
  OBVIOUS
<1> HIDE DEF values
<1>14. \A i \in 1..n : Min(values) <= f[i] /\ f[i] <= Max(values)
  BY <1>7, <1>11, <1>12, <1>13
<1> QED
  BY <1>11, <1>12, <1>14 DEF values, ValuesOf

(* A line on the map that is of the segment from `begin` to `end`.         *)
LineOf(points, begin, end, line) ==
  /\ Len(line) \in Nat /\ DOMAIN line = 1..Len(line)
  /\ begin = end => Len(line) = 1
  /\ begin # end => Len(line) >= 2
  /\ line[1] = points[begin] /\ line[Len(line)] = points[end]
  /\ \A k \in 1..Len(line) : line[k] \in {points[i] : i \in begin..end}

(* The cache, if there is one, has a line of each segment.                 *)
Cached(track) ==
  track.simplified # Absent =>
    \A s \in DOMAIN track.segments :
      LineOf(track.points, track.segments[s].startIndex, track.segments[s].endIndex, track.simplified[s])

LEMMA GeometryOf ==
  ASSUME NEW track, Located(track), Cached(track), NEW s \in DOMAIN track.segments
  PROVE  LineOf(track.points, track.segments[s].startIndex, track.segments[s].endIndex, SegmentGeometry(track, s))
<1> DEFINE points == track.points
           begin == track.segments[s].startIndex
           end == track.segments[s].endIndex
<1>1. CASE track.simplified # Absent
  BY <1>1 DEF SegmentGeometry, Cached
<1>2. CASE track.simplified = Absent
  <2>1. SegmentGeometry(track, s) = SubSeq(points, begin, end)
    BY <1>2 DEF SegmentGeometry
  <2>2. begin \in 1..Len(points) /\ end \in 1..Len(points) /\ begin <= end /\ Len(points) \in Nat
    <3>1. Parted(track) /\ points # << >>
      <4>1. Parted(track)
        BY LocatedIsParted
      <4>2. points = << >> => DOMAIN track.segments = {}
        BY <4>1 DEF Parted
      <4> QED
        BY <4>1, <4>2
    <3> QED
      BY <3>1 DEF Parted, SegmentsCover
  <2>3. points \in Seq(ToSet(points))
    BY DEF Located
  <2> HIDE DEF begin, end, points
  <2> DEFINE line == SubSeq(points, begin, end)
  <2>4. Len(line) = (end - begin) + 1 /\ \A k \in 1..((end - begin) + 1) : line[k] = points[(begin + k) - 1]
    BY <2>2, <2>3
  <2>5. line \in Seq(ToSet(points))
    BY <2>2, <2>3
  <2>6. Len(line) \in Nat /\ DOMAIN line = 1..Len(line)
    BY <2>5
  <2> HIDE DEF line
  <2>7. line[1] = points[begin] /\ line[Len(line)] = points[end]
    <3>1. 1 \in 1..((end - begin) + 1) /\ (end - begin) + 1 \in 1..((end - begin) + 1)
          /\ (begin + 1) - 1 = begin /\ (begin + ((end - begin) + 1)) - 1 = end
      BY <2>2
    <3> QED
      BY <2>4, <3>1
  <2>8. \A k \in 1..Len(line) : line[k] \in {points[i] : i \in begin..end}
    <3>1. \A k \in 1..((end - begin) + 1) : (begin + k) - 1 \in begin..end
      BY <2>2
    <3> QED
      BY <2>4, <3>1
  <2>9. (begin = end => Len(line) = 1) /\ (begin # end => Len(line) >= 2)
    BY <2>2, <2>4
  <2>10. LineOf(points, begin, end, line)
    BY <2>6, <2>7, <2>8, <2>9 DEF LineOf
  <2> QED
    BY <2>1, <2>10 DEF line, begin, end, points
<1> QED
  BY <1>1, <1>2

(* No two segments share an id.                                            *)
OwnIds(segments) == \A s, u \in DOMAIN segments : segments[s].id = segments[u].id => s = u

(* The feature of a segment.                                               *)
FeatureOf(track, s) == [segmentId |-> track.segments[s].id, line |-> SegmentGeometry(track, s)]

LEMMA DrawnLines ==
  ASSUME NEW track, Located(track), Cached(track), OwnIds(track.segments)
  PROVE  LET drawn == BuildTrackLineFeatures(track)
             m == Len(track.segments)
             begin(s) == track.segments[s].startIndex
             end(s) == track.segments[s].endIndex
         IN /\ m \in Nat /\ DOMAIN track.segments = 1..m
            /\ \A f \in drawn : \E s \in 1..m : f = FeatureOf(track, s) /\ begin(s) # end(s)
            /\ \A s \in 1..m : begin(s) # end(s) => FeatureOf(track, s) \in drawn
            /\ \A f \in drawn, s \in 1..m : f.segmentId = track.segments[s].id => f = FeatureOf(track, s) /\ begin(s) # end(s)
            /\ IsFiniteSet(drawn) /\ Cardinality(drawn) <= m
<1> DEFINE drawn == BuildTrackLineFeatures(track)
           segments == track.segments
           m == Len(segments)
           begin(s) == segments[s].startIndex
           end(s) == segments[s].endIndex
           long == {s \in 1..m : Len(SegmentGeometry(track, s)) >= 2}
           F == [s \in long |-> FeatureOf(track, s)]
<1>1. m \in Nat /\ DOMAIN segments = 1..m
  BY LocatedIsParted DEF Parted
<1>2. \A s \in 1..m : s \in long <=> begin(s) # end(s)
  <2> TAKE s \in 1..m
  <2>1. LineOf(track.points, begin(s), end(s), SegmentGeometry(track, s))
    BY <1>1, GeometryOf
  <2> HIDE DEF begin, end
  <2> QED
    BY <2>1 DEF LineOf
<1>3. drawn = {FeatureOf(track, s) : s \in long}
  BY <1>1 DEF BuildTrackLineFeatures, FeatureOf
<1>4. IsFiniteSet(long) /\ Cardinality(long) <= m
  <2>1. long \in SUBSET (1..m) /\ IsFiniteSet(1..m) /\ Cardinality(1..m) = m
    BY <1>1, FS_Interval
  <2> HIDE DEF long
  <2> QED
    BY <2>1, FS_Subset
<1>5. long \in SUBSET (1..m)
  OBVIOUS
<1> HIDE DEF long, drawn, m, begin, end
<1>6. F \in Surjection(long, drawn)
  BY <1>3 DEF Surjection
<1>7. IsFiniteSet(drawn) /\ Cardinality(drawn) <= Cardinality(long)
  BY <1>4, <1>6, FS_Surjection
<1>8. Cardinality(drawn) \in Nat /\ Cardinality(long) \in Nat
  BY <1>4, <1>7, FS_CardinalityType
<1>9. \A f \in drawn : \E s \in 1..m : f = FeatureOf(track, s) /\ begin(s) # end(s)
  BY <1>2, <1>3, <1>5
<1>10. \A s \in 1..m : begin(s) # end(s) => FeatureOf(track, s) \in drawn
  BY <1>2, <1>3
<1>11. ASSUME NEW f \in drawn, NEW s \in 1..m, f.segmentId = segments[s].id
       PROVE  f = FeatureOf(track, s) /\ begin(s) # end(s)
  <2>1. PICK u \in 1..m : f = FeatureOf(track, u) /\ begin(u) # end(u)
    BY <1>9
  <2>2. f.segmentId = segments[u].id
    BY <2>1 DEF FeatureOf
  <2>3. u = s
    BY <1>1, <1>11, <2>2 DEF OwnIds
  <2> QED
    BY <2>1, <2>3
<1>12. Cardinality(drawn) <= m
  BY <1>1, <1>4, <1>7, <1>8
<1> QED
  BY <1>1, <1>7, <1>9, <1>10, <1>11, <1>12 DEF begin, end, drawn, m

(* The marks are of the trip's ends and of its laps, a mark of each.       *)
LEMMA MarksOf ==
  ASSUME NEW track, Located(track), NEW laps, IsFiniteSet(laps), \A lap \in laps : lap.endIndex \in DOMAIN track.points
  PROVE  LET marks == BuildTrackEndpointFeatures(track) \cup BuildLapFeatures(track, laps)
         IN /\ Cardinality(marks) = Cardinality(laps) + Earlier(2, Len(track.points))
            /\ \A mark \in marks : \E i \in DOMAIN track.points : mark.at = track.points[i]
<1> DEFINE points == track.points
           n == Len(points)
           ends == BuildTrackEndpointFeatures(track)
           lapped == BuildLapFeatures(track, laps)
           begun == [kind |-> "start", at |-> points[1]]
           finish == [kind |-> "finish", at |-> points[n]]
           F == [lap \in laps |-> [lap |-> lap, at |-> points[lap.endIndex]]]
<1>1. n \in Nat /\ DOMAIN points = 1..n
  BY LocatedIsParted DEF Parted
<1>2. lapped = {F[lap] : lap \in laps}
  BY DEF BuildLapFeatures
<1>3. \A lap \in laps : F[lap].lap = lap /\ F[lap].at = points[lap.endIndex] /\ DOMAIN F[lap] = {"lap", "at"}
  OBVIOUS
<1>4. IsFiniteSet(lapped) /\ Cardinality(lapped) = Cardinality(laps)
  <2>1. F \in [laps -> lapped] /\ (\A a, b \in laps : F[a] = F[b] => a = b) /\ \A y \in lapped : \E a \in laps : F[a] = y
    <3>1. DOMAIN F = laps /\ F = [a \in laps |-> F[a]]
      OBVIOUS
    <3> HIDE DEF F, lapped
    <3>2. \A a, b \in laps : F[a] = F[b] => a = b
      BY <1>3
    <3>3. \A y \in lapped : \E a \in laps : F[a] = y
      BY <1>2
    <3>4. F \in [laps -> lapped]
      BY <1>2, <3>1
    <3> QED
      BY <3>2, <3>3, <3>4
  <2> HIDE DEF F, lapped
  <2>2. F \in Surjection(laps, lapped) /\ F \in Injection(laps, lapped)
    BY <2>1 DEF Surjection, Injection, IsInjective
  <2> QED
    BY <2>2, FS_Surjection
<1>5. ends = (IF n >= 1 THEN {begun} ELSE {}) \cup (IF n >= 2 THEN {finish} ELSE {})
  <2> DEFINE A == {[kind |-> "start", at |-> points[i]] : i \in DOMAIN points \cap {1}}
             B == {[kind |-> "finish", at |-> points[i]] : i \in (DOMAIN points \ {1}) \cap {n}}
  <2>1. ends = A \cup B
    BY DEF BuildTrackEndpointFeatures
  <2>2. DOMAIN points \cap {1} = IF n >= 1 THEN {1} ELSE {}
    BY <1>1
  <2>3. (DOMAIN points \ {1}) \cap {n} = IF n >= 2 THEN {n} ELSE {}
    BY <1>1
  <2>4. A = IF n >= 1 THEN {begun} ELSE {}
    BY <2>2
  <2>5. B = IF n >= 2 THEN {finish} ELSE {}
    BY <2>3
  <2> HIDE DEF A, B, ends
  <2> QED
    BY <2>1, <2>4, <2>5
<1>6. begun # finish /\ begun.at = points[1] /\ finish.at = points[n]
      /\ DOMAIN begun = {"kind", "at"} /\ DOMAIN finish = {"kind", "at"}
  <2>1. begun.kind = "start" /\ finish.kind = "finish"
    OBVIOUS
  <2>2. begun # finish
    BY <2>1
  <2> QED
    BY <2>2
<1>7. {"kind", "at"} # {"lap", "at"}
  OBVIOUS
<1> HIDE DEF F, lapped, ends, begun, finish, n, points
<1>8. IsFiniteSet(ends) /\ Cardinality(ends) = Earlier(2, n)
  <2>1. CASE n = 0
    <3>1. ends = {} /\ Earlier(2, n) = 0
      BY <1>5, <2>1 DEF Earlier
    <3> QED
      BY <3>1, FS_EmptySet
  <2>2. CASE n = 1
    <3>1. ends = {begun} /\ Earlier(2, n) = 1
      BY <1>5, <2>2 DEF Earlier
    <3> QED
      BY <3>1, FS_Singleton
  <2>3. CASE n >= 2
    <3>1. ends = {begun} \cup {finish} /\ Earlier(2, n) = 2
      BY <1>1, <1>5, <2>3 DEF Earlier
    <3>2. IsFiniteSet({begun}) /\ Cardinality({begun}) = 1 /\ finish \notin {begun}
      BY <1>6, FS_Singleton
    <3>3. IsFiniteSet({begun} \cup {finish}) /\ Cardinality({begun} \cup {finish}) = Cardinality({begun}) + 1
      BY <3>2, FS_AddElement
    <3> QED
      BY <3>1, <3>2, <3>3
  <2> QED
    BY <1>1, <2>1, <2>2, <2>3
<1>9. \A mark \in ends : DOMAIN mark = {"kind", "at"} /\ \E i \in 1..n : mark.at = points[i]
  BY <1>1, <1>5, <1>6
<1>10. \A mark \in lapped : DOMAIN mark = {"lap", "at"} /\ \E i \in 1..n : mark.at = points[i]
  <2> TAKE mark \in lapped
  <2>1. PICK lap \in laps : mark = F[lap]
    BY <1>2
  <2>2. lap.endIndex \in 1..n
    BY <1>1 DEF points
  <2>3. F[lap].at = points[lap.endIndex] /\ DOMAIN F[lap] = {"lap", "at"}
    BY <1>3
  <2> QED
    BY <2>1, <2>2, <2>3
<1>11. ends \cap lapped = {}
  BY <1>7, <1>9, <1>10
<1>12. Cardinality(ends \cup lapped) = Cardinality(laps) + Earlier(2, n)
  <2>1. Cardinality(ends \cup lapped) = Cardinality(ends) + Cardinality(lapped) - Cardinality(ends \cap lapped)
    BY <1>4, <1>8, FS_Union
  <2>2. Cardinality({}) = 0 /\ Cardinality(laps) \in Nat /\ Earlier(2, n) \in Nat
    BY <1>1, <1>4, FS_EmptySet, FS_CardinalityType DEF Earlier
  <2> QED
    <3>1. Cardinality(ends \cap lapped) = 0
      BY <1>11, <2>2
    <3>2. Cardinality(ends) + Cardinality(lapped) - 0 = Cardinality(laps) + Earlier(2, n)
      BY <1>4, <1>8, <2>2
    <3> QED
      BY <2>1, <3>1, <3>2
<1> QED
  BY <1>1, <1>9, <1>10, <1>12 DEF ends, lapped, n, points

(* The frame of a track that has points.                                   *)
LEMMA FrameOf ==
  ASSUME NEW track, Located(track), NEW camera
  PROVE  LET view == FitTrack(track, camera)
             places == {track.points[i].place : i \in DOMAIN track.points}
         IN /\ track.points = << >> => view = camera
            /\ track.points # << >> =>
                 /\ view.west \in places /\ view.east \in places
                 /\ \A i \in DOMAIN track.points : view.west <= track.points[i].place /\ track.points[i].place <= view.east
<1> DEFINE points == track.points
           n == Len(points)
           view == FitTrack(track, camera)
           place == [i \in 1..n |-> points[i].place]
           places == {points[i].place : i \in DOMAIN points}
<1>1. n \in Nat /\ DOMAIN points = 1..n /\ (points = << >> <=> n = 0)
  BY DEF Located
<1>2. TrackBounds(track) = IF places = {} THEN Absent ELSE [west |-> Min(places), east |-> Max(places)]
  BY DEF TrackBounds
<1>3. CASE points = << >>
  <2>1. places = {}
    BY <1>1, <1>3
  <2> QED
    BY <1>2, <1>3, <2>1 DEF FitTrack
<1>4. CASE points # << >>
  <2>1. n >= 1 /\ \A i \in 1..n : place[i] \in Int /\ place[i] = points[i].place
    BY <1>1, <1>4 DEF Located
  <2>2. places = {place[i] : i \in 1..n}
    BY <1>1
  <2> DEFINE west == Min(places)
             east == Max(places)
  <2> HIDE DEF place, places
  <2>3. east \in places /\ west \in places /\ \A i \in 1..n : west <= place[i] /\ place[i] <= east
    <3> DEFINE values == ValuesOf(place, n)
    <3>1. Max(values) \in values /\ Min(values) \in values /\ \A i \in 1..n : Min(values) <= place[i] /\ place[i] <= Max(values)
      BY <1>1, <2>1, ExtremesOf
    <3>2. places = values
      BY <2>2 DEF ValuesOf
    <3> HIDE DEF values
    <3> QED
      BY <3>1, <3>2
  <2>4. places # {}
    BY <2>3
  <2>5. TrackBounds(track) = [west |-> west, east |-> east]
    BY <1>2, <2>4
  <2>6. west \in Int /\ east \in Int
    BY <2>1, <2>2, <2>3
  <2> HIDE DEF west, east
  <2>7. TrackBounds(track) # Absent
    BY <2>5, <2>6, TrackQueriesAssumption
  <2>8. view = [west |-> west, east |-> east]
    BY <2>5, <2>7 DEF FitTrack
  <2> HIDE DEF view
  <2>9. view.west = west /\ view.east = east
    BY <2>8
  <2>10. \A i \in DOMAIN points : view.west <= points[i].place /\ points[i].place <= view.east
    BY <1>1, <2>1, <2>3, <2>9
  <2> QED
    BY <1>4, <2>3, <2>9, <2>10 DEF view, places
<1> QED
  BY <1>3, <1>4

(* buildTrackLineFeatures, buildTrackEndpointFeatures, buildLapFeatures    *)
(* and trackBounds: of every track, with or without a cache of its lines,  *)
(* and with any laps, each segment has its line and none crosses a pause,  *)
(* and the frame holds all that is drawn and no more than the points.      *)
THEOREM MapsShowTheTrack ==
  ASSUME NEW track, Located(track), Cached(track), OwnIds(track.segments),
         NEW laps, IsFiniteSet(laps), \A lap \in laps : lap.endIndex \in DOMAIN track.points, NEW elsewhere
  PROVE  MapShowsTheTrack(track, laps, elsewhere)
<1> DEFINE points == track.points
           segments == track.segments
           n == Len(points)
           m == Len(segments)
           begin(s) == segments[s].startIndex
           end(s) == segments[s].endIndex
           drawn == BuildTrackLineFeatures(track)
           marks == BuildTrackEndpointFeatures(track) \cup BuildLapFeatures(track, laps)
           view == FitTrack(track, elsewhere)
           ofSegment(s) == {f \in drawn : f.segmentId = segments[s].id}
           places == {points[i].place : i \in DOMAIN points}
<1>1. /\ n \in Nat /\ DOMAIN points = 1..n /\ (points = << >> <=> n = 0)
      /\ m \in Nat /\ DOMAIN segments = 1..m
      /\ \A s \in 1..m : begin(s) \in 1..n /\ end(s) \in 1..n
  <2>1. Parted(track) /\ (points = << >> <=> n = 0) /\ (segments = << >> => m = 0)
    BY LocatedIsParted DEF Located
  <2>2. \A s \in 1..m : begin(s) \in 1..n /\ end(s) \in 1..n
    <3>1. CASE n = 0
      BY <2>1, <3>1 DEF Parted
    <3>2. CASE n # 0
      BY <2>1, <3>2 DEF Parted, SegmentsCover
    <3> QED
      BY <3>1, <3>2
  <2> QED
    BY <2>1, <2>2 DEF Parted
<1>2. /\ \A f \in drawn : \E s \in 1..m : f = FeatureOf(track, s) /\ begin(s) # end(s)
      /\ \A s \in 1..m : begin(s) # end(s) => FeatureOf(track, s) \in drawn
      /\ \A f \in drawn, s \in 1..m : f.segmentId = segments[s].id => f = FeatureOf(track, s) /\ begin(s) # end(s)
      /\ Cardinality(drawn) <= m
  BY DrawnLines
<1>3. \A s \in 1..m : LineOf(points, begin(s), end(s), FeatureOf(track, s).line) /\ FeatureOf(track, s).segmentId = segments[s].id
  <2> TAKE s \in 1..m
  <2>1. LineOf(points, begin(s), end(s), SegmentGeometry(track, s))
    BY <1>1, GeometryOf
  <2> QED
    BY <2>1 DEF FeatureOf
<1>4. /\ Cardinality(marks) = Cardinality(laps) + Earlier(2, n)
      /\ \A mark \in marks : \E i \in DOMAIN points : mark.at = points[i]
  BY MarksOf
<1>5. /\ points = << >> => view = elsewhere
      /\ points # << >> =>
           /\ view.west \in places /\ view.east \in places
           /\ \A i \in DOMAIN points : view.west <= points[i].place /\ points[i].place <= view.east
  BY FrameOf
<1> HIDE DEF drawn, marks, view, places, n, m, points
<1>6. ASSUME NEW s \in DOMAIN segments
      PROVE  IF begin(s) = end(s) THEN ofSegment(s) = {}
             ELSE \E f \in ofSegment(s) :
                    /\ ofSegment(s) = {f}
                    /\ f.line[1] = points[begin(s)] /\ Last(f.line) = points[end(s)]
                    /\ ToSet(f.line) \subseteq {points[i] : i \in begin(s)..end(s)}
  <2>1. s \in 1..m
    BY <1>1
  <2>2. \A f \in drawn : f.segmentId = segments[s].id => f = FeatureOf(track, s) /\ begin(s) # end(s)
    BY <1>2, <2>1
  <2>3. CASE begin(s) = end(s)
    <3>1. ofSegment(s) = {}
      BY <2>2, <2>3
    <3> QED
      BY <2>3, <3>1
  <2>4. CASE begin(s) # end(s)
    <3> DEFINE f == FeatureOf(track, s)
    <3>1. f \in drawn /\ f.segmentId = segments[s].id /\ LineOf(points, begin(s), end(s), f.line)
      BY <1>2, <1>3, <2>1, <2>4
    <3>2. ofSegment(s) = {f}
      BY <2>2, <3>1
    <3> DEFINE line == f.line
               held == {points[i] : i \in begin(s)..end(s)}
    <3>3. line[1] = points[begin(s)] /\ Last(line) = points[end(s)]
      BY <3>1 DEF LineOf, Last
    <3>4. ToSet(line) \subseteq held
      <4>1. DOMAIN line = 1..Len(line) /\ \A k \in 1..Len(line) : line[k] \in held
        BY <3>1 DEF LineOf
      <4> HIDE DEF line, held
      <4> QED
        BY <4>1 DEF ToSet
    <3> HIDE DEF f, held
    <3>5. f \in ofSegment(s)
      BY <3>1
    <3> QED
      BY <2>4, <3>2, <3>3, <3>4, <3>5 DEF held
  <2> QED
    BY <2>3, <2>4
<1>7. ASSUME NEW seenThere \in {mark.at : mark \in marks} \cup UNION {ToSet(f.line) : f \in drawn}
      PROVE  \E i \in DOMAIN points : seenThere = points[i]
  <2>1. CASE seenThere \in {mark.at : mark \in marks}
    BY <1>4, <2>1
  <2>2. CASE seenThere \in UNION {ToSet(f.line) : f \in drawn}
    <3>1. PICK f \in drawn : seenThere \in ToSet(f.line)
      BY <2>2
    <3>2. PICK s \in 1..m : f = FeatureOf(track, s)
      BY <1>2
    <3>3. LineOf(points, begin(s), end(s), f.line) /\ begin(s) \in 1..n /\ end(s) \in 1..n
      BY <1>1, <1>3, <3>2
    <3>4. seenThere \in {points[i] : i \in begin(s)..end(s)}
      BY <3>1, <3>3 DEF LineOf, ToSet
    <3>5. PICK i \in begin(s)..end(s) : seenThere = points[i]
      BY <3>4
    <3>6. i \in 1..n
      BY <1>1, <3>3
    <3> QED
      BY <1>1, <3>5, <3>6
  <2> QED
    BY <1>7, <2>1, <2>2
<1>8. \A seenThere \in {mark.at : mark \in marks} \cup UNION {ToSet(f.line) : f \in drawn} :
         view.west <= seenThere.place /\ seenThere.place <= view.east
  <2> TAKE seenThere \in {mark.at : mark \in marks} \cup UNION {ToSet(f.line) : f \in drawn}
  <2>1. PICK i \in DOMAIN points : seenThere = points[i]
    BY <1>7
  <2>2. points # << >>
    BY <1>1, <2>1
  <2> QED
    BY <1>5, <2>1, <2>2
<1>9. points # << >> => {view.west, view.east} \subseteq places
  BY <1>5
<1>10. points = << >> => view = elsewhere
  BY <1>5
<1>11. /\ \A s \in DOMAIN track.segments :
            IF begin(s) = end(s) THEN ofSegment(s) = {}
            ELSE \E f \in ofSegment(s) :
                    /\ ofSegment(s) = {f}
                    /\ f.line[1] = points[begin(s)] /\ Last(f.line) = points[end(s)]
                    /\ ToSet(f.line) \subseteq {points[i] : i \in begin(s)..end(s)}
  BY <1>6
<1> QED
  BY <1>2, <1>4, <1>8, <1>9, <1>10, <1>11 DEF MapShowsTheTrack, drawn, marks, view, places, n, m, points

-----------------------------------------------------------------------------
(* More of sums.                                                           *)

LEMMA SumOverEqual ==
  ASSUME NEW f, NEW g, NEW from \in Int, NEW to \in Int, from <= to, \A k \in (from + 1)..to : g[k] = f[k]
  PROVE  SumOver(f, from, to) = SumOver(g, from, to)
<1>1. SameAfter(f, from, to, g, from, to)
  BY DEF SameAfter
<1> QED
  BY <1>1, SumOverSame

(* A sum of differences is what is between the ends.                       *)
StepsOf(v, of, from, to) ==
  (\A k \in from..to : v[k] \in Int) /\ \A k \in (from + 1)..to : of[k] = v[k] - v[k - 1]

LEMMA Telescopes ==
  ASSUME NEW v, NEW of, NEW from \in Int, NEW to \in Int, from <= to, StepsOf(v, of, from, to)
  PROVE  SumOver(of, from, to) = v[to] - v[from]
<1> DEFINE S == {k \in from..to : SumOver(of, from, k) = v[k] - v[from]}
<1>0. (\A k \in from..to : v[k] \in Int) /\ \A k \in (from + 1)..to : of[k] = v[k] - v[k - 1]
  BY DEF StepsOf
<1>1. from \in S
  <2>1. SumOver(of, from, from) = 0 /\ from \in from..to
    BY SumOverUnrolled
  <2> QED
    BY <1>0, <2>1
<1>2. ASSUME NEW k \in from..(to - 1), k \in S PROVE k + 1 \in S
  <2>1. k \in Int /\ from <= k /\ from \in from..to /\ k \in from..to /\ k + 1 \in from..to /\ k + 1 \in (from + 1)..to /\ (k + 1) - 1 = k
    OBVIOUS
  <2>2. SumOver(of, from, k + 1) = SumOver(of, from, k) + of[k + 1] /\ of[k + 1] = v[k + 1] - v[k]
    <3>1. of[k + 1] = v[k + 1] - v[(k + 1) - 1]
      BY <1>0, <2>1
    <3> QED
      BY <2>1, <3>1, SumOverUnrolled
  <2>3. v[from] \in Int /\ v[k] \in Int /\ v[k + 1] \in Int /\ SumOver(of, from, k) = v[k] - v[from]
    BY <1>0, <1>2, <2>1
  <2> QED
    BY <2>1, <2>2, <2>3
<1>3. from \in Int /\ to \in Int /\ to \in from..to
  OBVIOUS
<1> HIDE DEF S
<1>4. \A k \in from..to : k \in S
  BY <1>1, <1>2, <1>3, UpTo
<1> QED
  BY <1>3, <1>4 DEF S

LEMMA SumOverNothing ==
  ASSUME NEW of, NEW from \in Int, NEW to \in Int, from <= to, \A k \in (from + 1)..to : of[k] = 0
  PROVE  SumOver(of, from, to) = 0
<1> DEFINE v == [k \in from..to |-> 0]
<1>1. \A k \in from..to : v[k] \in Int /\ v[k] = 0
  OBVIOUS
<1>2. \A k \in (from + 1)..to : k \in from..to /\ k - 1 \in from..to
  OBVIOUS
<1>3. \A k \in (from + 1)..to : of[k] = v[k] - v[k - 1]
  BY <1>1, <1>2
<1> HIDE DEF v
<1>4. SumOver(of, from, to) = v[to] - v[from]
  <2>1. StepsOf(v, of, from, to)
    BY <1>1, <1>3 DEF StepsOf
  <2> QED
    BY <2>1, Telescopes
<1> QED
  BY <1>1, <1>4

(* A sum of sums.                                                          *)
AddsUp(f, g, h, from, to) ==
  \A k \in (from + 1)..to : g[k] \in Int /\ h[k] \in Int /\ f[k] = g[k] + h[k]

LEMMA SumOverAdds ==
  ASSUME NEW f, NEW g, NEW h, NEW from \in Int, NEW to \in Int, from <= to, AddsUp(f, g, h, from, to)
  PROVE  /\ SumOver(f, from, to) = SumOver(g, from, to) + SumOver(h, from, to)
         /\ SumOver(f, from, to) \in Int /\ SumOver(g, from, to) \in Int /\ SumOver(h, from, to) \in Int
<1> DEFINE S == {k \in from..to : SumOver(f, from, k) = SumOver(g, from, k) + SumOver(h, from, k)}
<1>0. /\ \A k \in from..to : SumOver(g, from, k) \in Int
      /\ \A k \in from..to : SumOver(h, from, k) \in Int
  <2>1. \A k \in (from + 1)..to : g[k] \in Int /\ h[k] \in Int
    BY DEF AddsUp
  <2> QED
    BY <2>1, SumOverInt
<1>1. from \in S
  <2>1. SumOver(f, from, from) = 0 /\ SumOver(g, from, from) = 0 /\ SumOver(h, from, from) = 0 /\ from \in from..to
    BY SumOverUnrolled
  <2> QED
    BY <2>1
<1>2. ASSUME NEW k \in from..(to - 1), k \in S PROVE k + 1 \in S
  <2>1. k \in Int /\ from <= k /\ k \in from..to /\ k + 1 \in from..to /\ k + 1 \in (from + 1)..to
    OBVIOUS
  <2>2. SumOver(f, from, k + 1) = SumOver(f, from, k) + f[k + 1] /\ SumOver(g, from, k + 1) = SumOver(g, from, k) + g[k + 1]
        /\ SumOver(h, from, k + 1) = SumOver(h, from, k) + h[k + 1]
    BY <2>1, SumOverUnrolled
  <2>3. g[k + 1] \in Int /\ h[k + 1] \in Int /\ f[k + 1] = g[k + 1] + h[k + 1]
    BY <2>1 DEF AddsUp
  <2>4. SumOver(f, from, k) = SumOver(g, from, k) + SumOver(h, from, k) /\ SumOver(g, from, k) \in Int /\ SumOver(h, from, k) \in Int
    BY <1>0, <1>2, <2>1
  <2> QED
    BY <2>1, <2>2, <2>3, <2>4
<1>3. from \in Int /\ to \in Int /\ to \in from..to
  OBVIOUS
<1> HIDE DEF S
<1>4. \A k \in from..to : k \in S
  BY <1>1, <1>2, <1>3, UpTo
<1>5. SumOver(f, from, to) = SumOver(g, from, to) + SumOver(h, from, to)
  BY <1>3, <1>4 DEF S
<1> QED
  BY <1>0, <1>3, <1>5

(* The places of a run, picked.                                            *)
LEMMA RisingRun ==
  ASSUME NEW lo \in Int, NEW hi \in Int, lo <= hi, NEW p, Rising(p, lo..hi)
  PROVE  /\ Cardinality(lo..hi) = (hi - lo) + 1
         /\ \A k \in 1..((hi - lo) + 1) : p[k] = (lo + k) - 1
<1> DEFINE size == (hi - lo) + 1
           q == [k \in 1..size |-> (p[k] - lo) + 1]
<1>1. Cardinality(lo..hi) = size /\ size \in Nat /\ Cardinality(1..size) = size
  <2>1. Cardinality(lo..hi) = IF lo > hi THEN 0 ELSE (hi - lo) + 1
    BY FS_Interval
  <2>2. size \in Nat /\ size >= 1
    OBVIOUS
  <2> HIDE DEF size
  <2>3. Cardinality(1..size) = IF 1 > size THEN 0 ELSE (size - 1) + 1
    BY <2>2, FS_Interval
  <2> QED
    BY <2>1, <2>2, <2>3 DEF size
<1>2. \A k \in 1..size : p[k] \in lo..hi
  BY <1>1 DEF Rising
<1>3. \A k \in 1..size : q[k] \in 1..size
  BY <1>2
<1>4. \A i, j \in 1..size : i < j => q[i] < q[j]
  BY <1>1, <1>2 DEF Rising
<1>5. \A x \in 1..size : \E k \in 1..size : q[k] = x
  <2> TAKE x \in 1..size
  <2>1. (lo + x) - 1 \in lo..hi
    OBVIOUS
  <2>2. PICK k \in 1..size : p[k] = (lo + x) - 1
    BY <1>1, <2>1 DEF Rising
  <2> QED
    BY <2>2
<1>6. q \in [1..size -> 1..size]
  BY <1>3
<1>7. \A k \in 1..size : q[k] = (p[k] - lo) + 1
  OBVIOUS
<1> HIDE DEF q, size
<1>8. Rising(q, 1..size)
  BY <1>1, <1>4, <1>5, <1>6 DEF Rising
<1>9. \A k \in 1..size : q[k] = k
  <2> DEFINE all == 1..size
  <2>1. all \in SUBSET (1..size) /\ Cardinality(all) \in Nat /\ Rising(q, all) /\ size \in Nat
    BY <1>1, <1>8
  <2>3. \A k \in 1..size : k \in all
    OBVIOUS
  <2> HIDE DEF all
  <2>2. \A x \in Nat : (\A k \in 1..x : k \in all) => \A k \in 1..x : k \in 1..Cardinality(all) /\ q[k] = k
    BY <2>1, RisingStarts, ZenonT(30)
  <2>4. (\A k \in 1..size : k \in all) => \A k \in 1..size : k \in 1..Cardinality(all) /\ q[k] = k
    BY <2>1, <2>2
  <2> QED
    BY <2>3, <2>4
<1>10. \A k \in 1..size : p[k] = (lo + k) - 1
  BY <1>2, <1>7, <1>9
<1> QED
  BY <1>1, <1>10 DEF size

-----------------------------------------------------------------------------
(* What a track has travelled.                                             *)

(* The legs of a track are those that do not lead to where a segment       *)
(* begins.                                                                 *)
LegsKnown(track) ==
  /\ \A k \in Legs(track) : k \in 2..Len(track.points)
  /\ \A s \in 1..Len(track.segments) :
       /\ track.segments[s].startIndex \notin Legs(track)
       /\ \A k \in (track.segments[s].startIndex + 1)..track.segments[s].endIndex : k \in Legs(track)

LEMMA LegsAre ==
  ASSUME NEW track, SegmentsCover(Len(track.points), track.segments), Len(track.points) \in Nat,
         DOMAIN track.segments = 1..Len(track.segments)
  PROVE  LegsKnown(track)
<1> DEFINE segments == track.segments
           n == Len(track.points)
           m == Len(segments)
           begin(s) == segments[s].startIndex
           end(s) == segments[s].endIndex
<1>1. \A s \in 1..m : begin(s) \in 1..n /\ end(s) \in 1..n /\ begin(s) <= end(s)
  BY DEF SegmentsCover
<1>2. \A k : k \in Legs(track) <=> \E s \in 1..m : k \in (begin(s) + 1)..end(s)
  BY DEF Legs
<1>3. \A s, u \in 1..m : s < u => end(s) < begin(u)
  BY LaterSegments
<1>4. m \in Nat /\ n \in Nat
  BY DEF SegmentsCover
<1> HIDE DEF begin, end, n, m
<1>5. \A k \in Legs(track) : k \in 2..n
  <2> TAKE k \in Legs(track)
  <2>1. PICK s \in 1..m : k \in (begin(s) + 1)..end(s)
    BY <1>2
  <2>2. begin(s) \in 1..n /\ end(s) \in 1..n
    BY <1>1
  <2> QED
    BY <1>4, <2>1, <2>2
<1>6. ASSUME NEW s \in 1..m, begin(s) \in Legs(track) PROVE FALSE
  <2>1. PICK u \in 1..m : begin(s) \in (begin(u) + 1)..end(u)
    BY <1>2, <1>6
  <2>2. begin(s) \in Int /\ begin(u) \in Int /\ end(u) \in Int /\ end(s) \in Int /\ begin(s) <= end(s)
    BY <1>1
  <2>3. s < u => end(s) < begin(u)
    BY <1>3
  <2>4. u < s => end(u) < begin(s)
    BY <1>3
  <2>5. s = u \/ s < u \/ u < s
    BY <1>4
  <2> QED
    BY <2>1, <2>2, <2>3, <2>4, <2>5
<1>7. \A s \in 1..m : \A k \in (begin(s) + 1)..end(s) : k \in Legs(track)
  BY <1>2
<1> QED
  BY <1>5, <1>6, <1>7 DEF LegsKnown, begin, end, n, m

(* How far, and how long, each leg of a track was.                         *)
MetresOf(track) == [k \in 1..Len(track.points) |-> IF k \in Legs(track) THEN LegM(track, k) ELSE 0]
MomentsOf(track) == [k \in 1..Len(track.points) |-> IF k \in Legs(track) THEN LegMs(track, k) ELSE 0]

LEMMA LegsAreNumbers ==
  ASSUME NEW track, Located(track), NEW k \in 2..Len(track.points)
  PROVE  LegM(track, k) \in Nat /\ LegMs(track, k) \in Int
<1>1. k \in 1..Len(track.points) /\ k - 1 \in 1..Len(track.points) /\ DOMAIN track.points = 1..Len(track.points)
  BY DEF Located
<1>2. /\ track.points[k].t \in Int /\ track.points[k - 1].t \in Int
      /\ track.points[k].place \in Int /\ track.points[k - 1].place \in Int
  BY <1>1 DEF Located
<1>3. \A x, y \in Int : Apart(x, y) \in Nat
  BY DEF Apart
<1>4. LegM(track, k) = Apart(track.points[k].place, track.points[k - 1].place) /\ LegMs(track, k) = track.points[k].t - track.points[k - 1].t
  BY DEF LegM, LegMs
<1> DEFINE p == track.points[k].place
           q == track.points[k - 1].place
           u == track.points[k].t
           v == track.points[k - 1].t
<1>5. p \in Int /\ q \in Int /\ u \in Int /\ v \in Int /\ LegM(track, k) = Apart(p, q) /\ LegMs(track, k) = u - v
  BY <1>2, <1>4
<1> HIDE DEF p, q, u, v
<1> QED
  BY <1>3, <1>5

(* The moving time is that of the legs.                                    *)
LEMMA MovingIs ==
  ASSUME NEW track, Located(track), track.points # << >>
  PROVE  ComputeStats(track).movingTimeMs = SumOver(MomentsOf(track), 1, Len(track.points))
<1> DEFINE segments == track.segments
           n == Len(track.points)
           m == Len(segments)
           begin(s) == segments[s].startIndex
           end(s) == segments[s].endIndex
           at == [k \in 1..n |-> track.points[k].t]
           moving == [s \in 1..m |-> at[end(s)] - at[begin(s)]]
           of == MomentsOf(track)
           S == {s \in 1..m : SumOver(moving, 0, s) = SumOver(of, 1, end(s))}
<1>1. /\ n \in Nat /\ n >= 1 /\ m \in Nat /\ m >= 1 /\ SegmentsCover(n, segments)
      /\ DOMAIN segments = 1..m /\ DOMAIN track.points = 1..n
  <2>1. n \in Nat /\ n >= 1 /\ m \in Nat /\ SegmentsCover(n, segments) /\ DOMAIN segments = 1..m /\ DOMAIN track.points = 1..n
    BY LocatedIsParted DEF Parted
  <2>2. m # 0
    BY <2>1 DEF SegmentsCover, Located
  <2> QED
    BY <2>1, <2>2
<1>2. /\ \A s \in 1..m : begin(s) \in 1..n /\ end(s) \in 1..n /\ begin(s) <= end(s) /\ (s > 1 => begin(s) = end(s - 1) + 1)
      /\ begin(1) = 1 /\ end(m) = n
  BY <1>1 DEF SegmentsCover
<1>3. LegsKnown(track)
  BY <1>1, LegsAre
<1>4. \A k \in 2..n : of[k] \in Int
  BY <1>1, LegsAreNumbers DEF MomentsOf
<1>5. \A k \in 1..n : at[k] \in Int
  BY <1>1 DEF Located
<1>6. \A k \in 2..n : k \in Legs(track) => of[k] = at[k] - at[k - 1]
  <2> TAKE k \in 2..n
  <2>1. k \in 1..n /\ k - 1 \in 1..n
    BY <1>1
  <2>2. at[k] = track.points[k].t /\ at[k - 1] = track.points[k - 1].t
    BY <2>1
  <2> QED
    BY <2>1, <2>2 DEF MomentsOf, LegMs
<1>7. \A k \in 1..n : k \notin Legs(track) => of[k] = 0
  BY DEF MomentsOf
<1>8. ComputeStats(track).movingTimeMs = SumOver(moving, 0, m)
  <2> DEFINE told == [s \in DOMAIN segments |-> track.points[end(s)].t - track.points[begin(s)].t]
  <2>1. ComputeStats(track).movingTimeMs = SumOver(told, 0, Len(told))
    BY DEF ComputeStats
  <2>2. told = moving
    BY <1>1, <1>2
  <2>3. Len(moving) = m
    <3>1. \A s \in 1..m : at[end(s)] \in Int /\ at[begin(s)] \in Int
      BY <1>2, <1>5
    <3>3. moving \in [1..m -> Int]
      BY <3>1
    <3>2. moving \in Seq(Int)
      BY <1>1, <3>3, SeqDef, ZenonT(30)
    <3> QED
      BY <1>1, <3>2, <3>3, LenProperties
  <2> HIDE DEF told, moving
  <2> QED
    BY <2>1, <2>2, <2>3
<1>9. \A s \in 1..m : moving[s] = at[end(s)] - at[begin(s)]
  OBVIOUS
<1> HIDE DEF begin, end, n, m, at, moving, of
<1>10. \A s \in 1..m : SumOver(of, begin(s), end(s)) = moving[s]
  <2> TAKE s \in 1..m
  <2>1. begin(s) \in 1..n /\ end(s) \in 1..n /\ begin(s) <= end(s)
    BY <1>2
  <2>2. \A k \in begin(s)..end(s) : k \in 1..n
    BY <1>1, <2>1
  <2>3. \A k \in (begin(s) + 1)..end(s) : k \in 2..n /\ k \in Legs(track)
    <3>1. \A k \in (begin(s) + 1)..end(s) : k \in Legs(track)
      BY <1>3 DEF LegsKnown, begin, end, m
    <3> QED
      BY <1>1, <2>1, <3>1
  <2>4. \A k \in (begin(s) + 1)..end(s) : of[k] = at[k] - at[k - 1]
    BY <1>6, <2>3
  <2>5. SumOver(of, begin(s), end(s)) = at[end(s)] - at[begin(s)]
    <3>1. \A k \in begin(s)..end(s) : at[k] \in Int
      BY <1>5, <2>2
    <3>2. begin(s) \in Int /\ end(s) \in Int
      BY <2>1
    <3>3. StepsOf(at, of, begin(s), end(s))
      BY <2>4, <3>1 DEF StepsOf
    <3> QED
      BY <2>1, <3>2, <3>3, Telescopes
  <2> QED
    BY <1>9, <2>5
<1>11. SumOver(moving, 0, 0) = 0 /\ \A s \in 0..(m - 1) : SumOver(moving, 0, s + 1) = SumOver(moving, 0, s) + moving[s + 1]
  <2>1. 0 \in Int
    OBVIOUS
  <2>2. SumOver(moving, 0, 0) = 0 /\ \A s \in Int : 0 <= s => SumOver(moving, 0, s + 1) = SumOver(moving, 0, s) + moving[s + 1]
    BY <2>1, SumOverUnrolled, Zenon
  <2>3. \A s \in 0..(m - 1) : s \in Int /\ 0 <= s
    OBVIOUS
  <2> QED
    BY <2>2, <2>3
<1>12. 1 \in S
  <2>1. 1 \in 1..m /\ 0 \in 0..(m - 1) /\ 0 + 1 = 1
    BY <1>1
  <2>2. SumOver(moving, 0, 1) = 0 + moving[1]
    BY <1>11, <2>1
  <2>3. moving[1] = SumOver(of, 1, end(1)) /\ moving[1] \in Int
    BY <1>2, <1>5, <1>9, <1>10, <2>1
  <2> QED
    BY <2>1, <2>2, <2>3
<1>13. ASSUME NEW s \in 1..(m - 1), s \in S PROVE s + 1 \in S
  <2>1. s \in 1..m /\ s + 1 \in 1..m /\ s \in 0..(m - 1) /\ s + 1 > 1 /\ (s + 1) - 1 = s
    BY <1>1
  <2>2. begin(s + 1) = end(s) + 1 /\ begin(s + 1) \in 1..n /\ end(s) \in 1..n /\ end(s + 1) \in 1..n /\ begin(s + 1) <= end(s + 1)
    BY <1>2, <2>1
  <2> DEFINE e == end(s)
             b == begin(s + 1)
             f == end(s + 1)
  <2>3. e \in Int /\ b \in Int /\ f \in Int /\ 1 <= e /\ e <= b /\ b <= f /\ f <= n /\ b = e + 1 /\ b \in 2..n
    BY <1>1, <2>2
  <2>4. of[b] = 0
    <3>1. b \notin Legs(track) /\ b \in 1..n
      BY <1>3, <2>1, <2>2 DEF LegsKnown, begin, m
    <3> QED
      BY <1>7, <3>1
  <2>5. SumOver(of, b, f) = moving[s + 1]
    BY <1>10, <2>1
  <2>6. SumOver(moving, 0, s + 1) = SumOver(of, 1, e) + moving[s + 1]
    BY <1>11, <1>13, <2>1
  <2> HIDE DEF e, b, f
  <2>7. \A k \in (1 + 1)..f : of[k] \in Int
    BY <1>1, <1>4, <2>3
  <2>8. SumOver(of, 1, f) = SumOver(of, 1, b) + SumOver(of, b, f)
    BY <2>3, <2>7, SumOverSplits
  <2>9. SumOver(of, 1, e + 1) = SumOver(of, 1, e) + of[e + 1]
    <3>1. e \in Int /\ 1 <= e
      BY <2>3
    <3>2. 1 \in Int
      OBVIOUS
    <3>3. \A k \in Int : 1 <= k => SumOver(of, 1, k + 1) = SumOver(of, 1, k) + of[k + 1]
      BY <3>2, SumOverUnrolled, Zenon
    <3> QED
      BY <3>1, <3>3
  <2>10. SumOver(of, 1, e) \in Int
    <3>1. e \in 1..f /\ 1 \in Int
      BY <2>3
    <3> QED
      BY <2>3, <2>7, <3>1, SumOverInt
  <2>11. SumOver(of, 1, f) = SumOver(moving, 0, s + 1)
    BY <2>3, <2>4, <2>5, <2>6, <2>8, <2>9, <2>10
  <2> QED
    BY <2>1, <2>11 DEF f
<1>14. 1 \in Int /\ m \in Int /\ m \in 1..m
  BY <1>1
<1> HIDE DEF S
<1>15. \A s \in 1..m : s \in S
  BY <1>12, <1>13, <1>14, UpTo
<1>16. SumOver(moving, 0, m) = SumOver(of, 1, end(m))
  BY <1>14, <1>15 DEF S
<1> QED
  BY <1>2, <1>8, <1>16 DEF of, n

(* What is between a and b.                                                *)
Between(a, b, x) == IF x < a THEN a ELSE IF x > b THEN b ELSE x

(* A measure of every leg, and of those that lead over a pause.            *)
OverPauses(track, Q, G) ==
  \A k \in 2..Len(track.points) : Q[k] \in Int /\ G[k] = IF k \in Legs(track) THEN 0 ELSE Q[k]

GapsIn(track, a, b) ==
  {s \in 2..Len(track.segments) : a < track.segments[s].startIndex /\ track.segments[s].startIndex <= b}

LEMMA GapOfSegment ==
  ASSUME NEW track, Located(track), track.points # << >>, NEW Q, NEW G, OverPauses(track, Q, G),
         NEW a \in 1..Len(track.points), NEW b \in a..Len(track.points), NEW s \in 1..Len(track.segments),
         NEW x \in Int, x = Between(a, b, track.segments[s].startIndex - 1),
         NEW y \in Int, y = Between(a, b, track.segments[s].endIndex)
  PROVE  /\ a <= x /\ x <= y /\ y <= b
         /\ SumOver(G, x, y) = IF s \in GapsIn(track, a, b) THEN Q[track.segments[s].startIndex] ELSE 0
<1> DEFINE n == Len(track.points)
           m == Len(track.segments)
           B == track.segments[s].startIndex
           E == track.segments[s].endIndex
<1>1. n \in Nat /\ m \in Nat /\ SegmentsCover(n, track.segments) /\ DOMAIN track.segments = 1..m
  BY LocatedIsParted DEF Parted
<1>2. LegsKnown(track)
  BY <1>1, LegsAre
<1>3. B \in 1..n /\ E \in 1..n /\ B <= E /\ (s = 1 => B = 1)
  BY <1>1 DEF SegmentsCover
<1>4. B \notin Legs(track) /\ \A k \in (B + 1)..E : k \in Legs(track)
  BY <1>2 DEF LegsKnown
<1>5. s \in GapsIn(track, a, b) <=> (a < B /\ B <= b)
  <2>1. s \in GapsIn(track, a, b) <=> (s \in 2..m /\ a < B /\ B <= b)
    BY DEF GapsIn
  <2>2. a < B => s # 1
    BY <1>3
  <2> QED
    BY <1>1, <2>1, <2>2
<1>6. \A k \in 2..n : Q[k] \in Int /\ G[k] = IF k \in Legs(track) THEN 0 ELSE Q[k]
  BY DEF OverPauses
<1>7. a \in Int /\ b \in Int /\ B \in Int /\ E \in Int /\ n \in Int /\ 1 <= a /\ a <= b /\ b <= n
  BY <1>1, <1>3
<1> HIDE DEF B, E, n, m
<1>8. a <= x /\ x <= y /\ y <= b
  BY <1>3, <1>7, SMTT(30) DEF Between, B, E
<1>9. CASE B <= a
  <2>1. x = a /\ (y = a \/ y <= E)
    BY <1>3, <1>7, <1>9 DEF Between, B, E
  <2>2. \A k \in (x + 1)..y : k \in (B + 1)..E /\ k \in 2..n
    BY <1>7, <1>8, <1>9, <2>1
  <2>3. \A k \in (x + 1)..y : G[k] = 0
    BY <1>4, <1>6, <2>2
  <2>4. SumOver(G, x, y) = 0
    BY <1>8, <2>3, SumOverNothing
  <2>5. ~(a < B)
    BY <1>7, <1>9
  <2> QED
    BY <1>5, <1>8, <2>4, <2>5
<1>10. CASE B > b
  <2>1. x = b /\ y = b
    BY <1>3, <1>7, <1>10 DEF Between, B, E
  <2>2. SumOver(G, x, y) = 0
    BY <1>7, <2>1, SumOverUnrolled
  <2>3. ~(B <= b)
    BY <1>7, <1>10
  <2> QED
    BY <1>5, <1>8, <2>2, <2>3
<1>11. CASE a < B /\ B <= b
  <2>1. x = B - 1 /\ B <= y /\ y <= E /\ B \in 2..n
    BY <1>3, <1>7, <1>11 DEF Between, B, E
  <2>2. \A k \in (B + 1)..y : k \in (B + 1)..E /\ k \in 2..n
    BY <1>7, <1>8, <1>11, <2>1
  <2>3. \A k \in (B + 1)..y : G[k] = 0
    BY <1>4, <1>6, <2>2
  <2>4. SumOver(G, B, y) = 0
    BY <1>7, <2>1, <2>3, SumOverNothing
  <2>5. G[B] = Q[B] /\ Q[B] \in Int
    BY <1>4, <1>6, <2>1
  <2>6. SumOver(G, x, x) = 0 /\ SumOver(G, x, x + 1) = SumOver(G, x, x) + G[x + 1]
    <3>1. x \in Int /\ x <= x
      BY <1>7
    <3>2. SumOver(G, x, x) = 0 /\ \A k \in Int : x <= k => SumOver(G, x, k + 1) = SumOver(G, x, k) + G[k + 1]
      BY <3>1, SumOverUnrolled, Zenon
    <3> QED
      BY <3>1, <3>2
  <2>7. SumOver(G, x, B) = Q[B]
    <3>1. x + 1 = B
      BY <1>7, <2>1
    <3> QED
      BY <2>5, <2>6, <3>1
  <2>8. SumOver(G, x, y) = SumOver(G, x, B) + SumOver(G, B, y)
    <3>1. \A k \in (x + 1)..y : G[k] \in Int
      <4>1. \A k \in (x + 1)..y : k = B \/ k \in (B + 1)..y
        BY <1>7, <2>1
      <4> QED
        BY <2>3, <2>5, <4>1
    <3>2. x <= B /\ B <= y
      BY <1>7, <2>1
    <3> QED
      BY <1>7, <3>1, <3>2, SumOverSplits
  <2> QED
    BY <1>5, <1>8, <1>11, <2>4, <2>5, <2>7, <2>8 DEF B
<1> QED
  BY <1>7, <1>9, <1>10, <1>11

LEMMA GapsAre ==
  ASSUME NEW track, Located(track), track.points # << >>, NEW Q, NEW G, OverPauses(track, Q, G),
         NEW a \in 1..Len(track.points), NEW b \in a..Len(track.points)
  PROVE  Total(GapsIn(track, a, b), Len(track.segments),
               [s \in GapsIn(track, a, b) |-> Q[track.segments[s].startIndex]]) = SumOver(G, a, b)
<1> DEFINE n == Len(track.points)
           m == Len(track.segments)
           begin(s) == track.segments[s].startIndex
           end(s) == track.segments[s].endIndex
           gaps == GapsIn(track, a, b)
           measure == [s \in gaps |-> Q[begin(s)]]
           of == [s \in 1..m |-> IF s \in gaps THEN measure[s] ELSE 0]
           until(s) == IF s = 0 THEN 0 ELSE end(s)
           S == {s \in 0..m : SumOver(of, 0, s) = SumOver(G, a, Between(a, b, until(s)))}
<1>1. n \in Nat /\ m \in Nat /\ SegmentsCover(n, track.segments) /\ DOMAIN track.segments = 1..m
  BY LocatedIsParted DEF Parted
<1>2. /\ m # 0 /\ end(m) = n /\ begin(1) = 1
      /\ \A s \in 1..m : begin(s) \in 1..n /\ end(s) \in 1..n /\ (s > 1 => begin(s) = end(s - 1) + 1)
  <2>1. m # 0
    BY <1>1 DEF SegmentsCover, Located
  <2> QED
    BY <1>1, <2>1 DEF SegmentsCover
<1>3. \A s \in 1..m : of[s] = IF s \in gaps THEN Q[begin(s)] ELSE 0
  OBVIOUS
<1>4. Total(gaps, m, measure) = SumOver(of, 0, m)
  BY DEF Total
<1>5. a \in Int /\ b \in Int /\ n \in Int /\ 1 <= a /\ a <= b /\ b <= n
  BY <1>1
<1>6. \A z \in Int : Between(a, b, z) \in Int /\ a <= Between(a, b, z) /\ Between(a, b, z) <= b
  BY <1>5 DEF Between
<1>7. Between(a, b, 0) = a /\ Between(a, b, n) = b
  BY <1>5 DEF Between
<1>8. \A k \in (a + 1)..b : G[k] \in Int
  <2>1. \A k \in (a + 1)..b : k \in 2..n
    BY <1>5
  <2>2. \A k \in 2..n : G[k] \in Int
    BY DEF OverPauses
  <2> QED
    BY <2>1, <2>2
<1>9. ASSUME NEW s \in 1..m
      PROVE  /\ Between(a, b, begin(s) - 1) <= Between(a, b, end(s))
             /\ SumOver(G, Between(a, b, begin(s) - 1), Between(a, b, end(s))) = of[s]
  <2> DEFINE x == Between(a, b, begin(s) - 1)
             y == Between(a, b, end(s))
  <2>1. x \in Int /\ y \in Int /\ x = Between(a, b, track.segments[s].startIndex - 1) /\ y = Between(a, b, track.segments[s].endIndex)
    <3>1. begin(s) - 1 \in Int /\ end(s) \in Int
      BY <1>2
    <3>2. x \in Int /\ y \in Int
      BY <1>6, <3>1
    <3> QED
      BY <3>2
  <2> HIDE DEF x, y
  <2>2. x <= y /\ SumOver(G, x, y) = IF s \in gaps THEN Q[track.segments[s].startIndex] ELSE 0
    BY <2>1, GapOfSegment
  <2> QED
    BY <1>3, <2>2 DEF x, y
<1> HIDE DEF begin, end, n, m, of, measure, gaps
<1>10. \A s \in 1..m : begin(s) - 1 = until(s - 1)
  <2> TAKE s \in 1..m
  <2>1. CASE s = 1
    BY <1>2, <2>1
  <2>2. CASE s # 1
    <3>1. s > 1 /\ s - 1 # 0 /\ s - 1 \in 1..m
      BY <1>1, <2>2
    <3>2. begin(s) = end(s - 1) + 1 /\ end(s - 1) \in Int
      BY <1>2, <3>1
    <3> QED
      BY <3>1, <3>2
  <2> QED
    BY <2>1, <2>2
<1>11. SumOver(of, 0, 0) = 0 /\ \A s \in 0..(m - 1) : SumOver(of, 0, s + 1) = SumOver(of, 0, s) + of[s + 1]
  <2>1. 0 \in Int
    OBVIOUS
  <2>2. SumOver(of, 0, 0) = 0 /\ \A s \in Int : 0 <= s => SumOver(of, 0, s + 1) = SumOver(of, 0, s) + of[s + 1]
    BY <2>1, SumOverUnrolled, Zenon
  <2>3. \A s \in 0..(m - 1) : s \in Int /\ 0 <= s
    OBVIOUS
  <2> QED
    BY <2>2, <2>3
<1>12. 0 \in S
  <2>1. SumOver(G, a, a) = 0
    BY <1>5, SumOverUnrolled
  <2> QED
    BY <1>1, <1>7, <1>11, <2>1
<1>13. ASSUME NEW s \in 0..(m - 1), s \in S PROVE s + 1 \in S
  <2>1. s + 1 \in 1..m /\ s + 1 \in 0..m /\ (s + 1) - 1 = s /\ s + 1 # 0
    BY <1>1
  <2> DEFINE x == Between(a, b, until(s))
             y == Between(a, b, until(s + 1))
  <2>2. begin(s + 1) - 1 = until(s) /\ until(s + 1) = end(s + 1) /\ until(s) \in Int /\ until(s + 1) \in Int
    <3>1. begin(s + 1) - 1 = until(s)
      BY <1>10, <2>1
    <3>2. begin(s + 1) \in Int /\ end(s + 1) \in Int
      BY <1>2, <2>1
    <3>3. until(s + 1) = end(s + 1)
      BY <2>1
    <3> HIDE DEF until
    <3> QED
      BY <3>1, <3>2, <3>3
  <2>3. x \in Int /\ y \in Int /\ a <= x /\ y <= b
    BY <1>6, <2>2
  <2>4. x <= y /\ SumOver(G, x, y) = of[s + 1]
    BY <1>9, <2>1, <2>2
  <2>5. SumOver(of, 0, s) = SumOver(G, a, x)
    BY <1>13
  <2>6. SumOver(of, 0, s + 1) = SumOver(of, 0, s) + of[s + 1]
    BY <1>11
  <2> HIDE DEF x, y
  <2>7. \A k \in (a + 1)..y : G[k] \in Int
    BY <1>5, <1>8, <2>3
  <2>8. SumOver(G, a, y) = SumOver(G, a, x) + SumOver(G, x, y)
    BY <1>5, <2>3, <2>4, <2>7, SumOverSplits
  <2> QED
    BY <2>1, <2>4, <2>5, <2>6, <2>8 DEF y
<1>14. 0 \in Int /\ m \in Int /\ m \in 0..m
  BY <1>1
<1>15. until(m) = n
  BY <1>2
<1> HIDE DEF S, until
<1>16. \A s \in 0..m : s \in S
  BY <1>12, <1>13, <1>14, UpTo
<1>17. SumOver(of, 0, m) = SumOver(G, a, Between(a, b, until(m)))
  BY <1>14, <1>16 DEF S
<1> QED
  BY <1>4, <1>7, <1>15, <1>17 DEF begin, measure, gaps, n, m

-----------------------------------------------------------------------------
(* A lap of a track is a track.                                            *)

(* A segment has an id and its ends, and nothing more.                     *)
PlainSegments(segments) ==
  \A s \in DOMAIN segments :
    segments[s] = [id |-> segments[s].id, startIndex |-> segments[s].startIndex, endIndex |-> segments[s].endIndex]

LapOf(a, b) == [startIndex |-> a, endIndex |-> b]

(* What is left of a segment between a and b.                              *)
ClipOf(segment, a, b) ==
  [id |-> segment.id, startIndex |-> Later(segment.startIndex, a) - a + 1,
   endIndex |-> Earlier(segment.endIndex, b) - a + 1]

(* The segments from lo to hi are those that are met between a and b.      *)
MetBetween(track, a, b, lo, hi) ==
  /\ lo \in 1..Len(track.segments) /\ hi \in lo..Len(track.segments)
  /\ track.segments[lo].startIndex <= a /\ a <= track.segments[lo].endIndex
  /\ track.segments[hi].startIndex <= b /\ b <= track.segments[hi].endIndex
  /\ \A s \in 1..Len(track.segments) :
       s \in lo..hi <=> (track.segments[s].endIndex >= a /\ track.segments[s].startIndex <= b)

LEMMA SegmentsMet ==
  ASSUME NEW track, Located(track), track.points # << >>,
         NEW a \in 1..Len(track.points), NEW b \in a..Len(track.points)
  PROVE  \E lo, hi : MetBetween(track, a, b, lo, hi)
<1> DEFINE segments == track.segments
           n == Len(track.points)
           m == Len(segments)
           begin(s) == segments[s].startIndex
           end(s) == segments[s].endIndex
<1>1. n \in Nat /\ m \in Nat /\ SegmentsCover(n, segments) /\ a \in 1..n /\ b \in 1..n /\ a <= b
  BY LocatedIsParted DEF Parted
<1>2. \A s \in 1..m : begin(s) \in Int /\ end(s) \in Int /\ begin(s) <= end(s)
  BY <1>1 DEF SegmentsCover
<1>3. \A s, u \in 1..m : s < u => end(s) < begin(u)
  BY <1>1, LaterSegments
<1>4. PICK lo : Owned(segments, a, lo)
  BY <1>1, OwnerIs
<1>5. PICK hi : Owned(segments, b, hi)
  BY <1>1, OwnerIs
<1>6. /\ lo \in 1..m /\ begin(lo) <= a /\ a <= end(lo)
      /\ hi \in 1..m /\ begin(hi) <= b /\ b <= end(hi)
  BY <1>4, <1>5 DEF Owned
<1>7. a \in Int /\ b \in Int /\ lo \in Int /\ hi \in Int /\ m \in Int
  BY <1>1, <1>6
<1> HIDE DEF m, begin, end
<1>8. lo <= hi
  <2>1. hi < lo => end(hi) < begin(lo)
    BY <1>3, <1>6
  <2>2. begin(lo) \in Int /\ end(hi) \in Int
    BY <1>2, <1>6
  <2> QED
    BY <1>1, <1>6, <1>7, <2>1, <2>2
<1>9. ASSUME NEW s \in 1..m
      PROVE  s \in lo..hi <=> (end(s) >= a /\ begin(s) <= b)
  <2>1. begin(s) \in Int /\ end(s) \in Int /\ begin(s) <= end(s) /\ begin(lo) \in Int /\ end(lo) \in Int /\ begin(hi) \in Int /\ end(hi) \in Int
    BY <1>2, <1>6
  <2>2. s \in Int
    OBVIOUS
  <2>3. (s < lo => end(s) < begin(lo)) /\ (lo < s => end(lo) < begin(s)) /\ (s < hi => end(s) < begin(hi)) /\ (hi < s => end(hi) < begin(s))
    BY <1>3, <1>6
  <2>4. (s = lo => begin(s) = begin(lo) /\ end(s) = end(lo)) /\ (s = hi => begin(s) = begin(hi) /\ end(s) = end(hi))
    OBVIOUS
  <2>5. end(s) >= a <=> s >= lo
    BY <1>6, <1>7, <2>1, <2>2, <2>3, <2>4
  <2>6. begin(s) <= b <=> s <= hi
    BY <1>6, <1>7, <2>1, <2>2, <2>3, <2>4
  <2> QED
    BY <1>7, <2>2, <2>5, <2>6
<1>10. hi \in lo..m
  BY <1>6, <1>7, <1>8
<1> QED
  BY <1>6, <1>9, <1>10 DEF MetBetween, begin, end, m

(* The segments of a lap, one by one.                                      *)
LEMMA ClippedIs ==
  ASSUME NEW track, Located(track), track.points # << >>, PlainSegments(track.segments),
         NEW a \in 1..Len(track.points), NEW b \in a..Len(track.points),
         NEW lo, NEW hi, MetBetween(track, a, b, lo, hi)
  PROVE  /\ Clipped(track, LapOf(a, b)).points = SubSeq(track.points, a, b)
         /\ Clipped(track, LapOf(a, b)).segments
              = [k \in 1..((hi - lo) + 1) |-> ClipOf(track.segments[(lo + k) - 1], a, b)]
<1> DEFINE segments == track.segments
           n == Len(track.points)
           m == Len(segments)
           clip(s) == ClipOf(segments[s], a, b)
           all == [s \in 1..m |-> clip(s)]
           kept == {s \in 1..m : all[s].endIndex >= all[s].startIndex}
           C == Clipped(track, LapOf(a, b))
<1>1. n \in Nat /\ m \in Nat /\ SegmentsCover(n, segments) /\ DOMAIN segments = 1..m
  BY LocatedIsParted DEF Parted
<1>2. \A s \in 1..m : segments[s].startIndex \in Int /\ segments[s].endIndex \in Int /\ segments[s].startIndex <= segments[s].endIndex
  BY <1>1 DEF SegmentsCover
<1>3. a \in Int /\ b \in Int /\ lo \in 1..m /\ hi \in lo..m /\ lo \in Int /\ hi \in Int /\ lo <= hi /\ a <= b
  BY <1>1 DEF MetBetween
<1>4. \A s \in 1..m : [segments[s] EXCEPT !.startIndex = Later(@, a) - a + 1, !.endIndex = Earlier(@, b) - a + 1] = clip(s)
  <2> TAKE s \in 1..m
  <2> DEFINE r == segments[s]
             e == [r EXCEPT !.startIndex = Later(@, a) - a + 1, !.endIndex = Earlier(@, b) - a + 1]
  <2>1. r = [id |-> r.id, startIndex |-> r.startIndex, endIndex |-> r.endIndex]
    BY <1>1 DEF PlainSegments
  <2> HIDE DEF r
  <2>2. DOMAIN r = {"id", "startIndex", "endIndex"}
    BY <2>1
  <2>3. e = [x \in {"id", "startIndex", "endIndex"} |->
               IF x = "startIndex" THEN Later(r.startIndex, a) - a + 1
               ELSE IF x = "endIndex" THEN Earlier(r.endIndex, b) - a + 1 ELSE r[x]]
    BY <2>2
  <2>4. e = ClipOf(r, a, b)
    BY <2>3 DEF ClipOf
  <2> QED
    BY <2>4 DEF r
<1>5. C = [points |-> SubSeq(track.points, a, b), segments |-> Picked(all, {s \in DOMAIN all : all[s].endIndex >= all[s].startIndex})]
  <2> DEFINE cut == [s \in DOMAIN segments |->
                       [segments[s] EXCEPT !.startIndex = Later(@, a) - a + 1, !.endIndex = Earlier(@, b) - a + 1]]
  <2>1. C = [points |-> SubSeq(track.points, a, b), segments |-> Picked(cut, {s \in DOMAIN cut : cut[s].endIndex >= cut[s].startIndex})]
    BY DEF Clipped, LapOf
  <2>2. cut = all
    BY <1>1, <1>4
  <2> HIDE DEF cut, all, C
  <2> QED
    BY <2>1, <2>2
<1>6. C.segments = Picked(all, kept) /\ C.points = SubSeq(track.points, a, b)
  <2>1. {s \in DOMAIN all : all[s].endIndex >= all[s].startIndex} = kept
    OBVIOUS
  <2> HIDE DEF C, all, kept
  <2> QED
    BY <1>5, <2>1
<1>7. kept = lo..hi
  <2>1. \A s \in 1..m : (all[s].endIndex >= all[s].startIndex) <=> s \in lo..hi
    <3> TAKE s \in 1..m
    <3> DEFINE B == segments[s].startIndex
               E == segments[s].endIndex
    <3>1. all[s].startIndex = Later(B, a) - a + 1 /\ all[s].endIndex = Earlier(E, b) - a + 1
      BY DEF ClipOf
    <3>2. B \in Int /\ E \in Int /\ B <= E
      BY <1>2
    <3>3. s \in lo..hi <=> (E >= a /\ B <= b)
      BY DEF MetBetween
    <3> HIDE DEF B, E, all
    <3>4. (Earlier(E, b) - a + 1 >= Later(B, a) - a + 1) <=> (E >= a /\ B <= b)
      BY <1>3, <3>2 DEF Earlier, Later
    <3> QED
      BY <3>1, <3>3, <3>4
  <2>2. \A s \in lo..hi : s \in 1..m
    BY <1>3, <1>1
  <2> HIDE DEF all
  <2> QED
    BY <2>1, <2>2
<1> DEFINE run == lo..hi
<1>8. PICK p : PickedBy(p, all, run)
  <2>1. run \in SUBSET (1..m)
    BY <1>1, <1>3
  <2> HIDE DEF run, all
  <2> QED
    BY <1>1, <2>1, PickedOf
<1>9. /\ Cardinality(run) = (hi - lo) + 1
      /\ \A k \in 1..((hi - lo) + 1) : p[k] = (lo + k) - 1
  <2>1. Rising(p, lo..hi)
    BY <1>8 DEF PickedBy
  <2> QED
    BY <1>3, <2>1, RisingRun
<1>10. Picked(all, run) = [k \in 1..Cardinality(run) |-> all[p[k]]]
  BY <1>8 DEF PickedBy
<1>11. \A k \in 1..((hi - lo) + 1) : all[p[k]] = clip((lo + k) - 1)
  <2> TAKE k \in 1..((hi - lo) + 1)
  <2>1. p[k] = (lo + k) - 1 /\ (lo + k) - 1 \in 1..m
    BY <1>1, <1>3, <1>9
  <2> QED
    BY <2>1
<1> HIDE DEF all, run, C, kept
<1>12. C.segments = [k \in 1..((hi - lo) + 1) |-> all[p[k]]]
  BY <1>6, <1>7, <1>9, <1>10 DEF run
<1>13. C.segments = [k \in 1..((hi - lo) + 1) |-> clip((lo + k) - 1)]
  BY <1>11, <1>12
<1> QED
  BY <1>6, <1>13 DEF C

LEMMA OfItsElements ==
  ASSUME NEW T, NEW s \in Seq(T)
  PROVE  s \in Seq(ToSet(s))
<1>1. Len(s) \in Nat /\ DOMAIN s = 1..Len(s) /\ s = [i \in 1..Len(s) |-> s[i]]
  OBVIOUS
<1>2. \A i \in 1..Len(s) : s[i] \in ToSet(s)
  BY <1>1 DEF ToSet
<1>3. s \in [1..Len(s) -> ToSet(s)]
  BY <1>1, <1>2
<1> QED
  BY <1>1, <1>3, SeqDef

LEMMA LapIsATrack ==
  ASSUME NEW track, Located(track), track.points # << >>, PlainSegments(track.segments),
         NEW a \in 1..Len(track.points), NEW b \in a..Len(track.points),
         NEW lap, lap = Clipped(track, LapOf(a, b))
  PROVE  /\ Located(lap) /\ Len(lap.points) = (b - a) + 1
         /\ \A k \in 1..((b - a) + 1) : lap.points[k] = track.points[(a + k) - 1]
         /\ \A k \in 2..((b - a) + 1) : k \in Legs(lap) <=> (a + k) - 1 \in Legs(track)
<1> DEFINE points == track.points
           segments == track.segments
           n == Len(points)
           m == Len(segments)
           size == (b - a) + 1
           begin(s) == segments[s].startIndex
           end(s) == segments[s].endIndex
<1>1. n \in Nat /\ m \in Nat /\ SegmentsCover(n, segments) /\ DOMAIN segments = 1..m /\ DOMAIN points = 1..n
  BY LocatedIsParted DEF Parted
<1>2. PICK lo, hi : MetBetween(track, a, b, lo, hi)
  BY SegmentsMet
<1> DEFINE count == (hi - lo) + 1
           shift == lo - 1
           cut == [k \in 1..count |-> ClipOf(segments[(lo + k) - 1], a, b)]
<1>3. lap.points = SubSeq(points, a, b) /\ lap.segments = cut
  BY <1>2, ClippedIs
<1>4. a \in Int /\ b \in Int /\ n \in Int /\ 1 <= a /\ a <= b /\ b <= n /\ lo \in 1..m /\ hi \in lo..m
      /\ size \in Nat /\ size >= 1 /\ count \in Nat /\ count >= 1
  BY <1>1, <1>2 DEF MetBetween
<1>5. /\ \A s \in 1..m : begin(s) \in 1..n /\ end(s) \in 1..n /\ begin(s) <= end(s) /\ (s > 1 => begin(s) = end(s - 1) + 1)
  BY <1>1 DEF SegmentsCover
<1>6. /\ begin(lo) <= a /\ a <= end(lo) /\ begin(hi) <= b /\ b <= end(hi)
      /\ \A s \in 1..m : s \in lo..hi <=> (end(s) >= a /\ begin(s) <= b)
  BY <1>2 DEF MetBetween
<1>7. /\ lap.points \in Seq(ToSet(points)) /\ Len(lap.points) = size
      /\ \A k \in 1..size : lap.points[k] = points[(a + k) - 1]
  <2>1. points \in Seq(ToSet(points)) /\ Len(points) = n
    BY DEF Located
  <2> HIDE DEF points, n
  <2> QED
    BY <1>3, <1>4, <2>1
<1>8. DOMAIN lap.points = 1..size
  BY <1>7
<1>9. /\ Len(lap.segments) = count /\ DOMAIN lap.segments = 1..count
      /\ lap.segments \in Seq(ToSet(lap.segments)) /\ lap.segments # << >>
  <2>1. \A k \in 1..count : cut[k] \in ToSet(cut)
    BY DEF ToSet
  <2>2. cut \in [1..count -> ToSet(cut)] /\ DOMAIN cut = 1..count
    BY <2>1
  <2> HIDE DEF cut
  <2>3. cut \in Seq(ToSet(cut))
    BY <1>4, <2>2, SeqDef
  <2>4. Len(cut) = count
    BY <1>4, <2>2, <2>3, LenProperties
  <2> HIDE DEF count
  <2>5. cut # << >>
    BY <1>4, <2>2, <2>3, <2>4
  <2> QED
    BY <1>3, <2>2, <2>3, <2>4, <2>5
<1>10. \A k \in 1..count : /\ lap.segments[k].startIndex = Later(begin((lo + k) - 1), a) - a + 1
                           /\ lap.segments[k].endIndex = Earlier(end((lo + k) - 1), b) - a + 1
                           /\ (lo + k) - 1 \in 1..m /\ (lo + k) - 1 \in lo..hi
  <2> TAKE k \in 1..count
  <2>1. lap.segments[k] = ClipOf(segments[(lo + k) - 1], a, b)
    BY <1>3
  <2>2. (lo + k) - 1 \in 1..m /\ (lo + k) - 1 \in lo..hi
    BY <1>1, <1>4
  <2> QED
    BY <2>1, <2>2 DEF ClipOf
<1> HIDE DEF begin, end, n, m, size, points, cut
<1>11. ASSUME NEW k \in 1..count
       PROVE  /\ lap.segments[k].startIndex \in 1..size /\ lap.segments[k].endIndex \in 1..size
              /\ lap.segments[k].startIndex <= lap.segments[k].endIndex
              /\ k > 1 => lap.segments[k].startIndex = lap.segments[k - 1].endIndex + 1
              /\ k = 1 => lap.segments[k].startIndex = 1
              /\ k = count => lap.segments[k].endIndex = size
  <2> DEFINE s == (lo + k) - 1
             B == begin(s)
             E == end(s)
             F == end(s - 1)
  <2>1. s \in 1..m /\ s \in lo..hi /\ s \in Int /\ (k = 1 => s = lo) /\ (k = count => s = hi)
    <3>1. s \in 1..m /\ s \in lo..hi
      BY <1>10
    <3>2. lo \in Int /\ hi \in Int /\ k \in Int
      BY <1>1, <1>4
    <3> QED
      BY <3>1, <3>2
  <2>2. lap.segments[k].startIndex = Later(B, a) - a + 1 /\ lap.segments[k].endIndex = Earlier(E, b) - a + 1
    BY <1>10
  <2>3. B \in Int /\ E \in Int /\ B <= E /\ E >= a /\ B <= b
    BY <1>1, <1>5, <1>6, <2>1
  <2>4. Later(B, a) - a + 1 \in 1..size /\ Earlier(E, b) - a + 1 \in 1..size /\ Later(B, a) <= Earlier(E, b)
    <3> HIDE DEF B, E
    <3> QED
      BY <1>4, <2>3, SMTT(30) DEF Later, Earlier, size
  <2>5. k = 1 => Later(B, a) - a + 1 = 1
    <3>1. k = 1 => B <= a
      BY <1>6, <2>1
    <3> HIDE DEF B
    <3> QED
      BY <1>4, <2>3, <3>1 DEF Later
  <2>6. k = count => Earlier(E, b) - a + 1 = size
    <3>1. k = count => b <= E
      BY <1>6, <2>1
    <3> HIDE DEF E, count
    <3> QED
      BY <1>4, <2>3, <3>1 DEF Earlier, size
  <2>7. k > 1 => lap.segments[k].startIndex = lap.segments[k - 1].endIndex + 1
    <3> SUFFICES ASSUME k > 1 PROVE lap.segments[k].startIndex = lap.segments[k - 1].endIndex + 1
      OBVIOUS
    <3>1. k - 1 \in 1..count /\ (lo + (k - 1)) - 1 = s - 1 /\ s > 1 /\ s - 1 \in 1..m /\ s - 1 \in lo..hi
      BY <1>1, <1>4, <2>1
    <3>2. lap.segments[k - 1].endIndex = Earlier(F, b) - a + 1
      <4>1. lap.segments[k - 1].endIndex = Earlier(end((lo + (k - 1)) - 1), b) - a + 1
        BY <1>10, <3>1
      <4> QED
        BY <3>1, <4>1
    <3>3. B = F + 1
      BY <1>5, <2>1, <3>1
    <3>4. F >= a /\ F \in Int
      BY <1>1, <1>5, <1>6, <3>1
    <3> HIDE DEF B, F, s
    <3>5. Later(B, a) = B /\ Earlier(F, b) = F
      <4>1. B > a /\ ~(F >= b) /\ F < b
        BY <1>4, <2>3, <3>3, <3>4
      <4> QED
        BY <4>1 DEF Later, Earlier
    <3> QED
      BY <1>4, <2>2, <2>3, <3>2, <3>3, <3>4, <3>5
  <2>8. Later(B, a) - a + 1 <= Earlier(E, b) - a + 1
    <3>1. Later(B, a) \in Int /\ Earlier(E, b) \in Int
      <4> HIDE DEF B, E
      <4> QED
        BY <1>4, <2>3 DEF Later, Earlier
    <3> QED
      BY <1>4, <2>4, <3>1
  <2> QED
    BY <2>2, <2>4, <2>5, <2>6, <2>7, <2>8
<1>12. /\ \A i \in DOMAIN lap.points : lap.points[i].t \in Int /\ lap.points[i].place \in Int
       /\ \A i \in 1..(Len(lap.points) - 1) : lap.points[i].t <= lap.points[i + 1].t
  <2>1. \A i \in 1..n : points[i].t \in Int /\ points[i].place \in Int
    BY <1>1 DEF Located, points
  <2>2. InTimeOrder(points)
    BY LocatedIsParted DEF Parted, points
  <2>3. \A i \in 1..size : (a + i) - 1 \in 1..n
    BY <1>4 DEF size
  <2>4. \A i \in 1..(size - 1) : i \in 1..size /\ i + 1 \in 1..size /\ (a + (i + 1)) - 1 >= (a + i) - 1
    BY <1>4
  <2>5. \A i \in 1..(size - 1) : lap.points[i].t <= lap.points[i + 1].t
    <3> TAKE i \in 1..(size - 1)
    <3> DEFINE u == (a + i) - 1
               w == (a + (i + 1)) - 1
    <3>1. u \in 1..n /\ w \in 1..n /\ u <= w
      BY <2>3, <2>4
    <3>2. points[u].t <= points[w].t
      BY <2>2, <3>1 DEF InTimeOrder, n
    <3>3. lap.points[i] = points[u] /\ lap.points[i + 1] = points[w]
      BY <1>7, <2>4
    <3> QED
      BY <3>2, <3>3
  <2> QED
    BY <1>7, <1>8, <2>1, <2>3, <2>5
<1>13. Located(lap)
  <2>1. lap.points \in Seq(ToSet(lap.points))
    BY <1>7, OfItsElements
  <2>2. \A s \in DOMAIN lap.segments : lap.segments[s].startIndex \in Int /\ lap.segments[s].endIndex \in Int
    BY <1>9, <1>11
  <2>3. SegmentRanges(lap.points, lap.segments)
    <3> SUFFICES ASSUME NEW i \in 1..Len(lap.segments)
                 PROVE  /\ lap.segments[i].startIndex >= 1
                        /\ lap.segments[i].endIndex <= Len(lap.points)
                        /\ lap.segments[i].startIndex <= lap.segments[i].endIndex
                        /\ i > 1 => lap.segments[i].startIndex > lap.segments[i - 1].endIndex
      BY DEF SegmentRanges
    <3>1. i \in 1..count
      BY <1>9
    <3>2. i > 1 => i - 1 \in 1..count
      BY <1>4, <3>1
    <3>3. /\ lap.segments[i].startIndex \in 1..size /\ lap.segments[i].endIndex \in 1..size
          /\ lap.segments[i].startIndex <= lap.segments[i].endIndex
          /\ i > 1 => lap.segments[i].startIndex = lap.segments[i - 1].endIndex + 1 /\ lap.segments[i - 1].endIndex \in Int
      BY <1>11, <3>1, <3>2
    <3> QED
      <4> DEFINE B == lap.segments[i].startIndex
                 E == lap.segments[i].endIndex
                 F == lap.segments[i - 1].endIndex
      <4>1. B \in Int /\ E \in Int /\ 1 <= B /\ B <= E /\ E <= size /\ size = Len(lap.points) /\ (i > 1 => B = F + 1 /\ F \in Int)
        BY <1>4, <1>7, <3>3
      <4> HIDE DEF B, E, F
      <4>2. B >= 1 /\ E <= Len(lap.points) /\ B <= E /\ (i > 1 => B > F)
        BY <4>1
      <4> QED
        BY <4>2 DEF B, E, F
  <2>4. SegmentsCoverPoints(lap.points, lap.segments)
    <3>1. 1 \in 1..count /\ count \in 1..count
      BY <1>4
    <3>2. lap.segments[1].startIndex = 1 /\ lap.segments[count].endIndex = size
      BY <1>11, <3>1
    <3>3. \A i \in 2..count : lap.segments[i].startIndex = lap.segments[i - 1].endIndex + 1
      <4> TAKE i \in 2..count
      <4>1. i \in 1..count /\ i > 1
        BY <1>4
      <4> QED
        BY <1>11, <4>1
    <3> QED
      BY <1>7, <1>9, <3>2, <3>3 DEF SegmentsCoverPoints
  <2>5. TemporalOrder(lap.points)
    BY <1>12 DEF TemporalOrder
  <2>6. LapRanges(lap.points, << >>)
    BY DEF LapRanges
  <2> QED
    BY <1>9, <1>12, <2>1, <2>2, <2>3, <2>4, <2>5, <2>6 DEF Located, ValidTrackGeometry
<1>14. ASSUME NEW k \in 2..size
       PROVE  k \in Legs(lap) <=> (a + k) - 1 \in Legs(track)
  <2> DEFINE j == (a + k) - 1
  <2>1. j \in Int /\ a < j /\ j <= b /\ k \in Int
    BY <1>4 DEF size
  <2>2. k \in Legs(lap) <=> \E i \in 1..count : k \in (lap.segments[i].startIndex + 1)..lap.segments[i].endIndex
    BY <1>9 DEF Legs
  <2>3. j \in Legs(track) <=> \E s \in 1..m : j \in (begin(s) + 1)..end(s)
    BY <1>1 DEF Legs, begin, end
  <2>4. ASSUME NEW B \in Int, NEW E \in Int
        PROVE  k \in ((Later(B, a) - a + 1) + 1)..(Earlier(E, b) - a + 1) <=> j \in (B + 1)..E
    BY <1>4, <2>1, <2>4 DEF Later, Earlier
  <2> HIDE DEF j
  <2>5. ASSUME NEW i \in 1..count
        PROVE  /\ (lo + i) - 1 \in 1..m
               /\ k \in (lap.segments[i].startIndex + 1)..lap.segments[i].endIndex
                    <=> j \in (begin((lo + i) - 1) + 1)..end((lo + i) - 1)
    <3> DEFINE s == (lo + i) - 1
    <3>1. s \in 1..m /\ lap.segments[i].startIndex = Later(begin(s), a) - a + 1 /\ lap.segments[i].endIndex = Earlier(end(s), b) - a + 1
      BY <1>10
    <3>2. begin(s) \in Int /\ end(s) \in Int
      BY <1>5, <3>1
    <3> HIDE DEF s
    <3>3. k \in (lap.segments[i].startIndex + 1)..lap.segments[i].endIndex <=> j \in (begin(s) + 1)..end(s)
      BY <2>4, <3>1, <3>2
    <3> QED
      BY <3>1, <3>3 DEF s
  <2>6. ASSUME NEW s \in 1..m, j \in (begin(s) + 1)..end(s)
        PROVE  \E i \in 1..count : (lo + i) - 1 = s
    <3>1. begin(s) \in Int /\ end(s) \in Int
      BY <1>5
    <3>2. end(s) >= a /\ begin(s) <= b
      BY <1>4, <2>1, <2>6, <3>1
    <3>3. s \in lo..hi
      BY <1>6, <3>2
    <3>4. (s - lo) + 1 \in 1..count /\ (lo + ((s - lo) + 1)) - 1 = s
      BY <1>4, <3>3
    <3> QED
      BY <3>4
  <2>7. k \in Legs(lap) => j \in Legs(track)
    BY <2>2, <2>3, <2>5
  <2>8. j \in Legs(track) => k \in Legs(lap)
    <3> SUFFICES ASSUME j \in Legs(track) PROVE k \in Legs(lap)
      OBVIOUS
    <3>1. PICK s \in 1..m : j \in (begin(s) + 1)..end(s)
      BY <2>3
    <3>2. PICK i \in 1..count : (lo + i) - 1 = s
      BY <2>6, <3>1
    <3> QED
      BY <2>2, <2>5, <3>1, <3>2
  <2> QED
    BY <2>7, <2>8 DEF j
<1> QED
  BY <1>7, <1>13, <1>14 DEF size, points

(* The distance is that of the legs.                                       *)
LEMMA DistanceIs ==
  ASSUME NEW track, Located(track), track.points # << >>
  PROVE  ComputeStats(track).distanceM = SumOver(MetresOf(track), 1, Len(track.points))
<1> DEFINE n == Len(track.points)
           legs == Legs(track)
           measure == [i \in 2..n |-> LegM(track, i)]
           f == [i \in 1..n |-> IF i \in legs THEN measure[i] ELSE 0]
<1>1. n \in Nat /\ n >= 1 /\ SegmentsCover(n, track.segments) /\ DOMAIN track.segments = 1..Len(track.segments)
  BY LocatedIsParted DEF Parted
<1>2. \A k \in legs : k \in 2..n
  BY <1>1, LegsAre DEF LegsKnown
<1>3. ComputeStats(track).distanceM = SumOver(f, 0, n)
  BY DEF ComputeStats, Total
<1>4. \A k \in 1..n : f[k] = MetresOf(track)[k]
  BY <1>2 DEF MetresOf
<1>5. f[1] = 0
  BY <1>1, <1>2
<1>6. \A k \in 1..n : f[k] \in Int
  BY <1>2, LegsAreNumbers
<1> HIDE DEF f, n
<1>7. SumOver(f, 0, 1) = 0
  <2>1. 0 \in Int /\ 0 <= 0 /\ 0 + 1 = 1
    OBVIOUS
  <2>2. SumOver(f, 0, 0) = 0 /\ \A k \in Int : 0 <= k => SumOver(f, 0, k + 1) = SumOver(f, 0, k) + f[k + 1]
    BY <2>1, SumOverUnrolled, Zenon
  <2> QED
    BY <1>5, <2>1, <2>2
<1>8. SumOver(f, 0, n) = SumOver(f, 0, 1) + SumOver(f, 1, n) /\ SumOver(f, 1, n) \in Int
  <2>1. 0 \in Int /\ 1 \in Int /\ n \in Int /\ 0 <= 1 /\ 1 <= n /\ n \in 1..n
    BY <1>1
  <2>2. (\A k \in (0 + 1)..n : f[k] \in Int) /\ (\A k \in (1 + 1)..n : f[k] \in Int)
    BY <1>1, <1>6
  <2>3. SumOver(f, 0, n) = SumOver(f, 0, 1) + SumOver(f, 1, n)
    BY <2>1, <2>2, SumOverSplits
  <2>4. SumOver(f, 1, n) \in Int
    BY <2>1, <2>2, SumOverInt
  <2> QED
    BY <2>3, <2>4
<1>9. SumOver(f, 1, n) = SumOver(MetresOf(track), 1, n)
  <2>1. \A k \in (1 + 1)..n : k \in 1..n
    BY <1>1
  <2>2. \A k \in (1 + 1)..n : MetresOf(track)[k] = f[k]
    BY <1>4, <2>1
  <2>3. 1 \in Int /\ n \in Int /\ 1 <= n
    BY <1>1
  <2> QED
    BY <2>2, <2>3, SumOverEqual
<1> QED
  BY <1>3, <1>7, <1>8, <1>9 DEF n

(* computeLapStats: the legs, the time and the moving time from a to b.    *)
LEMMA LapStatsAre ==
  ASSUME NEW track, Located(track), track.points # << >>, PlainSegments(track.segments),
         NEW a \in 1..Len(track.points), NEW b \in a..Len(track.points)
  PROVE  LET stats == ComputeLapStats(track, LapOf(a, b))
         IN /\ stats.distanceM = SumOver(MetresOf(track), a, b)
            /\ stats.movingTimeMs = SumOver(MomentsOf(track), a, b)
            /\ stats.durationMs = track.points[b].t - track.points[a].t
<1> DEFINE points == track.points
           n == Len(points)
           size == (b - a) + 1
           lap == Clipped(track, LapOf(a, b))
           stats == ComputeLapStats(track, LapOf(a, b))
<1>1. /\ Located(lap) /\ Len(lap.points) = size
      /\ \A k \in 1..size : lap.points[k] = points[(a + k) - 1]
      /\ \A k \in 2..size : k \in Legs(lap) <=> (a + k) - 1 \in Legs(track)
  BY LapIsATrack
<1>2. a \in Int /\ b \in Int /\ n \in Int /\ 1 <= a /\ a <= b /\ b <= n /\ size \in Nat /\ size >= 1
  BY LocatedIsParted DEF Parted
<1>3. stats = ComputeStats(lap)
  BY DEF ComputeLapStats
<1> HIDE DEF lap, size
<1>4. lap.points # << >>
  BY <1>1, <1>2
<1>5. stats.distanceM = SumOver(MetresOf(lap), 1, size) /\ stats.movingTimeMs = SumOver(MomentsOf(lap), 1, size)
  <2>1. ComputeStats(lap).distanceM = SumOver(MetresOf(lap), 1, size)
    BY <1>1, <1>4, DistanceIs
  <2>2. ComputeStats(lap).movingTimeMs = SumOver(MomentsOf(lap), 1, size)
    BY <1>1, <1>4, MovingIs
  <2> QED
    BY <1>3, <2>1, <2>2
<1>6. stats.durationMs = points[b].t - points[a].t
  <2>1. ComputeStats(lap).durationMs = lap.points[size].t - lap.points[1].t
    <3>1. size # 0 /\ Len(lap.points) = size
      BY <1>1, <1>2
    <3>2. ComputeStats(lap).durationMs = IF Len(lap.points) = 0 THEN 0 ELSE lap.points[Len(lap.points)].t - lap.points[1].t
      BY DEF ComputeStats
    <3> QED
      BY <3>1, <3>2
  <2>2. size \in 1..size /\ 1 \in 1..size /\ (a + size) - 1 = b /\ (a + 1) - 1 = a
    BY <1>2 DEF size
  <2>3. lap.points[size] = points[(a + size) - 1] /\ lap.points[1] = points[(a + 1) - 1]
    BY <1>1, <2>2
  <2> QED
    BY <1>3, <2>1, <2>2, <2>3
<1>7. ASSUME NEW k \in (1 + 1)..size
      PROVE  /\ MetresOf(track)[(k - 1) + a] = MetresOf(lap)[k]
             /\ MomentsOf(track)[(k - 1) + a] = MomentsOf(lap)[k]
  <2> DEFINE j == (k - 1) + a
  <2>1. k \in 2..size /\ k \in 1..size /\ k - 1 \in 1..size /\ j = (a + k) - 1 /\ j - 1 = (a + (k - 1)) - 1 /\ j \in 1..n
    BY <1>2 DEF size
  <2>2. lap.points[k] = points[j] /\ lap.points[k - 1] = points[j - 1]
    BY <1>1, <2>1
  <2>3. k \in Legs(lap) <=> j \in Legs(track)
    BY <1>1, <2>1
  <2> HIDE DEF j
  <2>4. LegM(lap, k) = LegM(track, j) /\ LegMs(lap, k) = LegMs(track, j)
    BY <2>2 DEF LegM, LegMs
  <2>5. MetresOf(lap)[k] = IF k \in Legs(lap) THEN LegM(lap, k) ELSE 0
    BY <1>1, <2>1 DEF MetresOf
  <2>6. MetresOf(track)[j] = IF j \in Legs(track) THEN LegM(track, j) ELSE 0
    BY <2>1 DEF MetresOf
  <2>7. MomentsOf(lap)[k] = IF k \in Legs(lap) THEN LegMs(lap, k) ELSE 0
    BY <1>1, <2>1 DEF MomentsOf
  <2>8. MomentsOf(track)[j] = IF j \in Legs(track) THEN LegMs(track, j) ELSE 0
    BY <2>1 DEF MomentsOf
  <2> QED
    BY <2>3, <2>4, <2>5, <2>6, <2>7, <2>8 DEF j
<1>8. SumOver(MetresOf(lap), 1, size) = SumOver(MetresOf(track), a, b) /\ SumOver(MomentsOf(lap), 1, size) = SumOver(MomentsOf(track), a, b)
  <2> DEFINE one == 1
             f == MetresOf(lap)
             g == MetresOf(track)
             u == MomentsOf(lap)
             v == MomentsOf(track)
  <2>1. one \in Int /\ size \in Int /\ a \in Int /\ b \in Int /\ one <= size /\ b = a + (size - one)
    BY <1>2 DEF size
  <2>2. SameAfter(f, one, size, g, a, b)
    BY <1>7, <2>1 DEF SameAfter
  <2>3. SameAfter(u, one, size, v, a, b)
    BY <1>7, <2>1 DEF SameAfter
  <2> HIDE DEF one, f, g, u, v
  <2>4. SumOver(f, one, size) = SumOver(g, a, b)
    BY <2>2, SumOverSame
  <2>5. SumOver(u, one, size) = SumOver(v, a, b)
    BY <2>3, SumOverSame
  <2> QED
    BY <2>4, <2>5 DEF one, f, g, u, v
<1> QED
  BY <1>5, <1>6, <1>8

(* Statistics are of a track's points and segments, whatever else it has.  *)
LEMMA SameStats ==
  ASSUME NEW track, NEW other, other.points = track.points, other.segments = track.segments
  PROVE  ComputeStats(other) = ComputeStats(track)
<1> DEFINE n == Len(track.points)
           altitudesOf(t) == FlattenSeq([s \in DOMAIN t.segments |-> AltitudesOf(t, t.segments[s])])
           movingOf(t) == [s \in DOMAIN t.segments |-> t.points[t.segments[s].endIndex].t
                                                        - t.points[t.segments[s].startIndex].t]
           metresOf(t) == [i \in 2..Len(t.points) |-> LegM(t, i)]
<1>1. Legs(other) = Legs(track)
  BY DEF Legs
<1>2. \A i : LegM(other, i) = LegM(track, i) /\ LegMs(other, i) = LegMs(track, i)
  BY DEF LegM, LegMs
<1>3. Timed(other) = Timed(track)
  BY <1>1, <1>2 DEF Timed
<1>4. Fastest(other) = Fastest(track)
  BY <1>2, <1>3 DEF Fastest
<1>5. metresOf(other) = metresOf(track) /\ movingOf(other) = movingOf(track)
  BY <1>2
<1>6. \A segment : AltitudesOf(other, segment) = AltitudesOf(track, segment)
  BY DEF AltitudesOf
<1>7. altitudesOf(other) = altitudesOf(track)
  BY <1>6
<1> DEFINE statsOf(t, legs, metres, moving, fastest, altitudes) ==
             [distanceM |-> Total(legs, Len(t.points), metres),
              durationMs |-> IF Len(t.points) = 0 THEN 0 ELSE t.points[Len(t.points)].t - t.points[1].t,
              movingTimeMs |-> SumOver(moving, 0, Len(moving)),
              fastest |-> fastest,
              altitudes |-> IF altitudes = << >> THEN Absent ELSE RollUp(altitudes)]
<1>8. \A t : ComputeStats(t) = statsOf(t, Legs(t), metresOf(t), movingOf(t), Fastest(t), altitudesOf(t))
  BY DEF ComputeStats
<1>9. \A l, x, y, f, a : statsOf(other, l, x, y, f, a) = statsOf(track, l, x, y, f, a)
  OBVIOUS
<1> HIDE DEF statsOf, altitudesOf, movingOf, metresOf
<1> QED
  BY <1>1, <1>4, <1>5, <1>7, <1>8, <1>9

(* The lap over all of a track is the track.                               *)
LEMMA WholeLap ==
  ASSUME NEW track, Located(track), track.points # << >>, PlainSegments(track.segments)
  PROVE  LET n == Len(track.points)
         IN n \in Nat /\ n >= 1 /\ ComputeLapStats(track, LapOf(1, n)) = ComputeStats(track)
<1> DEFINE points == track.points
           segments == track.segments
           n == Len(points)
           m == Len(segments)
           C == Clipped(track, LapOf(1, n))
<1>1. n \in Nat /\ n >= 1 /\ m \in Nat /\ SegmentsCover(n, segments) /\ DOMAIN segments = 1..m
  BY LocatedIsParted DEF Parted
<1>2. 1 \in 1..n /\ n \in 1..n
  BY <1>1
<1>3. PICK lo, hi : MetBetween(track, 1, n, lo, hi)
  BY <1>2, SegmentsMet
<1>4. \A s \in 1..m : segments[s].startIndex \in 1..n /\ segments[s].endIndex \in 1..n
  BY <1>1 DEF SegmentsCover
<1>5. lo = 1 /\ hi = m
  <2>1. lo \in 1..m /\ hi \in lo..m
    BY <1>3 DEF MetBetween
  <2>2. \A s \in 1..m : s \in lo..hi
    <3>1. \A s \in 1..m : s \in lo..hi <=> (segments[s].endIndex >= 1 /\ segments[s].startIndex <= n)
      BY <1>3 DEF MetBetween
    <3>2. \A s \in 1..m : segments[s].endIndex >= 1 /\ segments[s].startIndex <= n
      BY <1>1, <1>4
    <3> QED
      BY <3>1, <3>2
  <2> HIDE DEF m
  <2>3. 1 \in lo..hi /\ m \in lo..hi
    BY <1>1, <2>1, <2>2, SMTT(30)
  <2> QED
    BY <1>1, <2>1, <2>3
<1>6. C.points = SubSeq(points, 1, n) /\ C.segments = [k \in 1..((m - 1) + 1) |-> ClipOf(segments[(1 + k) - 1], 1, n)]
  <2>1. 1 \in 1..Len(track.points) /\ n \in 1..Len(track.points)
    BY <1>2
  <2>2. MetBetween(track, 1, n, 1, m)
    BY <1>3, <1>5
  <2>3. /\ Clipped(track, LapOf(1, n)).points = SubSeq(track.points, 1, n)
        /\ Clipped(track, LapOf(1, n)).segments = [k \in 1..((m - 1) + 1) |-> ClipOf(track.segments[(1 + k) - 1], 1, n)]
    <3> HIDE DEF n, m
    <3> QED
      BY <2>1, <2>2, ClippedIs
  <2> QED
    BY <2>3
<1>7. C.points = points
  <2>1. points \in Seq(ToSet(points))
    BY DEF Located
  <2> HIDE DEF points, C
  <2>2. SubSeq(points, 1, Len(points)) = points
    BY <2>1
  <2> QED
    BY <1>6, <2>2
<1>8. C.segments = segments
  <2>1. \A k \in 1..m : ClipOf(segments[(1 + k) - 1], 1, n) = segments[k]
    <3> TAKE k \in 1..m
    <3> DEFINE B == segments[k].startIndex
               E == segments[k].endIndex
    <3>1. (1 + k) - 1 = k /\ B \in Int /\ E \in Int /\ 1 <= B /\ E <= n
      BY <1>1, <1>4
    <3>2. segments[k] = [id |-> segments[k].id, startIndex |-> B, endIndex |-> E]
      BY <1>1 DEF PlainSegments
    <3>3. ClipOf(segments[k], 1, n) = [id |-> segments[k].id, startIndex |-> Later(B, 1) - 1 + 1, endIndex |-> Earlier(E, n) - 1 + 1]
      BY DEF ClipOf
    <3> HIDE DEF B, E
    <3>4. Later(B, 1) - 1 + 1 = B /\ Earlier(E, n) - 1 + 1 = E
      BY <1>1, <3>1 DEF Later, Earlier
    <3> QED
      BY <3>1, <3>2, <3>3, <3>4
  <2>2. (m - 1) + 1 = m
    BY <1>1
  <2>3. segments = [k \in 1..m |-> segments[k]]
    <3>1. segments \in Seq(ToSet(segments))
      BY DEF Located
    <3> QED
      BY <3>1
  <2> HIDE DEF m, n, C
  <2>4. C.segments = [k \in 1..m |-> ClipOf(segments[(1 + k) - 1], 1, n)]
    BY <1>6, <2>2
  <2> QED
    BY <2>1, <2>3, <2>4
<1>9. ComputeLapStats(track, LapOf(1, n)) = ComputeStats(C)
  BY DEF ComputeLapStats
<1> HIDE DEF C
<1>10. ComputeStats(C) = ComputeStats(track)
  BY <1>7, <1>8, SameStats
<1> QED
  BY <1>1, <1>9, <1>10

OnTheMove(track, Q, K) ==
  \A k \in 2..Len(track.points) : K[k] = IF k \in Legs(track) THEN Q[k] ELSE 0

(* Of the legs from a to c, some are travelled and the others lead over a  *)
(* pause: the travelled ones are the whole less the gaps.                  *)
LEMMA LessTheGaps ==
  ASSUME NEW track, Located(track), track.points # << >>,
         NEW a \in 1..Len(track.points), NEW c \in a..Len(track.points),
         NEW Q, NEW G, NEW K, OverPauses(track, Q, G), OnTheMove(track, Q, K)
  PROVE  SumOver(K, a, c) = SumOver(Q, a, c)
           - Total(GapsIn(track, a, c), Len(track.segments),
                   [s \in GapsIn(track, a, c) |-> Q[track.segments[s].startIndex]])
<1> DEFINE n == Len(track.points)
           total == Total(GapsIn(track, a, c), Len(track.segments),
                          [s \in GapsIn(track, a, c) |-> Q[track.segments[s].startIndex]])
<1>1. n \in Nat
  BY LocatedIsParted DEF Parted
<1>2. a \in Int /\ c \in Int /\ a <= c /\ \A k \in (a + 1)..c : k \in 2..n
  BY <1>1
<1>3. AddsUp(Q, K, G, a, c)
  <2> SUFFICES ASSUME NEW k \in (a + 1)..c PROVE K[k] \in Int /\ G[k] \in Int /\ Q[k] = K[k] + G[k]
    BY DEF AddsUp
  <2>1. k \in 2..n
    BY <1>2
  <2>2. Q[k] \in Int /\ G[k] = IF k \in Legs(track) THEN 0 ELSE Q[k]
    BY <2>1 DEF OverPauses
  <2>3. K[k] = IF k \in Legs(track) THEN Q[k] ELSE 0
    BY <2>1 DEF OnTheMove
  <2> QED
    BY <2>2, <2>3
<1>4. total = SumOver(G, a, c)
  BY GapsAre
<1>5. /\ SumOver(Q, a, c) = SumOver(K, a, c) + SumOver(G, a, c)
      /\ SumOver(K, a, c) \in Int /\ SumOver(G, a, c) \in Int
  BY <1>2, <1>3, SumOverAdds
<1> HIDE DEF total
<1>6. SumOver(K, a, c) = SumOver(Q, a, c) - total
  BY <1>4, <1>5
<1> QED
  BY <1>6 DEF total

(* computeStats, computeLapStats: of every track, and of any three of its  *)
(* points, a lap's distance and moving time leave out the pauses, and two  *)
(* laps that share a point add up to the lap over both, and the lap over   *)
(* all is the track.                                                       *)
THEOREM LapsOfTracksAddUp ==
  ASSUME NEW track, Located(track), track.points # << >>, PlainSegments(track.segments),
         NEW a \in 1..Len(track.points), NEW b \in a..Len(track.points), NEW c \in b..Len(track.points)
  PROVE  LapsAddUp(track, a, b, c)
<1> DEFINE n == Len(track.points)
           m == Len(track.segments)
           lap(i, j) == ComputeLapStats(track, LapOf(i, j))
           whole == lap(a, c)
           before1 == lap(a, b)
           after1 == lap(b, c)
           gaps == GapsIn(track, a, c)
           gapsM == [s \in gaps |-> LegM(track, track.segments[s].startIndex)]
           gapsMs == [s \in gaps |-> LegMs(track, track.segments[s].startIndex)]
           legs == [i \in (a + 1)..c |-> LegM(track, i)]
           M == MetresOf(track)
           T == MomentsOf(track)
           QM == [k \in 1..n |-> LegM(track, k)]
           QT == [k \in 1..n |-> LegMs(track, k)]
           GM == [k \in 1..n |-> IF k \in Legs(track) THEN 0 ELSE QM[k]]
           GT == [k \in 1..n |-> IF k \in Legs(track) THEN 0 ELSE QT[k]]
           at == [k \in 1..n |-> track.points[k].t]
<1>1. n \in Nat /\ m \in Nat /\ DOMAIN track.points = 1..n /\ SegmentsCover(n, track.segments)
  BY LocatedIsParted DEF Parted
<1>2. /\ a \in Int /\ b \in Int /\ c \in Int /\ 1 <= a /\ a <= b /\ b <= c /\ c <= n
      /\ c \in a..n /\ b \in 1..n /\ c \in 1..n
  BY <1>1
<1>3. /\ \A k \in 1..n : at[k] \in Int
      /\ at[a] \in Int /\ at[b] \in Int /\ at[c] \in Int
  BY <1>1, <1>2 DEF Located
<1>4. /\ whole.distanceM = SumOver(M, a, c) /\ whole.movingTimeMs = SumOver(T, a, c) /\ whole.durationMs = at[c] - at[a]
      /\ before1.distanceM = SumOver(M, a, b) /\ before1.movingTimeMs = SumOver(T, a, b) /\ before1.durationMs = at[b] - at[a]
      /\ after1.distanceM = SumOver(M, b, c) /\ after1.movingTimeMs = SumOver(T, b, c) /\ after1.durationMs = at[c] - at[b]
  <2>1. at[a] = track.points[a].t /\ at[b] = track.points[b].t /\ at[c] = track.points[c].t
    BY <1>2
  <2>2. whole.distanceM = SumOver(M, a, c) /\ whole.movingTimeMs = SumOver(T, a, c) /\ whole.durationMs = track.points[c].t - track.points[a].t
    BY <1>2, LapStatsAre
  <2>3. before1.distanceM = SumOver(M, a, b) /\ before1.movingTimeMs = SumOver(T, a, b) /\ before1.durationMs = track.points[b].t - track.points[a].t
    BY <1>2, LapStatsAre
  <2>4. after1.distanceM = SumOver(M, b, c) /\ after1.movingTimeMs = SumOver(T, b, c) /\ after1.durationMs = track.points[c].t - track.points[b].t
    BY <1>2, LapStatsAre
  <2> QED
    BY <2>1, <2>2, <2>3, <2>4
<1>5. /\ \A k \in 2..n : k \in 1..n /\ QM[k] \in Int /\ QT[k] \in Int /\ M[k] \in Int /\ T[k] \in Int
      /\ \A k \in 2..n : M[k] = (IF k \in Legs(track) THEN QM[k] ELSE 0)
      /\ \A k \in 2..n : T[k] = (IF k \in Legs(track) THEN QT[k] ELSE 0)
      /\ OverPauses(track, QM, GM) /\ OverPauses(track, QT, GT)
      /\ OnTheMove(track, QM, M) /\ OnTheMove(track, QT, T)
  <2>1. \A k \in 2..n : k \in 1..n /\ LegM(track, k) \in Int /\ LegMs(track, k) \in Int
    BY <1>1, LegsAreNumbers
  <2>2. \A k \in 2..n : k \in 1..n /\ QM[k] \in Int /\ QT[k] \in Int /\ M[k] \in Int /\ T[k] \in Int
    BY <2>1 DEF MetresOf, MomentsOf
  <2>3. \A k \in 2..n : M[k] = (IF k \in Legs(track) THEN QM[k] ELSE 0)
    BY <2>1 DEF MetresOf
  <2>4. \A k \in 2..n : T[k] = (IF k \in Legs(track) THEN QT[k] ELSE 0)
    BY <2>1 DEF MomentsOf
  <2>5. OverPauses(track, QM, GM) /\ OverPauses(track, QT, GT)
    BY <2>1, <2>2 DEF OverPauses
  <2>6. OnTheMove(track, QM, M) /\ OnTheMove(track, QT, T)
    BY <2>3, <2>4 DEF OnTheMove
  <2> QED
    BY <2>2, <2>3, <2>4, <2>5, <2>6
<1>6. SumOver(legs, a, c) = SumOver(QM, a, c)
  <2>1. \A k \in (a + 1)..c : QM[k] = legs[k]
    BY <1>2
  <2> HIDE DEF QM, legs
  <2> QED
    BY <1>2, <2>1, SumOverEqual
<1>7. SumOver(QT, a, c) = at[c] - at[a]
  <2>1. \A k \in (a + 1)..c : QT[k] = at[k] - at[k - 1]
    <3> TAKE k \in (a + 1)..c
    <3>1. k \in 1..n /\ k - 1 \in 1..n
      BY <1>2
    <3>2. QT[k] = track.points[k].t - track.points[k - 1].t /\ at[k] = track.points[k].t /\ at[k - 1] = track.points[k - 1].t
      BY <3>1 DEF LegMs
    <3> QED
      BY <3>2
  <2>2. \A k \in a..c : at[k] \in Int
    <3>1. \A k \in a..c : k \in 1..n
      BY <1>2
    <3> HIDE DEF at
    <3> QED
      BY <1>3, <3>1
  <2>3. StepsOf(at, QT, a, c)
    BY <2>1, <2>2 DEF StepsOf
  <2> HIDE DEF QT, at
  <2> QED
    BY <1>2, <2>3, Telescopes
<1>8. /\ gapsM = [s \in gaps |-> QM[track.segments[s].startIndex]]
      /\ gapsMs = [s \in gaps |-> QT[track.segments[s].startIndex]]
  <2>1. \A s \in gaps : track.segments[s].startIndex \in 1..n
    <3>1. \A s \in 1..m : track.segments[s].startIndex \in 1..n
      BY <1>1 DEF SegmentsCover
    <3> QED
      BY <1>1, <3>1 DEF GapsIn
  <2> QED
    BY <2>1
<1>9. /\ SumOver(M, a, c) = SumOver(QM, a, c) - Total(gaps, m, gapsM)
      /\ SumOver(T, a, c) = SumOver(QT, a, c) - Total(gaps, m, gapsMs)
  <2> HIDE DEF QM, QT, GM, GT, M, T, gapsM, gapsMs
  <2>1. SumOver(M, a, c) = SumOver(QM, a, c) - Total(gaps, m, [s \in gaps |-> QM[track.segments[s].startIndex]])
    BY <1>2, <1>5, LessTheGaps
  <2>2. SumOver(T, a, c) = SumOver(QT, a, c) - Total(gaps, m, [s \in gaps |-> QT[track.segments[s].startIndex]])
    BY <1>2, <1>5, LessTheGaps
  <2> QED
    BY <1>8, <2>1, <2>2
<1>10. /\ SumOver(M, a, c) = SumOver(M, a, b) + SumOver(M, b, c)
       /\ SumOver(T, a, c) = SumOver(T, a, b) + SumOver(T, b, c)
  <2>1. \A k \in (a + 1)..c : M[k] \in Int /\ T[k] \in Int
    <3>1. \A k \in (a + 1)..c : k \in 2..n
      BY <1>2
    <3> QED
      BY <1>5, <3>1
  <2> HIDE DEF M, T
  <2> QED
    BY <1>2, <2>1, SumOverSplits
<1>11. a = 1 /\ c = n => whole = ComputeStats(track)
  BY WholeLap
<1> DEFINE total1 == Total(gaps, m, gapsM)
           total2 == Total(gaps, m, gapsMs)
           sumM == SumOver(legs, a, c)
           parts == [distanceM |-> before1.distanceM + after1.distanceM,
                     durationMs |-> before1.durationMs + after1.durationMs,
                     movingTimeMs |-> before1.movingTimeMs + after1.movingTimeMs]
<1> HIDE DEF M, T, QM, QT, GM, GT, at, lap
<1>12. before1.durationMs + after1.durationMs = whole.durationMs
  BY <1>3, <1>4
<1>13. parts = [distanceM |-> whole.distanceM, durationMs |-> whole.durationMs, movingTimeMs |-> whole.movingTimeMs]
  BY <1>4, <1>10, <1>12
<1>14. whole.distanceM = sumM - total1 /\ whole.movingTimeMs = whole.durationMs - total2
  BY <1>4, <1>6, <1>7, <1>9
<1> HIDE DEF total1, total2, sumM, n
<1>15. /\ whole.distanceM = sumM - total1
       /\ parts = [distanceM |-> whole.distanceM, durationMs |-> whole.durationMs, movingTimeMs |-> whole.movingTimeMs]
       /\ whole.movingTimeMs = whole.durationMs - total2
       /\ a = 1 /\ c = n => whole = ComputeStats(track)
  BY <1>11, <1>13, <1>14
<1> QED
  BY <1>15 DEF LapsAddUp, total1, total2, sumM, lap, LapOf, n, GapsIn

-----------------------------------------------------------------------------
(* Runs of a sequence.                                                     *)

(* p tells the members of a set of numbers, each once and the least first. *)
Tells(p, size, S) ==
  /\ size \in Nat /\ S \subseteq Int
  /\ \A k \in 1..size : p[k] \in S
  /\ \A j, k \in 1..size : j < k => p[j] < p[k]
  /\ \A x \in S : \E k \in 1..size : p[k] = x

(* As far as one tells them, another tells the same.                       *)
LEMMA ToldAlike ==
  ASSUME NEW S, NEW size, NEW p, Tells(p, size, S), NEW other, NEW q, Tells(q, other, S)
  PROVE  size <= other /\ \A k \in 1..size : p[k] = q[k]
<1> DEFINE H == {k \in 0..size : k <= other /\ \A i \in 1..k : p[i] = q[i]}
<1>1. /\ size \in Nat /\ other \in Nat
      /\ (\A k \in 1..size : p[k] \in S /\ p[k] \in Int) /\ (\A k \in 1..other : q[k] \in S /\ q[k] \in Int)
      /\ \A j, k \in 1..size : j < k => p[j] < p[k]
      /\ \A j, k \in 1..other : j < k => q[j] < q[k]
      /\ (\A x \in S : \E k \in 1..size : p[k] = x) /\ (\A x \in S : \E k \in 1..other : q[k] = x)
  BY DEF Tells
<1>2. 0 \in H
  BY <1>1
<1>3. ASSUME NEW k \in 0..(size - 1), k \in H PROVE k + 1 \in H
  <2>1. k \in Nat /\ k + 1 \in 1..size /\ k <= other /\ \A i \in 1..k : p[i] = q[i] /\ i \in 1..size /\ i \in 1..other
    BY <1>1, <1>3
  <2>2. PICK j \in 1..other : q[j] = p[k + 1]
    BY <1>1, <2>1
  <2>3. ~(j <= k)
    <3>1. SUFFICES ASSUME j <= k PROVE FALSE
      OBVIOUS
    <3>2. j \in 1..k /\ j \in 1..size /\ j < k + 1
      BY <2>1, <3>1
    <3>3. p[j] = q[j] /\ p[j] < p[k + 1] /\ p[j] \in Int
      BY <1>1, <2>1, <3>2
    <3> QED
      BY <2>2, <3>3
  <2>4. k + 1 \in 1..other /\ k + 1 <= j
    BY <1>1, <2>1, <2>3
  <2>5. PICK i \in 1..size : p[i] = q[k + 1]
    BY <1>1, <2>4
  <2>6. ~(i <= k)
    <3>1. SUFFICES ASSUME i <= k PROVE FALSE
      OBVIOUS
    <3>2. i \in 1..k /\ i \in 1..other /\ i < k + 1
      BY <2>1, <3>1
    <3>3. p[i] = q[i] /\ q[i] < q[k + 1] /\ q[i] \in Int
      BY <1>1, <2>1, <2>4, <3>2
    <3> QED
      BY <2>5, <3>3
  <2>7. k + 1 <= i
    BY <2>1, <2>6
  <2>8. p[k + 1] \in Int /\ q[k + 1] \in Int /\ p[k + 1] <= p[i] /\ q[k + 1] <= q[j]
    <3>1. k + 1 = i \/ k + 1 < i
      BY <2>1, <2>7
    <3>2. k + 1 = j \/ k + 1 < j
      BY <2>1, <2>4
    <3> QED
      BY <1>1, <2>1, <2>4, <3>1, <3>2
  <2>9. p[k + 1] = q[k + 1]
    BY <2>2, <2>5, <2>8
  <2>10. \A l \in 1..(k + 1) : p[l] = q[l]
    <3>1. \A l \in 1..(k + 1) : l \in 1..k \/ l = k + 1
      BY <2>1
    <3> QED
      BY <2>1, <2>9, <3>1
  <2> QED
    BY <2>1, <2>4, <2>10
<1>4. 0 \in Int /\ size \in Int /\ size \in 0..size
  BY <1>1
<1> HIDE DEF H
<1>5. \A k \in 0..size : k \in H
  BY <1>2, <1>3, <1>4, UpTo
<1> QED
  BY <1>4, <1>5 DEF H

LEMMA ToldOnce ==
  ASSUME NEW S, NEW size, NEW p, Tells(p, size, S), NEW other, NEW q, Tells(q, other, S)
  PROVE  size = other /\ \A k \in 1..size : p[k] = q[k]
<1>1. size <= other /\ other <= size /\ \A k \in 1..size : p[k] = q[k]
  BY ToldAlike
<1>2. size \in Nat /\ other \in Nat
  BY DEF Tells
<1> QED
  BY <1>1, <1>2

(* How many of the first elements are not beyond j.                        *)
CountsTo(g, size, j, count) == count \in 0..size /\ \A k \in 1..size : k <= count <=> g[k] <= j

Climbs(g, size) == (\A k \in 1..size : g[k] \in Int) /\ \A i, k \in 1..size : i <= k => g[i] <= g[k]

LEMMA CountedTo ==
  ASSUME NEW size \in Nat, NEW g, Climbs(g, size), NEW j \in Int
  PROVE  \E count : CountsTo(g, size, j, count)
<1> DEFINE T == {k \in 0..size : \A i \in 1..size : g[i] <= j => i <= k}
<1>1. size \in T
  OBVIOUS
<1>2. PICK count \in T : \A y \in T : count <= y
  <2>1. T \in SUBSET Nat /\ T # {}
    BY <1>1
  <2> QED
    BY <2>1, LeastNatural
<1>3. count \in 0..size /\ \A i \in 1..size : g[i] <= j => i <= count
  OBVIOUS
<1>4. ASSUME NEW k \in 1..size, k <= count PROVE g[k] <= j
  <2>1. count - 1 \in 0..size /\ ~(count <= count - 1)
    BY <1>3, <1>4
  <2>2. count - 1 \notin T
    BY <1>2, <2>1
  <2>3. PICK i \in 1..size : g[i] <= j /\ ~(i <= count - 1)
    BY <2>1, <2>2
  <2>4. k <= i
    BY <1>3, <1>4, <2>3
  <2>5. g[k] <= g[i] /\ g[k] \in Int /\ g[i] \in Int
    BY <2>4 DEF Climbs
  <2> QED
    BY <2>3, <2>5
<1>5. CountsTo(g, size, j, count)
  BY <1>3, <1>4 DEF CountsTo
<1> QED
  BY <1>5

(* seqs has a sequence in pieces, the j-th of which ends at e[j].          *)
InPieces(seqs, whole, e, size) ==
  /\ e[0] = 0 /\ \A j \in 0..Len(seqs) : e[j] \in 0..size
  /\ \A j \in 1..Len(seqs) : /\ e[j - 1] <= e[j]
                             /\ seqs[j] = [i \in 1..(e[j] - e[j - 1]) |-> whole[e[j - 1] + i]]

Each(f, n, T) == \A i \in 1..n : f[i] \in T

LEMMA JoinedPieces ==
  ASSUME NEW T, NEW seqs \in Seq(Seq(T)), NEW size \in Nat, NEW whole, Each(whole, size, T),
         NEW e, InPieces(seqs, whole, e, size)
  PROVE  \A j \in 0..Len(seqs) : JoinedUpTo(seqs, j) = [k \in 1..e[j] |-> whole[k]]
<1> DEFINE r == Len(seqs)
           upTo(j) == [k \in 1..e[j] |-> whole[k]]
           S == {j \in 0..r : JoinedUpTo(seqs, j) = upTo(j)}
<1>0. r \in Nat /\ 0 \in Int /\ r \in Int /\ \A k \in 1..size : whole[k] \in T
  BY DEF Each
<1>1. 0 \in S
  <2>1. 1..e[0] = {}
    BY DEF InPieces
  <2>2. upTo(0) = << >>
    BY <2>1
  <2>3. JoinedUpTo(seqs, 0) = << >>
    BY JoinedUnrolled
  <2>4. JoinedUpTo(seqs, 0) = upTo(0)
    BY <2>2, <2>3
  <2> HIDE DEF upTo
  <2> QED
    BY <1>0, <2>4
<1>2. ASSUME NEW j \in 0..(r - 1), j \in S PROVE j + 1 \in S
  <2> DEFINE a == e[j]
             b == e[j + 1]
             done == upTo(j)
             piece == [i \in 1..(b - a) |-> whole[a + i]]
  <2>1. j + 1 \in 1..r /\ j + 1 \in 0..r /\ j \in 0..r /\ (j + 1) - 1 = j
    BY <1>0
  <2>2. a \in 0..size /\ b \in 0..size /\ a <= b /\ seqs[j + 1] = piece
    <3>1. a \in 0..size /\ b \in 0..size
      BY <2>1 DEF InPieces
    <3>2. e[(j + 1) - 1] <= e[j + 1] /\ seqs[j + 1] = [i \in 1..(e[j + 1] - e[(j + 1) - 1]) |-> whole[e[(j + 1) - 1] + i]]
      BY <2>1 DEF InPieces
    <3> QED
      BY <2>1, <3>1, <3>2
  <2>3. JoinedUpTo(seqs, j + 1) = done \o piece
    <3>1. JoinedUpTo(seqs, j + 1) = JoinedUpTo(seqs, j) \o seqs[j + 1]
      BY JoinedUnrolled
    <3> QED
      BY <1>2, <2>2, <3>1
  <2> HIDE DEF a, b
  <2>4. done \in Seq(T) /\ Len(done) = a /\ \A k \in 1..a : done[k] = whole[k]
    <3>1. done = [k \in 1..a |-> whole[k]] /\ \A k \in 1..a : whole[k] \in T
      BY <1>0, <2>2 DEF a
    <3>2. done \in [1..a -> T] /\ a \in Nat
      BY <2>2, <3>1
    <3> HIDE DEF done
    <3>3. done \in Seq(T)
      BY <3>2, SeqDef
    <3> QED
      BY <3>1, <3>2, <3>3, LenProperties
  <2> DEFINE c == b - a
  <2>5. piece \in Seq(T) /\ Len(piece) = c /\ \A k \in 1..c : piece[k] = whole[a + k]
    <3>1. \A k \in 1..c : whole[a + k] \in T
      BY <1>0, <2>2
    <3>2. c \in Nat
      BY <2>2
    <3>4. piece \in [1..c -> T]
      BY <3>1
    <3>3. \A k \in 1..c : piece[k] = whole[a + k]
      OBVIOUS
    <3> HIDE DEF piece, c
    <3>5. piece \in Seq(T)
      BY <3>2, <3>4, SeqDef
    <3> QED
      BY <3>2, <3>3, <3>4, <3>5, LenProperties
  <2> HIDE DEF done, piece
  <2>6. /\ done \o piece \in Seq(T) /\ Len(done \o piece) = b
        /\ \A k \in 1..b : (done \o piece)[k] = IF k <= a THEN done[k] ELSE piece[k - a]
    <3>1. c \in Nat /\ a \in Nat /\ a + c = b
      BY <2>2
    <3> HIDE DEF c
    <3>0. done \in Seq(T) /\ piece \in Seq(T) /\ Len(done) = a /\ Len(piece) = c
      BY <2>4, <2>5
    <3>2. Len(done \o piece) = a + c /\ done \o piece \in Seq(T)
      BY <3>0, ConcatProperties
    <3>3. \A k \in 1..(a + c) : (done \o piece)[k] = IF k <= a THEN done[k] ELSE piece[k - a]
      BY <3>0, ConcatProperties
    <3> QED
      BY <3>1, <3>2, <3>3
  <2>7. \A k \in 1..b : (done \o piece)[k] = whole[k]
    <3> TAKE k \in 1..b
    <3>1. CASE k <= a
      <4>1. k \in 1..a
        BY <2>2, <3>1
      <4> QED
        BY <2>4, <2>6, <3>1, <4>1
    <3>2. CASE ~(k <= a)
      <4>1. k - a \in 1..c /\ a + (k - a) = k
        BY <2>2, <3>2
      <4> QED
        BY <2>5, <2>6, <3>2, <4>1
    <3> QED
      BY <3>1, <3>2
  <2>8. done \o piece = [k \in 1..b |-> whole[k]]
    <3> DEFINE both == done \o piece
    <3>1. both = [k \in 1..b |-> both[k]]
      <4>1. both \in Seq(T) /\ Len(both) = b
        BY <2>6
      <4> HIDE DEF both
      <4> QED
        BY <4>1
    <3>2. \A k \in 1..b : both[k] = whole[k]
      BY <2>7
    <3> HIDE DEF both
    <3>3. both = [k \in 1..b |-> whole[k]]
      BY <3>1, <3>2
    <3> QED
      BY <3>3 DEF both
  <2> QED
    BY <2>1, <2>3, <2>8 DEF b
<1> HIDE DEF S
<1>3. \A j \in 0..r : j \in S
  BY <1>0, <1>1, <1>2, UpTo
<1> QED
  BY <1>3 DEF S

-----------------------------------------------------------------------------
(* The lines of a chart.                                                   *)

(* Of each segment the samples carried, where there are any.               *)
CarriedLine(samples, carried, segment) ==
  Picked(samples, carried \cap (segment.startIndex..segment.endIndex))
CarriedLines(samples, carried, segments) ==
  [s \in DOMAIN segments |-> CarriedLine(samples, carried, segments[s])]
DrawnOf(samples, carried, segments) ==
  LET lines == CarriedLines(samples, carried, segments)
  IN Picked(lines, {s \in DOMAIN lines : lines[s] # << >>})

HoldsLine(samples, carried, segment, T) ==
  LET held == carried \cap (segment.startIndex..segment.endIndex)
      line == CarriedLine(samples, carried, segment)
  IN /\ line \in Seq(T) /\ (line = << >> <=> held = {})
     /\ \E r : Tells(r, Cardinality(held), held) /\ line = [k \in 1..Cardinality(held) |-> samples[r[k]]]

LEMMA CarriedLineOf ==
  ASSUME NEW n \in Nat, NEW T, NEW samples, Each(samples, n, T), NEW carried \in SUBSET (1..n), NEW segment
  PROVE  HoldsLine(samples, carried, segment, T)
<1> DEFINE held == carried \cap (segment.startIndex..segment.endIndex)
           line == CarriedLine(samples, carried, segment)
           size == Cardinality(held)
<1>1. held \in SUBSET (1..n) /\ line = Picked(samples, held)
  BY DEF CarriedLine
<1> HIDE DEF held, line
<1>2. PICK r : PickedBy(r, samples, held)
  BY <1>1, PickedOf
<1>3. /\ size \in Nat /\ line = [k \in 1..size |-> samples[r[k]]]
      /\ \A k \in 1..size : r[k] \in held /\ r[k] \in 1..n
      /\ (\A j, k \in 1..size : j < k => r[j] < r[k]) /\ \A x \in held : \E k \in 1..size : r[k] = x
  BY <1>1, <1>2 DEF PickedBy, Rising
<1>4. Tells(r, size, held)
  BY <1>1, <1>3 DEF Tells
<1> HIDE DEF size
<1>5. line \in [1..size -> T]
  BY <1>3 DEF Each
<1>6. line \in Seq(T) /\ Len(line) = size
  <2>1. line \in Seq(T)
    BY <1>3, <1>5, SeqDef
  <2> QED
    BY <1>3, <1>5, <2>1, LenProperties
<1>7. line = << >> <=> held = {}
  <2>1. held = {} => size = 0
    <3>1. held = {} => ~(1 \in 1..size)
      BY <1>3
    <3> QED
      BY <1>3, <3>1
  <2>2. size = 0 => held = {}
    BY <1>3
  <2>3. line = << >> <=> size = 0
    BY <1>6
  <2> QED
    BY <2>1, <2>2, <2>3
<1> QED
  BY <1>3, <1>4, <1>6, <1>7 DEF held, line, size, HoldsLine

(* w tells whose each of the places p is.                                  *)
OwnersOf(w, p, size, segments) ==
  \A k \in 1..size : Owned(segments, p[k], w[k]) /\ \A s : Owned(segments, p[k], s) => s = w[k]

(* g tells the line each of them is in, and e where each line ends.        *)
LinedBy(g, e, p, size, lines, segments, samples) ==
  /\ Len(lines) \in Nat /\ (Len(lines) = 0 <=> size = 0)
  /\ FlattenSeq(lines) = [k \in 1..size |-> samples[p[k]]]
  /\ \A k \in 1..size : g[k] \in 1..Len(lines)
  /\ \A j \in 0..Len(lines) : /\ e[j] \in 0..size /\ Len(JoinedUpTo(lines, j)) = e[j]
                              /\ \A k \in 1..size : k <= e[j] <=> g[k] <= j
  /\ \A j, k \in 1..size : g[j] = g[k] <=> (\A s : Owned(segments, p[j], s) <=> Owned(segments, p[k], s))

LEMMA OwnersExist ==
  ASSUME NEW n \in Nat, NEW segments, SegmentsCover(n, segments), NEW size \in Nat, NEW p,
         \A k \in 1..size : p[k] \in 1..n, \A j, k \in 1..size : j < k => p[j] < p[k]
  PROVE  \E w : OwnersOf(w, p, size, segments) /\ Climbs(w, size) /\ \A k \in 1..size : w[k] \in 1..Len(segments)
<1> DEFINE w == [k \in 1..size |-> CHOOSE s : Owned(segments, p[k], s)]
           m == Len(segments)
<1>1. ASSUME NEW k \in 1..size
      PROVE  Owned(segments, p[k], w[k]) /\ \A s : Owned(segments, p[k], s) => s = w[k]
  <2>1. p[k] \in 1..n
    OBVIOUS
  <2>2. (\E s : Owned(segments, p[k], s)) /\ \A s, u : Owned(segments, p[k], s) /\ Owned(segments, p[k], u) => s = u
    BY <2>1, OwnerIs
  <2>3. w[k] = CHOOSE s : Owned(segments, p[k], s)
    OBVIOUS
  <2> HIDE DEF w
  <2> QED
    BY <2>2, <2>3
<1> HIDE DEF w
<1>2. OwnersOf(w, p, size, segments)
  BY <1>1 DEF OwnersOf
<1>3. \A k \in 1..size : /\ w[k] \in 1..m /\ segments[w[k]].startIndex <= p[k] /\ p[k] <= segments[w[k]].endIndex
  BY <1>1 DEF Owned
<1>4. ASSUME NEW i \in 1..size, NEW k \in 1..size, i <= k PROVE w[i] <= w[k]
  <2>1. p[i] <= p[k] /\ p[i] \in Int /\ p[k] \in Int
    <3>1. i = k \/ i < k
      BY <1>4
    <3>2. p[i] \in 1..n /\ p[k] \in 1..n
      OBVIOUS
    <3> QED
      BY <3>1, <3>2
  <2>2. w[k] < w[i] => segments[w[k]].endIndex < segments[w[i]].startIndex
    BY <1>3, LaterSegments
  <2>3. /\ segments[w[k]].endIndex \in Int /\ segments[w[i]].startIndex \in Int
        /\ segments[w[i]].startIndex <= p[i] /\ p[k] <= segments[w[k]].endIndex
    BY <1>3 DEF SegmentsCover
  <2>4. w[i] \in Int /\ w[k] \in Int
    <3>1. w[i] \in 1..m /\ w[k] \in 1..m
      BY <1>3
    <3> QED
      BY <3>1
  <2> QED
    BY <2>1, <2>2, <2>3, <2>4
<1>5. Climbs(w, size)
  <2>1. \A k \in 1..size : w[k] \in Int
    <3>1. \A k \in 1..size : w[k] \in 1..m
      BY <1>3
    <3> QED
      BY <3>1
  <2> QED
    BY <1>4, <2>1 DEF Climbs
<1> QED
  BY <1>2, <1>3, <1>5

LEMMA ChartLines ==
  ASSUME NEW n \in Nat, NEW segments, SegmentsCover(n, segments), DOMAIN segments = 1..Len(segments),
         NEW T, NEW samples, Each(samples, n, T),
         NEW carried \in SUBSET (1..n), NEW size, NEW p, Tells(p, size, carried)
  PROVE  \E g, e : LinedBy(g, e, p, size, DrawnOf(samples, carried, segments), segments, samples)
<1> DEFINE m == Len(segments)
           heldBy(s) == carried \cap (segments[s].startIndex..segments[s].endIndex)
           lineOf(s) == CarriedLine(samples, carried, segments[s])
           lines == CarriedLines(samples, carried, segments)
           shownLines == {s \in 1..m : lines[s] # << >>}
           L == DrawnOf(samples, carried, segments)
           whole == [k \in 1..size |-> samples[p[k]]]
<1>1. /\ size \in Nat /\ (\A k \in 1..size : p[k] \in carried /\ p[k] \in 1..n /\ p[k] \in Int)
      /\ (\A j, k \in 1..size : j < k => p[j] < p[k]) /\ \A x \in carried : \E k \in 1..size : p[k] = x
  BY DEF Tells
<1>2. m \in Nat /\ DOMAIN segments = 1..m
  BY DEF SegmentsCover
<1>3. PICK w : OwnersOf(w, p, size, segments) /\ Climbs(w, size) /\ \A k \in 1..size : w[k] \in 1..m
  BY <1>1, OwnersExist, SMTT(30)
<1>4. \A k \in 1..size : /\ w[k] \in 1..m /\ segments[w[k]].startIndex <= p[k] /\ p[k] <= segments[w[k]].endIndex
                         /\ \A s : Owned(segments, p[k], s) => s = w[k]
  BY <1>3 DEF OwnersOf, Owned
<1>5. ASSUME NEW k \in 1..size, NEW s \in 1..m
      PROVE  p[k] \in heldBy(s) <=> w[k] = s
  <2>1. segments[s].startIndex \in Int /\ segments[s].endIndex \in Int
    BY DEF SegmentsCover
  <2>2. p[k] \in heldBy(s) <=> segments[s].startIndex <= p[k] /\ p[k] <= segments[s].endIndex
    BY <1>1, <2>1
  <2>3. p[k] \in heldBy(s) => w[k] = s
    BY <1>4, <2>2 DEF Owned
  <2>4. w[k] = s => p[k] \in heldBy(s)
    BY <1>4, <2>2
  <2> QED
    BY <2>3, <2>4
<1>6. ASSUME NEW s \in 1..m
      PROVE  /\ lines[s] \in Seq(T) /\ (lines[s] = << >> <=> heldBy(s) = {})
             /\ \E r : Tells(r, Cardinality(heldBy(s)), heldBy(s)) /\ lines[s] = [k \in 1..Cardinality(heldBy(s)) |-> samples[r[k]]]
  <2>1. lines[s] = lineOf(s)
    BY <1>2 DEF CarriedLines
  <2>2. HoldsLine(samples, carried, segments[s], T)
    BY CarriedLineOf
  <2> QED
    BY <2>1, <2>2 DEF HoldsLine
<1>7. L = Picked(lines, shownLines)
  <2>1. DOMAIN lines = 1..m
    BY <1>2 DEF CarriedLines
  <2>2. L = Picked(lines, {s \in DOMAIN lines : lines[s] # << >>})
    BY DEF DrawnOf
  <2> HIDE DEF lines, L
  <2> QED
    BY <2>1, <2>2
<1> HIDE DEF lines, lineOf, L
<1>8. \A s \in 1..m : s \in shownLines <=> \E k \in 1..size : w[k] = s
  <2> TAKE s \in 1..m
  <2>1. s \in shownLines <=> heldBy(s) # {}
    BY <1>6
  <2>2. \A x \in heldBy(s) : \E k \in 1..size : p[k] = x
    BY <1>1
  <2> HIDE DEF heldBy, shownLines
  <2>3. heldBy(s) # {} <=> \E k \in 1..size : p[k] \in heldBy(s)
    BY <2>2
  <2> QED
    BY <1>5, <2>1, <2>3
<1> DEFINE R == Cardinality(shownLines)
<1>9. PICK q : PickedBy(q, lines, shownLines)
  <2>1. shownLines \in SUBSET (1..m)
    OBVIOUS
  <2> HIDE DEF shownLines
  <2> QED
    BY <1>2, <2>1, PickedOf
<1>10. /\ R \in Nat /\ L = [j \in 1..R |-> lines[q[j]]]
       /\ \A j \in 1..R : q[j] \in shownLines /\ q[j] \in 1..m /\ q[j] \in Int
       /\ (\A i, j \in 1..R : i < j => q[i] < q[j]) /\ \A x \in shownLines : \E j \in 1..R : q[j] = x
  <2>1. shownLines \in SUBSET (1..m)
    OBVIOUS
  <2> HIDE DEF shownLines
  <2>2. \A j \in 1..R : q[j] \in shownLines
    BY <1>9 DEF PickedBy, Rising
  <2>3. \A j \in 1..R : q[j] \in 1..m
    BY <2>1, <2>2
  <2> QED
    BY <1>7, <1>9, <2>2, <2>3 DEF PickedBy, Rising
<1>11. Len(L) = R /\ L \in Seq(Seq(T)) /\ \A j \in 1..R : L[j] = lines[q[j]]
  <2>1. \A j \in 1..R : lines[q[j]] \in Seq(T)
    BY <1>6, <1>10
  <2>2. L \in [1..R -> Seq(T)]
    BY <1>10, <2>1
  <2>3. \A j \in 1..R : L[j] = lines[q[j]]
    BY <1>10
  <2> HIDE DEF R
  <2>4. L \in Seq(Seq(T))
    BY <1>10, <2>2, SeqDef
  <2> QED
    BY <1>10, <2>2, <2>3, <2>4, LenProperties
<1> DEFINE g == [k \in 1..size |-> CHOOSE j \in 1..R : q[j] = w[k]]
<1>12. \A k \in 1..size : g[k] \in 1..R /\ q[g[k]] = w[k]
  <2> TAKE k \in 1..size
  <2>1. \E j \in 1..R : q[j] = w[k]
    BY <1>3, <1>8, <1>10
  <2>2. g[k] = CHOOSE j \in 1..R : q[j] = w[k]
    OBVIOUS
  <2> HIDE DEF g, R
  <2> QED
    BY <2>1, <2>2
<1> HIDE DEF g, R, shownLines
<1>13. \A k \in 1..size, j \in 1..R : g[k] = j <=> w[k] = q[j]
  <2> TAKE k \in 1..size, j \in 1..R
  <2>1. g[k] \in 1..R /\ q[g[k]] = w[k]
    BY <1>12
  <2>2. g[k] # j => q[g[k]] # q[j]
    <3>1. g[k] # j => g[k] < j \/ j < g[k]
      BY <1>10, <2>1
    <3> QED
      BY <1>10, <2>1, <3>1
  <2> QED
    BY <2>1, <2>2
<1>14. Climbs(g, size)
  <2>1. \A k \in 1..size : g[k] \in Int
    BY <1>10, <1>12
  <2>2. ASSUME NEW i \in 1..size, NEW k \in 1..size, i <= k PROVE g[i] <= g[k]
    <3>1. w[i] <= w[k] /\ w[i] \in Int /\ w[k] \in Int
      BY <1>3, <2>2 DEF Climbs
    <3>2. g[i] \in 1..R /\ g[k] \in 1..R /\ q[g[i]] = w[i] /\ q[g[k]] = w[k]
      BY <1>12
    <3>3. g[k] < g[i] => q[g[k]] < q[g[i]]
      BY <1>10, <3>2
    <3> QED
      BY <2>1, <3>1, <3>2, <3>3
  <2> QED
    BY <2>1, <2>2 DEF Climbs
<1> DEFINE e == [j \in 0..R |-> CHOOSE count : CountsTo(g, size, j, count)]
<1>15. \A j \in 0..R : e[j] \in 0..size /\ \A k \in 1..size : k <= e[j] <=> g[k] <= j
  <2> TAKE j \in 0..R
  <2>1. \E count : CountsTo(g, size, j, count)
    <3>1. j \in Int
      BY <1>10
    <3> QED
      BY <1>1, <1>14, <3>1, CountedTo
  <2>2. e[j] = CHOOSE count : CountsTo(g, size, j, count)
    OBVIOUS
  <2> HIDE DEF e
  <2>3. CountsTo(g, size, j, e[j])
    BY <2>1, <2>2
  <2> QED
    BY <2>3 DEF CountsTo
<1> HIDE DEF e
<1>16. e[0] = 0 /\ e[R] = size /\ 0 \in 0..R /\ R \in 0..R
  <2>1. 0 \in 0..R /\ R \in 0..R /\ e[0] \in 0..size /\ e[R] \in 0..size
    BY <1>10, <1>15
  <2>2. e[0] # 0 => e[0] \in 1..size /\ g[e[0]] <= 0
    <3>1. e[0] # 0 => e[0] \in 1..size /\ e[0] <= e[0]
      BY <1>1, <2>1
    <3> QED
      BY <1>15, <2>1, <3>1
  <2>3. \A k \in 1..size : ~(g[k] <= 0) /\ g[k] <= R
    BY <1>10, <1>12
  <2>4. size # 0 => size \in 1..size /\ size <= e[R]
    <3>1. size # 0 => size \in 1..size
      BY <1>1
    <3> QED
      BY <1>15, <2>1, <2>3, <3>1
  <2> QED
    BY <1>1, <2>1, <2>2, <2>3, <2>4
<1>17. ASSUME NEW j \in 1..R
       PROVE  e[j - 1] <= e[j] /\ L[j] = [i \in 1..(e[j] - e[j - 1]) |-> whole[e[j - 1] + i]]
  <2> DEFINE a == e[j - 1]
             b == e[j]
             c == b - a
             held == heldBy(q[j])
             x == [i \in 1..c |-> p[a + i]]
  <2>1. j \in 0..R /\ j - 1 \in 0..R /\ j \in Int /\ q[j] \in 1..m
    BY <1>10
  <2>2. /\ a \in 0..size /\ b \in 0..size
        /\ \A k \in 1..size : (k <= a <=> g[k] <= j - 1) /\ (k <= b <=> g[k] <= j) /\ g[k] \in Int
    BY <1>14, <1>15, <2>1 DEF Climbs
  <2> HIDE DEF a, b
  <2>3. \A k \in 1..size : g[k] <= j - 1 => g[k] <= j
    BY <2>1, <2>2
  <2>4. a <= b
    <3>1. a # 0 => a \in 1..size /\ a <= a
      BY <1>1, <2>2
    <3>2. a # 0 => a <= b
      BY <2>2, <2>3, <3>1
    <3> QED
      BY <2>2, <3>2
  <2>5. c \in Nat /\ \A i \in 1..c : a + i \in 1..size /\ a + i <= b /\ ~(a + i <= a)
    BY <1>1, <2>2, <2>4
  <2>6. \A k \in 1..size : g[k] = j <=> (~(k <= a) /\ k <= b)
    BY <2>1, <2>2
  <2>7. \A k \in 1..size : p[k] \in held <=> g[k] = j
    BY <1>5, <1>13, <2>1
  <2>8. Tells(x, c, held)
    <3>1. held \subseteq Int
      BY <1>1
    <3>2. \A i \in 1..c : x[i] = p[a + i]
      OBVIOUS
    <3> HIDE DEF held, x
    <3>3. \A i \in 1..c : x[i] \in held
      BY <2>5, <2>6, <2>7, <3>2
    <3>4. \A i, k \in 1..c : i < k => x[i] < x[k]
      <4> TAKE i, k \in 1..c
      <4>1. i < k => a + i < a + k
        BY <2>2, <2>5
      <4> QED
        BY <1>1, <2>5, <3>2, <4>1
    <3>5. ASSUME NEW y \in held PROVE \E i \in 1..c : x[i] = y
      <4>1. PICK k \in 1..size : p[k] = y
        BY <1>1, <3>5 DEF held
      <4>2. ~(k <= a) /\ k <= b
        BY <2>6, <2>7, <4>1
      <4>3. k - a \in 1..c /\ a + (k - a) = k
        BY <2>2, <4>2
      <4> QED
        BY <3>2, <4>1, <4>3
    <3> HIDE DEF c
    <3> QED
      BY <2>5, <3>1, <3>3, <3>4, <3>5 DEF Tells
  <2> DEFINE d == Cardinality(held)
  <2>9. PICK r : Tells(r, d, held) /\ lines[q[j]] = [k \in 1..d |-> samples[r[k]]]
    BY <1>6, <2>1
  <2>10. \A i \in 1..c : x[i] = p[a + i]
    OBVIOUS
  <2> HIDE DEF held, x, d
  <2>11. c = d /\ \A i \in 1..c : x[i] = r[i]
    BY <2>8, <2>9, ToldOnce
  <2>12. \A i \in 1..c : whole[a + i] = samples[r[i]]
    BY <2>5, <2>10, <2>11
  <2> HIDE DEF c, whole
  <2>13. L[j] = [i \in 1..c |-> whole[a + i]]
    BY <1>11, <2>9, <2>11, <2>12
  <2> QED
    BY <2>4, <2>13 DEF a, b, c
<1>18. InPieces(L, whole, e, size)
  <2> HIDE DEF whole
  <2> QED
    BY <1>11, <1>15, <1>16, <1>17 DEF InPieces
<1>19. Each(whole, size, T)
  BY <1>1 DEF Each
<1> HIDE DEF whole
<1>20. \A j \in 0..R : JoinedUpTo(L, j) = [k \in 1..e[j] |-> whole[k]]
  BY <1>1, <1>11, <1>18, <1>19, JoinedPieces
<1>21. ASSUME NEW j \in 0..R PROVE Len(JoinedUpTo(L, j)) = e[j]
  <2>1. JoinedUpTo(L, j) \in Seq(T) /\ JoinedUpTo(L, j) = [k \in 1..e[j] |-> whole[k]] /\ e[j] \in Nat
    BY <1>1, <1>11, <1>15, <1>20, JoinedUnrolled
  <2>2. DOMAIN JoinedUpTo(L, j) = 1..e[j]
    BY <2>1
  <2> QED
    BY <2>1, <2>2, LenProperties
<1>22. FlattenSeq(L) = whole
  <2>1. FlattenSeq(L) = JoinedUpTo(L, R)
    BY <1>11, JoinedUnrolled
  <2>2. whole = [k \in 1..size |-> whole[k]]
    BY DEF whole
  <2> QED
    BY <1>16, <1>20, <2>1, <2>2
<1>23. \A j, k \in 1..size : g[j] = g[k] <=> (\A s : Owned(segments, p[j], s) <=> Owned(segments, p[k], s))
  <2> TAKE j, k \in 1..size
  <2>1. g[j] = g[k] <=> w[j] = w[k]
    BY <1>12, <1>13
  <2>2. \A s : (Owned(segments, p[j], s) <=> s = w[j]) /\ (Owned(segments, p[k], s) <=> s = w[k])
    BY <1>3 DEF OwnersOf
  <2> QED
    BY <2>1, <2>2
<1>24. R = 0 <=> size = 0
  <2>1. R # 0 => size # 0
    <3>1. R # 0 => 1 \in 1..R
      BY <1>10
    <3>2. ASSUME 1 \in 1..R PROVE size # 0
      <4>1. \E k \in 1..size : w[k] = q[1]
        BY <1>8, <1>10, <3>2
      <4> QED
        BY <4>1
    <3> QED
      BY <3>1, <3>2
  <2>2. size # 0 => R # 0
    <3>1. size # 0 => 1 \in 1..size
      BY <1>1
    <3>2. ASSUME 1 \in 1..size PROVE R # 0
      <4>1. g[1] \in 1..R
        BY <1>12, <3>2
      <4> QED
        BY <4>1
    <3> QED
      BY <3>1, <3>2
  <2> QED
    BY <2>1, <2>2
<1>25. LinedBy(g, e, p, size, L, segments, samples)
  <2>1. Len(L) = R /\ R \in Nat /\ (R = 0 <=> size = 0)
    BY <1>10, <1>11, <1>24
  <2>2. FlattenSeq(L) = [k \in 1..size |-> samples[p[k]]]
    BY <1>22 DEF whole
  <2>3. \A j \in 0..R : /\ e[j] \in 0..size /\ Len(JoinedUpTo(L, j)) = e[j]
                        /\ \A k \in 1..size : k <= e[j] <=> g[k] <= j
    BY <1>15, <1>21
  <2> QED
    BY <1>12, <1>23, <2>1, <2>2, <2>3 DEF LinedBy
<1> QED
  BY <1>25 DEF L

(* positionAt: between the ends of a track there is a place.               *)
LEMMA PlaceIsKnown ==
  ASSUME NEW track, Located(track), track.points # << >>, NEW t \in Int,
         track.points[1].t <= t, t <= track.points[Len(track.points)].t
  PROVE  PositionAt(track, t) \in [num : Int, den : Int]
<1> DEFINE points == track.points
           segments == track.segments
           n == Len(points)
           m == Len(segments)
           begun == {s \in DOMAIN segments : t >= points[segments[s].startIndex].t}
<1>1. n \in Nat /\ n >= 1 /\ m \in Nat /\ DOMAIN segments = 1..m /\ DOMAIN points = 1..n /\ SegmentsCover(n, segments)
  BY LocatedIsParted DEF Parted
<1>2. \A i \in 1..n : points[i].t \in Int /\ points[i].place \in Int
  BY <1>1 DEF Located
<1>3. 1 \in 1..n /\ n \in 1..n
  BY <1>1
<1>4. PositionAt(track, t) = Within(points, segments[OwningSegment(track, t)], t)
  <2>1. ~(t < points[1].t \/ t > points[n].t) /\ n # 0
    BY <1>1, <1>2, <1>3
  <2> QED
    BY <2>1 DEF PositionAt
<1>5. OwningSegment(track, t) \in 1..m
  <2>1. m # 0 /\ segments[1].startIndex = 1
    BY <1>1 DEF SegmentsCover
  <2>2. t >= points[1].t
    BY <1>2, <1>3
  <2>3. begun \in SUBSET (1..m) /\ begun # {}
    BY <1>1, <2>1, <2>2
  <2> HIDE DEF begun
  <2>4. Max(begun) \in begun
    BY <1>1, <2>3, GreatestIs
  <2> QED
    BY <2>3, <2>4 DEF OwningSegment, begun
<1> DEFINE o == OwningSegment(track, t)
           within == {segments[o].startIndex} \cup
                       {i \in segments[o].startIndex..segments[o].endIndex : points[i].t <= t}
           index == Max(within)
<1>6. segments[o].startIndex \in 1..n /\ segments[o].endIndex \in 1..n
  BY <1>1, <1>5 DEF SegmentsCover
<1>7. index \in 1..n
  <2>1. within \in SUBSET (1..n) /\ within # {}
    BY <1>1, <1>6
  <2> HIDE DEF within
  <2>2. Max(within) \in within
    BY <1>1, <2>1, GreatestIs
  <2> QED
    BY <2>1, <2>2
<1>8. Within(points, segments[o], t) =
             IF points[index].t = t \/ index = n \/ index >= segments[o].endIndex
               THEN [num |-> points[index].place, den |-> 1]
               ELSE [num |-> points[index].place * (points[index + 1].t - points[index].t)
                               + (points[index + 1].place - points[index].place) * (t - points[index].t),
                     den |-> points[index + 1].t - points[index].t]
  BY DEF Within
<1> HIDE DEF within, index, o
<1>9. CASE points[index].t = t \/ index = n \/ index >= segments[o].endIndex
  BY <1>2, <1>4, <1>7, <1>8, <1>9 DEF o
<1>10. CASE ~(points[index].t = t \/ index = n \/ index >= segments[o].endIndex)
  <2> DEFINE a == points[index].place
             b == points[index + 1].place
             d == points[index + 1].t - points[index].t
             x == t - points[index].t
  <2>1. index + 1 \in 1..n
    BY <1>1, <1>7, <1>10
  <2>2. a \in Int /\ b \in Int /\ d \in Int /\ x \in Int
    BY <1>2, <1>7, <2>1, SMTT(30)
  <2>3. PositionAt(track, t) = [num |-> a * d + (b - a) * x, den |-> d]
    BY <1>4, <1>8, <1>10 DEF o
  <2> HIDE DEF a, b, d, x
  <2>4. a * d + (b - a) * x \in Int
    BY <2>2
  <2> QED
    BY <2>2, <2>3, <2>4
<1> QED
  BY <1>9, <1>10

-----------------------------------------------------------------------------
(* The box of a chart.                                                     *)

FirstMoment(track, key) == track.points[Min(Carried(track, key))].t
LastMoment(track, key) == track.points[Max(Carried(track, key))].t
ReadAt(track, key, i) == track.points[i].channels[key]
LowEnd(track, d) ==
  IF d.min = Absent THEN Min({ReadAt(track, d.key, i) : i \in Carried(track, d.key)}) ELSE d.min
HighEnd(track, d) ==
  IF d.max = Absent THEN Max({ReadAt(track, d.key, i) : i \in Carried(track, d.key)}) ELSE d.max
AcrossX(track, key, t) == Part(FirstMoment(track, key), LastMoment(track, key), t, [num |-> 0, den |-> 1])
UpY(track, d, i) == Part(LowEnd(track, d), HighEnd(track, d), ReadAt(track, d.key, i), [num |-> 1, den |-> 2])
SamplesOf(track, d) ==
  [i \in DOMAIN track.points |-> [x |-> AcrossX(track, d.key, track.points[i].t), y |-> UpY(track, d, i)]]

LEMMA ChartParts ==
  ASSUME NEW track, NEW d, NEW moment
  PROVE  /\ ChannelChart(track, d, moment).lines = DrawnOf(SamplesOf(track, d), Carried(track, d.key), track.segments)
         /\ ChannelChart(track, d, moment).cursor =
              IF moment = Absent THEN Absent
              ELSE IF moment < FirstMoment(track, d.key) \/ moment > LastMoment(track, d.key) THEN Absent
              ELSE AcrossX(track, d.key, moment)
<1> DEFINE samples == SamplesOf(track, d)
           carried == Carried(track, d.key)
           lines == [s \in DOMAIN track.segments |->
                       Picked(samples, carried \cap (track.segments[s].startIndex..track.segments[s].endIndex))]
<1>1. ChannelChart(track, d, moment).lines = Picked(lines, {s \in DOMAIN lines : lines[s] # << >>})
  BY DEF ChannelChart, SamplesOf, AcrossX, UpY, LowEnd, HighEnd, ReadAt, FirstMoment, LastMoment
<1>2. CarriedLines(samples, carried, track.segments) = lines
  BY DEF CarriedLines, CarriedLine
<1>3. ChannelChart(track, d, moment).lines = DrawnOf(samples, carried, track.segments)
  <2> HIDE DEF samples, carried, lines
  <2> QED
    BY <1>1, <1>2 DEF DrawnOf
<1>4. ChannelChart(track, d, moment).cursor =
              IF moment = Absent THEN Absent
              ELSE IF moment < FirstMoment(track, d.key) \/ moment > LastMoment(track, d.key) THEN Absent
              ELSE AcrossX(track, d.key, moment)
  BY DEF ChannelChart, AcrossX, FirstMoment, LastMoment
<1> QED
  BY <1>3, <1>4

LEMMA ChartsOf ==
  ASSUME NEW track, NEW d, NEW moment
  PROVE  LET charts == ChannelCharts(track, <<d>>, Absent, moment)
         IN /\ Carried(track, d.key) = {} => charts = << >>
            /\ Carried(track, d.key) # {} => charts[1] = ChannelChart(track, d, moment)
<1> DEFINE C == Carried(track, d.key)
           charted == Chartable(track, <<d>>, Absent)
           charts == ChannelCharts(track, <<d>>, Absent, moment)
           some == {c \in DOMAIN <<d>> : (Absent = Absent \/ <<d>>[c].key \in Absent) /\ Carried(track, <<d>>[c].key) # {}}
<1>1. charted = Picked(<<d>>, some)
  BY DEF Chartable
<1>2. charts = [c \in DOMAIN charted |-> ChannelChart(track, charted[c], moment)]
  BY DEF ChannelCharts
<1>3. DOMAIN <<d>> = {1} /\ <<d>>[1] = d
  OBVIOUS
<1> HIDE DEF charts, charted
<1>4. ASSUME C = {} PROVE charts = << >>
  <2>1. some = {}
    BY <1>3, <1>4
  <2>2. Cardinality({}) = 0
    BY FS_EmptySet
  <2>3. DOMAIN charted = 1..0
    BY <1>1, <2>1, <2>2 DEF Picked
  <2> QED
    BY <1>2, <2>3
<1>5. ASSUME C # {} PROVE charts[1] = ChannelChart(track, d, moment)
  <2>1. some = {1}
    BY <1>3, <1>5
  <2>2. Cardinality({1}) = 1 /\ {1} \in SUBSET (1..1) /\ 1 \in Nat
    <3>1. Cardinality({1}) = 1
      BY FS_Singleton
    <3>2. {1} \in SUBSET (1..1) /\ 1 \in Nat
      OBVIOUS
    <3> QED
      BY <3>1, <3>2
  <2>3. PICK p : PickedBy(p, <<d>>, {1})
    BY <2>2, PickedOf
  <2>4. p[1] = 1 /\ Picked(<<d>>, {1}) = [k \in 1..1 |-> <<d>>[p[k]]]
    <3>1. 1 \in 1..1
      OBVIOUS
    <3> QED
      BY <2>2, <2>3, <3>1 DEF PickedBy, Rising
  <2>5. DOMAIN charted = 1..1 /\ charted[1] = d /\ 1 \in 1..1
    BY <1>1, <1>3, <2>1, <2>4
  <2> QED
    BY <1>2, <2>5
<1> QED
  BY <1>4, <1>5 DEF charts

(* What a channel of a track reads, where it reads anything.               *)
Readable(track, key) ==
  \A i \in DOMAIN track.points : track.points[i].channels[key] \in Int \cup {Absent}

InBox(share) == 0 <= share.num /\ share.num <= share.den

LEMMA PartInBox ==
  ASSUME NEW u \in Int, NEW v \in Int, NEW a \in Int, NEW b \in Int, u <= a, a <= b, b <= v,
         NEW deg \in [num : Int, den : Int], InBox(deg)
  PROVE  /\ Part(u, v, a, deg) \in [num : Int, den : Int] /\ InBox(Part(u, v, a, deg))
         /\ Part(u, v, b, deg) \in [num : Int, den : Int] /\ InBox(Part(u, v, b, deg))
         /\ Part(u, v, a, deg).num <= Part(u, v, b, deg).num
<1>1. CASE v = u
  <2>1. Part(u, v, a, deg) = deg /\ Part(u, v, b, deg) = deg
    BY <1>1 DEF Part
  <2>2. deg.num \in Int
    OBVIOUS
  <2> QED
    BY <2>1, <2>2
<1>2. CASE v # u
  <2>1. Part(u, v, a, deg) = [num |-> a - u, den |-> v - u] /\ Part(u, v, b, deg) = [num |-> b - u, den |-> v - u]
    BY <1>2 DEF Part
  <2>2. a - u \in Int /\ b - u \in Int /\ v - u \in Int /\ 0 <= a - u /\ a - u <= v - u /\ 0 <= b - u /\ b - u <= v - u /\ a - u <= b - u
    OBVIOUS
  <2> QED
    BY <2>1, <2>2 DEF InBox
<1> QED
  BY <1>1, <1>2

(* Where a channel of a track is carried, and the times there.             *)
LEMMA CarriedBetween ==
  ASSUME NEW track, Located(track), NEW key, Carried(track, key) # {}
  PROVE  LET n == Len(track.points)
             C == Carried(track, key)
             u == FirstMoment(track, key)
             v == LastMoment(track, key)
         IN /\ n \in Nat /\ DOMAIN track.points = 1..n /\ C \in SUBSET (1..n)
            /\ u \in Int /\ v \in Int /\ u <= v /\ n >= 1
            /\ \A i \in C : track.points[i].t \in Int /\ u <= track.points[i].t /\ track.points[i].t <= v
            /\ \A i, j \in C : i <= j => track.points[i].t <= track.points[j].t
            /\ track.points[1].t <= u /\ v <= track.points[n].t
<1> DEFINE n == Len(track.points)
           C == Carried(track, key)
           lo == Min(C)
           hi == Max(C)
           u == FirstMoment(track, key)
           v == LastMoment(track, key)
<1>1. n \in Nat /\ DOMAIN track.points = 1..n /\ \A i, j \in 1..n : i <= j => track.points[i].t <= track.points[j].t
  BY LocatedIsParted DEF Parted, InTimeOrder
<1>2. \A i \in 1..n : track.points[i].t \in Int
  BY <1>1 DEF Located
<1>3. C \in SUBSET (1..n) /\ C # {}
  BY <1>1 DEF Carried
<1> HIDE DEF C
<1>4. lo \in C /\ hi \in C /\ \A i \in C : lo <= i /\ i <= hi
  BY <1>1, <1>3, LeastIs, GreatestIs
<1>5. u = track.points[lo].t /\ v = track.points[hi].t
  BY DEF FirstMoment, LastMoment, C
<1> HIDE DEF lo, hi
<1>6. \A i \in C : i \in 1..n
  BY <1>3
<1>7. lo \in 1..n /\ hi \in 1..n /\ 1 \in 1..n /\ n \in 1..n /\ 1 <= lo /\ hi <= n /\ n >= 1
  BY <1>1, <1>4, <1>6
<1>8. u \in Int /\ v \in Int
  BY <1>2, <1>5, <1>7
<1>9. track.points[1].t <= u /\ v <= track.points[n].t
  BY <1>1, <1>5, <1>7
<1>10. \A i \in C : track.points[i].t \in Int /\ u <= track.points[i].t /\ track.points[i].t <= v
  BY <1>1, <1>2, <1>4, <1>5, <1>6, <1>7
<1>11. \A i, j \in C : i <= j => track.points[i].t <= track.points[j].t
  BY <1>1, <1>6
<1>12. u <= v
  BY <1>4, <1>5, <1>10, <1>8
<1> QED
  BY <1>1, <1>3, <1>7, <1>8, <1>9, <1>10, <1>11, <1>12 DEF C

(* Along the chart, the samples and the cursor.                            *)
LEMMA AlongTheChart ==
  ASSUME NEW track, Located(track), NEW key, Carried(track, key) # {}
  PROVE  /\ \A t \in Int : FirstMoment(track, key) <= t /\ t <= LastMoment(track, key) =>
              AcrossX(track, key, t) \in [num : Int, den : Int] /\ InBox(AcrossX(track, key, t))
         /\ \A i, j \in Carried(track, key) : i <= j =>
              AcrossX(track, key, track.points[i].t).num <= AcrossX(track, key, track.points[j].t).num
<1> DEFINE C == Carried(track, key)
           u == FirstMoment(track, key)
           v == LastMoment(track, key)
           deg == [num |-> 0, den |-> 1]
<1>1. /\ u \in Int /\ v \in Int
      /\ \A i \in C : track.points[i].t \in Int /\ u <= track.points[i].t /\ track.points[i].t <= v
      /\ \A i, j \in C : i <= j => track.points[i].t <= track.points[j].t
  BY CarriedBetween
<1>2. \A t : AcrossX(track, key, t) = Part(u, v, t, deg)
  BY DEF AcrossX
<1>3. deg \in [num : Int, den : Int] /\ InBox(deg)
  BY DEF InBox
<1> HIDE DEF u, v, C, deg
<1>4. ASSUME NEW t \in Int, u <= t, t <= v
      PROVE  AcrossX(track, key, t) \in [num : Int, den : Int] /\ InBox(AcrossX(track, key, t))
  <2>1. t <= t
    BY <1>4
  <2>2. Part(u, v, t, deg) \in [num : Int, den : Int] /\ InBox(Part(u, v, t, deg))
    BY <1>1, <1>3, <1>4, <2>1, PartInBox
  <2> QED
    BY <1>2, <2>2
<1>5. ASSUME NEW i \in C, NEW j \in C, i <= j
      PROVE  AcrossX(track, key, track.points[i].t).num <= AcrossX(track, key, track.points[j].t).num
  <2> DEFINE a == track.points[i].t
             b == track.points[j].t
  <2>1. a \in Int /\ b \in Int /\ u <= a /\ a <= b /\ b <= v
    BY <1>1, <1>5
  <2> HIDE DEF a, b
  <2>2. Part(u, v, a, deg).num <= Part(u, v, b, deg).num
    BY <1>1, <1>3, <2>1, PartInBox
  <2> QED
    BY <1>2, <2>2 DEF a, b
<1> QED
  BY <1>4, <1>5 DEF u, v, C

(* Up the chart, when the scale is the data's.                             *)
LEMMA UpTheChart ==
  ASSUME NEW track, Located(track), NEW d, Carried(track, d.key) # {}, Readable(track, d.key),
         d.min = Absent, d.max = Absent, NEW i \in Carried(track, d.key)
  PROVE  InBox(UpY(track, d, i))
<1> DEFINE n == Len(track.points)
           C == Carried(track, d.key)
           size == Cardinality(C)
           values == {ReadAt(track, d.key, j) : j \in C}
           deg == [num |-> 1, den |-> 2]
<1>1. n \in Nat /\ DOMAIN track.points = 1..n /\ C \in SUBSET (1..n) /\ C # {}
  BY CarriedBetween
<1>2. \A j \in C : ReadAt(track, d.key, j) \in Int
  BY <1>1 DEF Carried, ReadAt, Readable
<1>3. PICK p : Rising(p, C) /\ size \in Nat
  <2>1. C \in SUBSET (1..n)
    BY <1>1
  <2> HIDE DEF C
  <2>2. PICK p : \A s : PickedBy(p, s, C)
    BY <1>1, <2>1, PickedOf
  <2> QED
    BY <2>2 DEF PickedBy
<1> DEFINE f == [k \in 1..size |-> ReadAt(track, d.key, p[k])]
<1> HIDE DEF C
<1>4. /\ \A k \in 1..size : p[k] \in C
      /\ \A x \in C : \E k \in 1..size : p[k] = x
  BY <1>3 DEF Rising
<1>5. size >= 1 /\ \A k \in 1..size : f[k] \in Int
  <2>1. \E k \in 1..size : TRUE
    BY <1>1, <1>4
  <2>2. size >= 1
    BY <1>3, <2>1
  <2> QED
    BY <1>2, <1>4, <2>2
<1>6. values = ValuesOf(f, size)
  <2>1. \A k \in 1..size : f[k] = ReadAt(track, d.key, p[k])
    OBVIOUS
  <2>2. \A x \in values : x \in ValuesOf(f, size)
    <3> TAKE x \in values
    <3>1. PICK j \in C : x = ReadAt(track, d.key, j)
      OBVIOUS
    <3>2. PICK k \in 1..size : p[k] = j
      BY <1>4
    <3> QED
      BY <2>1, <3>1, <3>2 DEF ValuesOf
  <2>3. \A x \in ValuesOf(f, size) : x \in values
    BY <1>4, <2>1 DEF ValuesOf
  <2> HIDE DEF values, f
  <2> QED
    BY <2>2, <2>3
<1> HIDE DEF f
<1>7. /\ Max(values) \in values /\ Min(values) \in values
      /\ \A k \in 1..size : Min(values) <= f[k] /\ f[k] <= Max(values)
  BY <1>3, <1>5, <1>6, ExtremesOf
<1>8. PICK k \in 1..size : p[k] = i
  BY <1>4 DEF C
<1>9. f[k] = ReadAt(track, d.key, i)
  BY <1>8 DEF f
<1>10. Max(values) \in Int /\ Min(values) \in Int
  BY <1>2, <1>7
<1>11. UpY(track, d, i) = Part(Min(values), Max(values), ReadAt(track, d.key, i), deg)
  BY DEF UpY, LowEnd, HighEnd, C
<1>12. deg \in [num : Int, den : Int] /\ InBox(deg)
  BY DEF InBox
<1> DEFINE u == Min(values)
           v == Max(values)
           a == ReadAt(track, d.key, i)
<1>13. u \in Int /\ v \in Int /\ a \in Int /\ u <= a /\ a <= a /\ a <= v
  BY <1>2, <1>7, <1>8, <1>9, <1>10 DEF C
<1> HIDE DEF u, v, a, deg
<1>14. InBox(Part(u, v, a, deg))
  BY <1>12, <1>13, PartInBox
<1> QED
  BY <1>11, <1>14 DEF u, v, a, deg

(* ChannelChart, TripReview: whatever the track, its channel and the       *)
(* cursor, a chart has each sample once and in order, joins two only       *)
(* within a segment and keeps to its box, and its cursor stands where the  *)
(* map has a marker and on the sample of its moment.                       *)
THEOREM ChartsShowTheTrip ==
  ASSUME NEW track, Located(track), NEW d, Readable(track, d.key), NEW moment \in Int \cup {Absent}
  PROVE  ChartIsTheTrip(track, d, moment)
<1> DEFINE points == track.points
           segments == track.segments
           n == Len(points)
           m == Len(segments)
           C == Carried(track, d.key)
           size == Cardinality(C)
           places == [i \in DOMAIN points |-> i]
           carried == Picked(places, C)
           charts == ChannelCharts(track, <<d>>, Absent, moment)
           chart == charts[1]
           drawn == FlattenSeq(chart.lines)
           owner(i) == CHOOSE s \in DOMAIN segments : i \in segments[s].startIndex..segments[s].endIndex
           lineOf(k) == Min({j \in DOMAIN chart.lines : k <= Len(FlattenSeq(SubSeq(chart.lines, 1, j)))})
           samples == SamplesOf(track, d)
<1>1. n \in Nat /\ DOMAIN points = 1..n /\ m \in Nat /\ DOMAIN segments = 1..m
  BY LocatedIsParted DEF Parted
<1>2. C \in SUBSET (1..n)
  BY <1>1 DEF Carried
<1>3. PICK p : \A s : PickedBy(p, s, C)
  <2> HIDE DEF C
  <2> QED
    BY <1>1, <1>2, PickedOf
<1>4. /\ size \in Nat /\ (\A k \in 1..size : p[k] \in C /\ p[k] \in 1..n)
      /\ (\A j, k \in 1..size : j < k => p[j] < p[k]) /\ \A x \in C : \E k \in 1..size : p[k] = x
  <2>1. Rising(p, C) /\ size \in Nat
    BY <1>3 DEF PickedBy
  <2> HIDE DEF C
  <2> QED
    BY <1>2, <2>1 DEF Rising
<1>5. Tells(p, size, C)
  <2> HIDE DEF C
  <2> QED
    BY <1>1, <1>2, <1>4 DEF Tells
<1>6. carried = [k \in 1..size |-> p[k]]
  <2>1. carried = [k \in 1..size |-> places[p[k]]]
    BY <1>3 DEF PickedBy
  <2>2. \A k \in 1..size : places[p[k]] = p[k]
    BY <1>1, <1>4
  <2> HIDE DEF carried, places, size
  <2> QED
    BY <2>1, <2>2
<1>7. carried \in Seq(1..n) /\ Len(carried) = size /\ DOMAIN carried = 1..size /\ \A k \in 1..size : carried[k] = p[k]
  <2>1. carried \in [1..size -> 1..n] /\ DOMAIN carried = 1..size /\ \A k \in 1..size : carried[k] = p[k]
    BY <1>4, <1>6
  <2> HIDE DEF carried, size
  <2>2. carried \in Seq(1..n)
    BY <1>4, <2>1, SeqDef
  <2> QED
    BY <1>4, <2>1, <2>2, LenProperties
<1>8. carried = << >> <=> C = {}
  <2>1. size = 0 <=> C = {}
    <3>1. C = {} => size = 0
      BY FS_EmptySet
    <3>2. size = 0 => C = {}
      BY <1>4
    <3> QED
      BY <3>1, <3>2
  <2>2. carried = << >> <=> size = 0
    <3> HIDE DEF carried, size
    <3> QED
      BY <1>7
  <2> QED
    BY <2>1, <2>2
<1>9. CASE C = {}
  <2>1. charts = << >>
    BY <1>9, ChartsOf
  <2> QED
    BY <1>8, <1>9, <2>1 DEF ChartIsTheTrip
<1>10. CASE C # {}
  <2> HIDE DEF C, size, carried, places
  <2>1. chart = ChannelChart(track, d, moment)
    BY <1>10, ChartsOf DEF C
  <2>2. /\ chart.lines = DrawnOf(samples, C, segments)
        /\ chart.cursor = IF moment = Absent THEN Absent
                          ELSE IF moment < FirstMoment(track, d.key) \/ moment > LastMoment(track, d.key) THEN Absent
                          ELSE AcrossX(track, d.key, moment)
    BY <2>1, ChartParts DEF C
  <2> DEFINE lines == chart.lines
             u == FirstMoment(track, d.key)
             v == LastMoment(track, d.key)
             marker == Marker(track, moment)
  <2>3. /\ u \in Int /\ v \in Int /\ u <= v /\ n >= 1 /\ points[1].t <= u /\ v <= points[n].t
        /\ \A i \in C : points[i].t \in Int /\ u <= points[i].t /\ points[i].t <= v
    BY <1>10, CarriedBetween DEF C
  <2>4. SegmentsCover(n, segments) /\ points # << >>
    <3>1. points # << >>
      BY <2>3
    <3> QED
      BY <3>1, LocatedIsParted DEF Parted
  <2>5. PICK g, e : LinedBy(g, e, p, size, lines, segments, samples)
    <3> DEFINE T == {samples[i] : i \in 1..n}
    <3>1. Each(samples, n, T)
      BY DEF Each
    <3> HIDE DEF T, samples, lines
    <3>2. \E g, e : LinedBy(g, e, p, size, DrawnOf(samples, C, segments), segments, samples)
      BY <1>1, <1>2, <1>5, <2>4, <3>1, ChartLines
    <3> QED
      BY <2>2, <3>2 DEF lines
  <2> DEFINE R == Len(lines)
  <2>6. /\ R \in Nat /\ DOMAIN lines = 1..R
        /\ drawn = [k \in 1..size |-> samples[p[k]]]
        /\ \A k \in 1..size : g[k] \in 1..R
        /\ \A j \in 1..R : Len(JoinedUpTo(lines, j)) = e[j] /\ \A k \in 1..size : k <= e[j] <=> g[k] <= j
        /\ \A j, k \in 1..size : g[j] = g[k] <=> (\A s : Owned(segments, p[j], s) <=> Owned(segments, p[k], s))
    <3> DEFINE kept == {s \in 1..m : CarriedLines(samples, C, segments)[s] # << >>}
    <3>1. lines = DrawnOf(samples, C, segments)
      BY <2>2
    <3>2. DOMAIN CarriedLines(samples, C, segments) = 1..m
      BY <1>1 DEF CarriedLines
    <3>3. DrawnOf(samples, C, segments) = Picked(CarriedLines(samples, C, segments), kept)
      BY <3>2 DEF DrawnOf
    <3>4. PICK q : PickedBy(q, CarriedLines(samples, C, segments), kept)
      <4>1. kept \in SUBSET (1..m)
        OBVIOUS
      <4> HIDE DEF kept
      <4> QED
        BY <1>1, <4>1, PickedOf
    <3> DEFINE c == Cardinality(kept)
    <3>5. c \in Nat /\ \E h : lines = [k \in 1..c |-> h[k]]
      <4>1. c \in Nat /\ lines = [k \in 1..c |-> CarriedLines(samples, C, segments)[q[k]]]
        <5> HIDE DEF kept, lines
        <5> QED
          BY <3>1, <3>3, <3>4 DEF PickedBy
      <4> DEFINE h == [k \in 1..c |-> CarriedLines(samples, C, segments)[q[k]]]
      <4>2. lines = [k \in 1..c |-> h[k]]
        BY <4>1
      <4> QED
        BY <4>1, <4>2
    <3> HIDE DEF c, lines, kept
    <3>6. DOMAIN lines = 1..R
      BY <3>5
    <3>7. R \in Nat /\ FlattenSeq(lines) = [k \in 1..size |-> samples[p[k]]]
          /\ \A k \in 1..size : g[k] \in 1..R
      BY <2>5 DEF LinedBy
    <3>8. \A j \in 1..R : Len(JoinedUpTo(lines, j)) = e[j] /\ \A k \in 1..size : k <= e[j] <=> g[k] <= j
      <4>1. \A j \in 1..R : j \in 0..R
        BY <3>7
      <4> QED
        BY <2>5, <4>1 DEF LinedBy
    <3>9. \A j, k \in 1..size : g[j] = g[k] <=> (\A s : Owned(segments, p[j], s) <=> Owned(segments, p[k], s))
      BY <2>5 DEF LinedBy
    <3> QED
      BY <3>6, <3>7, <3>8, <3>9 DEF lines
  <2>7. \A k \in 1..size : lineOf(k) = g[k]
    <3> TAKE k \in 1..size
    <3> DEFINE S == {j \in DOMAIN chart.lines : k <= Len(FlattenSeq(SubSeq(chart.lines, 1, j)))}
    <3>1. \A j \in 1..R : k <= Len(FlattenSeq(SubSeq(lines, 1, j))) <=> g[k] <= j
      BY <2>6 DEF JoinedUpTo
    <3>2. S \in SUBSET (1..R) /\ \A j \in 1..R : j \in S <=> g[k] <= j
      BY <2>6, <3>1
    <3>3. lineOf(k) = Min(S)
      OBVIOUS
    <3>4. g[k] \in 1..R /\ R \in Nat
      BY <2>6
    <3> HIDE DEF S, R, lineOf
    <3>5. g[k] \in S /\ S # {}
      BY <3>2, <3>4
    <3>6. Min(S) \in S /\ \A x \in S : Min(S) <= x
      BY <3>2, <3>4, <3>5, LeastIs
    <3>7. Min(S) \in 1..R /\ g[k] <= Min(S) /\ Min(S) <= g[k]
      BY <3>2, <3>5, <3>6
    <3> QED
      BY <3>3, <3>4, <3>7
  <2>8. \A k \in 1..size : \A s : Owned(segments, p[k], s) <=> s = owner(p[k])
    <3> TAKE k \in 1..size
    <3>1. p[k] \in 1..n /\ p[k] \in Int
      BY <1>4
    <3>2. PICK s : Owned(segments, p[k], s)
      BY <1>1, <2>4, <3>1, OwnerIs
    <3>3. \A x : Owned(segments, p[k], x) => x = s
      BY <1>1, <2>4, <3>1, <3>2, OwnerIs
    <3>4. \A x : Owned(segments, p[k], x) <=> (x \in DOMAIN segments /\ p[k] \in segments[x].startIndex..segments[x].endIndex)
      <4>1. \A x \in 1..m : segments[x].startIndex \in Int /\ segments[x].endIndex \in Int
        BY <2>4 DEF SegmentsCover
      <4> QED
        BY <1>1, <3>1, <4>1 DEF Owned
    <3>5. owner(p[k]) = s
      <4>1. s \in DOMAIN segments /\ p[k] \in segments[s].startIndex..segments[s].endIndex
        BY <3>2, <3>4
      <4>2. \A x \in DOMAIN segments : p[k] \in segments[x].startIndex..segments[x].endIndex => x = s
        BY <3>3, <3>4
      <4> QED
        BY <4>1, <4>2
    <3> HIDE DEF owner
    <3> QED
      BY <3>2, <3>3, <3>5
  <2>9. Len(drawn) = Len(carried) /\ DOMAIN drawn = 1..size
    <3> DEFINE T == {samples[p[k]] : k \in 1..size}
    <3>1. drawn \in [1..size -> T] /\ DOMAIN drawn = 1..size
      BY <2>6
    <3> HIDE DEF T, drawn
    <3>2. drawn \in Seq(T)
      BY <1>4, <3>1, SeqDef
    <3>3. Len(drawn) = size
      BY <1>4, <3>1, <3>2, LenProperties
    <3> QED
      BY <1>7, <3>1, <3>3
  <2>10. \A k \in 1..size : /\ drawn[k].x = AcrossX(track, d.key, points[p[k]].t)
                            /\ drawn[k].y = UpY(track, d, p[k])
    <3> TAKE k \in 1..size
    <3>1. p[k] \in DOMAIN points
      BY <1>1, <1>4
    <3>2. drawn[k] = samples[p[k]]
      BY <2>6
    <3>3. samples[p[k]] = [x |-> AcrossX(track, d.key, points[p[k]].t), y |-> UpY(track, d, p[k])]
      BY <3>1 DEF SamplesOf
    <3> HIDE DEF drawn, samples
    <3> QED
      BY <3>2, <3>3
  <2> HIDE DEF drawn, lineOf, owner, lines, chart, charts, samples
  <2>11. /\ \A t \in Int : u <= t /\ t <= v => AcrossX(track, d.key, t) \in [num : Int, den : Int] /\ InBox(AcrossX(track, d.key, t))
         /\ \A i, j \in C : i <= j => AcrossX(track, d.key, points[i].t).num <= AcrossX(track, d.key, points[j].t).num
    BY <1>10, AlongTheChart DEF C
  <2>12. \A j, k \in 1..size : /\ (lineOf(j) = lineOf(k)) <=> (owner(carried[j]) = owner(carried[k]))
                               /\ j < k => drawn[j].x.num <= drawn[k].x.num
    <3> TAKE j, k \in 1..size
    <3>1. lineOf(j) = lineOf(k) <=> owner(p[j]) = owner(p[k])
      <4>1. lineOf(j) = g[j] /\ lineOf(k) = g[k]
        BY <2>7
      <4>2. g[j] = g[k] <=> (\A s : Owned(segments, p[j], s) <=> Owned(segments, p[k], s))
        BY <2>6
      <4>3. (\A s : Owned(segments, p[j], s) <=> s = owner(p[j])) /\ \A s : Owned(segments, p[k], s) <=> s = owner(p[k])
        BY <2>8
      <4> QED
        BY <4>1, <4>2, <4>3
    <3>2. j < k => drawn[j].x.num <= drawn[k].x.num
      <4> SUFFICES ASSUME j < k PROVE drawn[j].x.num <= drawn[k].x.num
        OBVIOUS
      <4>1. p[j] \in C /\ p[k] \in C /\ p[j] <= p[k]
        <5>1. p[j] \in C /\ p[k] \in C /\ p[j] < p[k] /\ p[j] \in 1..n /\ p[k] \in 1..n
          BY <1>4
        <5> QED
          BY <5>1
      <4> QED
        BY <2>10, <2>11, <4>1
    <3> QED
      BY <1>7, <3>1, <3>2
  <2>13. \A k \in 1..size : InBox(drawn[k].x)
    BY <1>4, <2>3, <2>10, <2>11
  <2>14. d.min = Absent /\ d.max = Absent => \A k \in 1..size : InBox(drawn[k].y)
    <3> SUFFICES ASSUME d.min = Absent, d.max = Absent, NEW k \in 1..size
                 PROVE  InBox(drawn[k].y)
      OBVIOUS
    <3>1. Carried(track, d.key) # {} /\ p[k] \in Carried(track, d.key)
      BY <1>4, <1>10 DEF C
    <3>2. InBox(UpY(track, d, p[k]))
      BY <3>1, UpTheChart
    <3> QED
      BY <2>10, <3>2
  <2>15. chart.cursor # Absent => moment \in Int /\ u <= moment /\ moment <= v /\ chart.cursor = AcrossX(track, d.key, moment)
    BY <2>2, <2>3
  <2>16. chart.cursor # Absent => marker # Absent /\ InBox(chart.cursor)
    <3> SUFFICES ASSUME chart.cursor # Absent PROVE marker # Absent /\ InBox(chart.cursor)
      OBVIOUS
    <3>1. moment \in Int /\ u <= moment /\ moment <= v /\ chart.cursor = AcrossX(track, d.key, moment)
      BY <2>15
    <3>2. InBox(chart.cursor)
      BY <2>11, <3>1
    <3>3. points[1].t <= moment /\ moment <= points[n].t
      <4>1. points[1].t \in Int /\ points[n].t \in Int
        BY <1>1, <2>3 DEF Located
      <4> QED
        BY <2>3, <3>1, <4>1
    <3>4. PositionAt(track, moment) \in [num : Int, den : Int]
      BY <2>4, <3>1, <3>3, PlaceIsKnown
    <3>5. moment # Absent /\ PositionAt(track, moment) # Absent
      BY <3>1, <3>4, TrackQueriesAssumption
    <3> QED
      BY <3>2, <3>5 DEF Marker
  <2>17. ASSUME NEW k \in 1..size, points[p[k]].t = moment
         PROVE  chart.cursor # Absent /\ chart.cursor = drawn[k].x
    <3>1. p[k] \in C /\ moment \in Int /\ u <= moment /\ moment <= v
      BY <1>4, <2>3, <2>17
    <3>2. moment # Absent
      BY <3>1, TrackQueriesAssumption
    <3>3. chart.cursor = AcrossX(track, d.key, moment)
      BY <2>2, <2>3, <3>1, <3>2
    <3>4. AcrossX(track, d.key, moment) \in [num : Int, den : Int]
      BY <2>11, <3>1
    <3>5. chart.cursor # Absent
      BY <3>3, <3>4, TrackQueriesAssumption
    <3> QED
      BY <2>10, <2>17, <3>3, <3>5
  <2>18. /\ Len(drawn) = Len(carried)
         /\ \A j, k \in DOMAIN carried :
               /\ (lineOf(j) = lineOf(k)) <=> (owner(carried[j]) = owner(carried[k]))
               /\ j < k => drawn[j].x.num <= drawn[k].x.num
         /\ \A k \in DOMAIN drawn : InBox(drawn[k].x)
         /\ d.min = Absent /\ d.max = Absent => \A k \in DOMAIN drawn : InBox(drawn[k].y)
         /\ chart.cursor # Absent => marker # Absent /\ InBox(chart.cursor)
         /\ \A k \in DOMAIN carried : points[carried[k]].t = moment =>
               chart.cursor # Absent /\ chart.cursor.num * drawn[k].x.den = drawn[k].x.num * chart.cursor.den
    BY <1>7, <2>9, <2>12, <2>13, <2>14, <2>16, <2>17
  <2>19. carried # << >>
    BY <1>8, <1>10
  <2> QED
    BY <2>18, <2>19 DEF ChartIsTheTrip, InBox, carried, places, drawn, chart, charts, lineOf, owner, C
<1> QED
  BY <1>9, <1>10

-----------------------------------------------------------------------------
(* What the run asks of them.                                              *)

(* However a track is cut, its segments are plain, have their own ids and  *)
(* cover it.                                                               *)
CutsWell(segments, n) ==
  /\ segments \in Seq(ToSet(segments)) /\ DOMAIN segments = 1..Len(segments) /\ Len(segments) \in Nat
  /\ \A s \in DOMAIN segments : segments[s].startIndex \in Int /\ segments[s].endIndex \in Int
  /\ PlainSegments(segments) /\ OwnIds(segments)
  /\ \A points : Len(points) = n /\ (points = << >> <=> n = 0) =>
       SegmentRanges(points, segments) /\ SegmentsCoverPoints(points, segments)

LEMMA SequenceOfItsOwn ==
  ASSUME NEW T, NEW s \in Seq(T)
  PROVE  s \in Seq(ToSet(s)) /\ DOMAIN s = 1..Len(s) /\ Len(s) \in Nat
<1>1. Len(s) \in Nat /\ DOMAIN s = 1..Len(s) /\ s \in [1..Len(s) -> T]
  BY LenProperties
<1>2. s \in [1..Len(s) -> ToSet(s)]
  BY <1>1 DEF ToSet
<1> QED
  BY <1>1, <1>2, SeqDef

LEMMA CutsAreWell ==
  ASSUME NEW n \in Nat, NEW cut \in Cuts(n)
  PROVE  CutsWell(CutInto(cut, n), n)
<1> DEFINE k == Len(cut)
           b == <<1>> \o cut \o <<n + 1>>
           segments == CutInto(cut, n)
           W == [id : Int, startIndex : Int, endIndex : Int]
<1>1. cut \in Seq(2..n) /\ k \in Nat /\ DOMAIN cut = 1..k /\ (\A i \in 1..k : cut[i] \in 2..n)
      /\ \A i, j \in 1..k : i < j => cut[i] < cut[j]
  <2>1. cut \in Seq(2..n) /\ \A i, j \in DOMAIN cut : i < j => cut[i] < cut[j]
    BY CutsAreSequences
  <2>2. k \in Nat /\ DOMAIN cut = 1..k /\ cut \in [1..k -> 2..n]
    BY <2>1, LenProperties
  <2> QED
    BY <2>1, <2>2
<1>2. CASE n = 0
  <2>1. segments = << >>
    BY <1>2 DEF CutInto
  <2>2. Len(segments) = 0 /\ DOMAIN segments = {} /\ ToSet(segments) = {} /\ segments \in Seq(ToSet(segments))
    BY <2>1 DEF ToSet
  <2>3. PlainSegments(segments) /\ OwnIds(segments)
    BY <2>2 DEF PlainSegments, OwnIds
  <2>4. \A points : Len(points) = n /\ (points = << >> <=> n = 0) =>
          SegmentRanges(points, segments) /\ SegmentsCoverPoints(points, segments)
    BY <1>2, <2>1, <2>2 DEF SegmentRanges, SegmentsCoverPoints
  <2> HIDE DEF segments
  <2> QED
    BY <2>2, <2>3, <2>4 DEF CutsWell, segments
<1>3. CASE n >= 1
  <2>1. /\ Len(b) = k + 2 /\ b[1] = 1 /\ b[k + 2] = n + 1
        /\ \A i \in 1..(k + 2) : b[i] = IF i = 1 THEN 1 ELSE IF i = k + 2 THEN n + 1 ELSE cut[i - 1]
    <3> DEFINE a == <<1>> \o cut
    <3>1. cut \in Seq(Int) /\ <<1>> \in Seq(Int) /\ <<n + 1>> \in Seq(Int)
      <4>1. 2..n \subseteq Int
        OBVIOUS
      <4>2. cut \in Seq(Int)
        BY <1>1, <4>1, SeqMonotonic
      <4> QED
        BY <4>2
    <3>2. a \in Seq(Int) /\ Len(a) = 1 + k /\ \A i \in 1..(1 + k) : a[i] = IF i <= 1 THEN 1 ELSE cut[i - 1]
      BY <1>1, <3>1, ConcatProperties
    <3> HIDE DEF a
    <3>3. Len(b) = k + 2 /\ \A i \in 1..(k + 2) : b[i] = IF i <= 1 + k THEN a[i] ELSE n + 1
      <4>1. b = a \o <<n + 1>>
        BY DEF a
      <4>2. Len(<<n + 1>>) = 1 /\ <<n + 1>>[1] = n + 1
        OBVIOUS
      <4> HIDE DEF b
      <4> DEFINE z == <<n + 1>>
      <4>3. b = a \o z /\ z \in Seq(Int) /\ Len(z) = 1 /\ z[1] = n + 1
        BY <3>1, <4>1, <4>2
      <4> HIDE DEF z
      <4>4. Len(b) = Len(a) + Len(z) /\ \A i \in 1..(Len(a) + Len(z)) : b[i] = IF i <= Len(a) THEN a[i] ELSE z[i - Len(a)]
        BY <3>2, <4>3, ConcatProperties
      <4> QED
        BY <1>1, <3>2, <4>3, <4>4
    <3> HIDE DEF b
    <3>4. \A i \in 1..(k + 2) : b[i] = IF i = 1 THEN 1 ELSE IF i = k + 2 THEN n + 1 ELSE cut[i - 1]
      BY <1>1, <3>2, <3>3
    <3> QED
      BY <1>1, <3>3, <3>4
  <2> HIDE DEF b
  <2>2. \A i \in 1..(k + 1) : b[i] \in 1..n /\ b[i + 1] \in 1..(n + 1) /\ b[i] < b[i + 1]
    <3> TAKE i \in 1..(k + 1)
    <3> DEFINE j == i + 1
    <3>1. i \in 1..(k + 2) /\ j \in 1..(k + 2) /\ j # 1 /\ i # k + 2
      BY <1>1
    <3>2. b[i] = (IF i = 1 THEN 1 ELSE cut[i - 1]) /\ b[j] = IF j = k + 2 THEN n + 1 ELSE cut[j - 1]
      BY <2>1, <3>1
    <3>3. i # 1 => i - 1 \in 1..k /\ cut[i - 1] \in 2..n
      BY <1>1
    <3>4. j # k + 2 => j - 1 \in 1..k /\ cut[j - 1] \in 2..n
      BY <1>1
    <3>5. i # 1 /\ j # k + 2 => i - 1 \in 1..k /\ j - 1 \in 1..k /\ i - 1 < j - 1 /\ cut[i - 1] < cut[j - 1]
      BY <1>1, SMTT(30)
    <3> QED
      BY <1>3, <3>2, <3>3, <3>4, <3>5
  <2>3. segments = [i \in 1..(k + 1) |-> [id |-> i, startIndex |-> b[i], endIndex |-> b[i + 1] - 1]]
    <3>1. segments = [i \in 1..(Len(b) - 1) |-> [id |-> i, startIndex |-> b[i], endIndex |-> b[i + 1] - 1]]
      <4>1. ~(n = 0)
        BY <1>3
      <4> QED
        BY <4>1, Zenon DEF CutInto, b
    <3>2. Len(b) - 1 = k + 1
      BY <1>1, <2>1
    <3> QED
      BY <3>1, <3>2
  <2>4. k + 1 \in Nat
    BY <1>1
  <2>5. \A i \in 1..(k + 1) : b[i] \in Int /\ b[i + 1] \in Int /\ b[i + 1] - 1 \in Int
    BY <2>2
  <2>6. segments \in [1..(k + 1) -> W]
    BY <2>3, <2>5
  <2> HIDE DEF segments, W
  <2>7. segments \in Seq(W) /\ Len(segments) = k + 1 /\ DOMAIN segments = 1..(k + 1)
    <3>1. segments \in Seq(W)
      BY <2>4, <2>6, SeqDef
    <3> QED
      BY <2>4, <2>6, <3>1, LenProperties
  <2>8. \A i \in 1..(k + 1) : /\ segments[i] = [id |-> i, startIndex |-> b[i], endIndex |-> b[i + 1] - 1]
                              /\ segments[i].id = i /\ segments[i].startIndex = b[i] /\ segments[i].endIndex = b[i + 1] - 1
    BY <2>3
  <2>9. PlainSegments(segments)
    BY <2>7, <2>8 DEF PlainSegments
  <2>10. OwnIds(segments)
    BY <2>7, <2>8 DEF OwnIds
  <2>11. segments \in Seq(ToSet(segments)) /\ DOMAIN segments = 1..Len(segments) /\ Len(segments) \in Nat
    BY <2>7, SequenceOfItsOwn
  <2>12. \A i \in 2..(k + 1) : i - 1 \in 1..(k + 1) /\ segments[i].startIndex = segments[i - 1].endIndex + 1
    <3> TAKE i \in 2..(k + 1)
    <3> DEFINE h == i - 1
    <3>1. h \in 1..(k + 1) /\ i \in 1..(k + 1) /\ h + 1 = i
      BY <1>1
    <3>2. segments[h].endIndex = b[i] - 1 /\ segments[i].startIndex = b[i] /\ b[i] \in Int
      BY <2>5, <2>8, <3>1
    <3> HIDE DEF h
    <3>3. segments[i].startIndex = segments[h].endIndex + 1
      BY <3>2
    <3> QED
      BY <3>1, <3>3 DEF h
  <2>13. ASSUME NEW points, Len(points) = n, points = << >> <=> n = 0
         PROVE  SegmentRanges(points, segments) /\ SegmentsCoverPoints(points, segments)
    <3>1. \A i \in 1..(k + 1) : segments[i].startIndex >= 1 /\ segments[i].endIndex <= n /\ segments[i].startIndex <= segments[i].endIndex
      <4> TAKE i \in 1..(k + 1)
      <4>1. segments[i].startIndex = b[i] /\ segments[i].endIndex = b[i + 1] - 1
        BY <2>8
      <4>2. b[i] \in 1..n /\ b[i + 1] \in 1..(n + 1) /\ b[i] < b[i + 1]
        BY <2>2
      <4> QED
        BY <4>1, <4>2
    <3>2. \A i \in 1..(k + 1) : i > 1 => segments[i].startIndex > segments[i - 1].endIndex
      <4> SUFFICES ASSUME NEW i \in 2..(k + 1) PROVE segments[i].startIndex > segments[i - 1].endIndex
        BY <2>4
      <4> DEFINE h == i - 1
      <4>1. h \in 1..(k + 1) /\ segments[i].startIndex = segments[h].endIndex + 1
        BY <2>12
      <4>2. segments[h].endIndex \in Int
        BY <2>5, <2>8, <4>1
      <4> HIDE DEF h
      <4>3. segments[i].startIndex > segments[h].endIndex
        BY <4>1, <4>2
      <4> QED
        BY <4>3 DEF h
    <3>3. SegmentRanges(points, segments)
      BY <2>7, <2>13, <3>1, <3>2 DEF SegmentRanges
    <3>4. segments # << >> /\ 1 \in 1..(k + 1) /\ k + 1 \in 1..(k + 1)
      BY <1>1, <2>7
    <3>5. segments[1].startIndex = 1 /\ segments[k + 1].endIndex = n
      <4>1. segments[1].startIndex = b[1]
        BY <2>8, <3>4
      <4>2. segments[k + 1].endIndex = b[k + 2] - 1
        <5> DEFINE h == k + 1
        <5>1. h \in 1..(k + 1) /\ h + 1 = k + 2
          BY <1>1
        <5>2. segments[h].endIndex = b[h + 1] - 1
          BY <2>8, <5>1
        <5> QED
          BY <5>1, <5>2
      <4> QED
        BY <2>1, <4>1, <4>2
    <3>6. SegmentsCoverPoints(points, segments)
      BY <2>7, <2>12, <2>13, <3>4, <3>5 DEF SegmentsCoverPoints
    <3> QED
      BY <3>3, <3>6
  <2>14. \A s \in DOMAIN segments : segments[s].startIndex \in Int /\ segments[s].endIndex \in Int
    BY <2>5, <2>7, <2>8, SMTT(30)
  <2> QED
    BY <2>9, <2>10, <2>11, <2>13, <2>14 DEF CutsWell, segments
<1> QED
  BY <1>2, <1>3

LEMMA CutTracksAreLocated ==
  ASSUME NEW n \in Nat, NEW f, \A i \in 1..n : f[i].t \in Int /\ f[i].place \in Int,
         InOneTime([i \in 1..n |-> f[i]]), NEW cut \in Cuts(n),
         NEW track, track.points = [i \in 1..n |-> f[i]], track.segments = CutInto(cut, n)
  PROVE  /\ Located(track) /\ PlainSegments(track.segments) /\ OwnIds(track.segments)
         /\ Len(track.points) = n /\ DOMAIN track.points = 1..n
<1> DEFINE points == [i \in 1..n |-> f[i]]
           T == {f[i] : i \in 1..n}
<1>1. points \in [1..n -> T] /\ DOMAIN points = 1..n /\ \A i \in 1..n : points[i] = f[i]
  OBVIOUS
<1> HIDE DEF points, T
<1>2. points \in Seq(T)
  BY <1>1, SeqDef
<1>3. Len(points) = n /\ points \in Seq(ToSet(points))
  BY <1>1, <1>2, SequenceOfItsOwn, LenProperties
<1>4. points = << >> <=> n = 0
  BY <1>2, <1>3, EmptySeq
<1>5. CutsWell(CutInto(cut, n), n)
  BY CutsAreWell
<1>6. /\ SegmentRanges(points, CutInto(cut, n)) /\ SegmentsCoverPoints(points, CutInto(cut, n))
      /\ PlainSegments(CutInto(cut, n)) /\ OwnIds(CutInto(cut, n)) /\ CutInto(cut, n) \in Seq(ToSet(CutInto(cut, n)))
      /\ \A s \in DOMAIN CutInto(cut, n) : CutInto(cut, n)[s].startIndex \in Int /\ CutInto(cut, n)[s].endIndex \in Int
  BY <1>3, <1>4, <1>5 DEF CutsWell
<1>7. TemporalOrder(points) /\ LapRanges(points, << >>)
  <2>1. InOneTime(points)
    BY DEF points
  <2> QED
    BY <2>1 DEF InOneTime, TemporalOrder, LapRanges
<1>8. ValidTrackGeometry(points, CutInto(cut, n), << >>)
  BY <1>6, <1>7 DEF ValidTrackGeometry
<1>9. track.points = points
  BY DEF points
<1> QED
  BY <1>1, <1>3, <1>6, <1>8, <1>9 DEF Located

(* With the cache of its simplified segments, and without.                 *)
LEMMA PicturesAreCached ==
  ASSUME NEW track, Located(track), OwnIds(track.segments), NEW picture \in Pictures(track)
  PROVE  /\ Located(picture) /\ Cached(picture) /\ OwnIds(picture.segments)
         /\ picture.points = track.points
<1> DEFINE points == track.points
           segments == track.segments
           ends(segment) == IF segment.startIndex = segment.endIndex
                              THEN <<points[segment.startIndex]>>
                              ELSE <<points[segment.startIndex], points[segment.endIndex]>>
           lines == [s \in DOMAIN segments |-> ends(segments[s])]
<1>1. PICK cache \in {Absent, lines} :
        picture = [points |-> points, segments |-> segments, simplified |-> cache]
  BY Zenon DEF Pictures
<1>2. picture.points = points /\ picture.segments = segments /\ picture.simplified = cache
  <2> HIDE DEF lines
  <2> QED
    BY <1>1
<1>3. Located(picture) /\ OwnIds(picture.segments)
  <2>1. Located(picture)
    BY <1>2 DEF Located
  <2> QED
    BY <1>2, <2>1
<1>4. ASSUME picture.simplified # Absent, NEW s \in DOMAIN segments
      PROVE  LineOf(points, segments[s].startIndex, segments[s].endIndex, picture.simplified[s])
  <2> DEFINE line == picture.simplified[s]
             begin == segments[s].startIndex
             end == segments[s].endIndex
  <2>1. line = IF begin = end THEN <<points[begin]>> ELSE <<points[begin], points[end]>>
    <3>1. picture.simplified = lines
      BY <1>1, <1>2, <1>4
    <3> QED
      BY <1>4, <3>1
  <2>2. begin \in Int /\ end \in Int /\ begin <= end
    <3>1. begin \in Int /\ end \in Int
      BY <1>4 DEF Located
    <3>2. s \in 1..Len(segments)
      BY <1>4, LocatedIsParted DEF Parted
    <3>3. SegmentRanges(points, segments)
      BY DEF Located, ValidTrackGeometry
    <3> QED
      BY <3>1, <3>2, <3>3 DEF SegmentRanges
  <2>3. begin \in begin..end /\ end \in begin..end
    BY <2>2
  <2> DEFINE between == {points[i] : i \in begin..end}
  <2>4. points[begin] \in between /\ points[end] \in between
    BY <2>3
  <2> HIDE DEF line, between
  <2>5. /\ Len(line) \in Nat /\ DOMAIN line = 1..Len(line)
        /\ begin = end => Len(line) = 1
        /\ begin # end => Len(line) >= 2
        /\ line[1] = points[begin] /\ line[Len(line)] = points[end]
        /\ \A k \in 1..Len(line) : line[k] \in between
    <3> HIDE DEF begin, end
    <3>1. CASE begin = end
      <4>1. line = <<points[begin]>>
        BY <2>1, <3>1
      <4>2. Len(line) = 1 /\ DOMAIN line = 1..1 /\ line[1] = points[begin]
        BY <4>1
      <4> QED
        BY <2>4, <3>1, <4>2
    <3>2. CASE begin # end
      <4>1. line = <<points[begin], points[end]>>
        BY <2>1, <3>2
      <4>2. Len(line) = 2 /\ DOMAIN line = 1..2 /\ line[1] = points[begin] /\ line[2] = points[end]
        BY <4>1
      <4> QED
        BY <2>4, <3>2, <4>2
    <3> QED
      BY <3>1, <3>2
  <2> QED
    BY <2>5 DEF LineOf, line, between
<1>5. Cached(picture)
  BY <1>2, <1>4 DEF Cached
<1> QED
  BY <1>2, <1>3, <1>5

(* Each question about a track, and what it is answered.                   *)
LEMMA TrackAnswered ==
  ASSUME AskTrack PROVE TrackIsToldTrue'
<1>0. PICK n \in 0..4 : \E t \in [1..n -> 0..2], place \in [1..n -> {0, 3}], cut \in Cuts(n) :
        /\ InOneTime([i \in 1..n |-> [t |-> t[i], place |-> place[i], altitudeM |-> IF i = 2 THEN Absent ELSE i]])
        /\ question' = [about |-> "track",
                        track |-> [points |-> [i \in 1..n |-> [t |-> t[i], place |-> place[i],
                                                               altitudeM |-> IF i = 2 THEN Absent ELSE i]],
                                   segments |-> CutInto(cut, n)]]
  BY DEF AskTrack
<1>1. PICK t \in [1..n -> 0..2], place \in [1..n -> {0, 3}], cut \in Cuts(n) :
        /\ InOneTime([i \in 1..n |-> [t |-> t[i], place |-> place[i], altitudeM |-> IF i = 2 THEN Absent ELSE i]])
        /\ question' = [about |-> "track",
                        track |-> [points |-> [i \in 1..n |-> [t |-> t[i], place |-> place[i],
                                                               altitudeM |-> IF i = 2 THEN Absent ELSE i]],
                                   segments |-> CutInto(cut, n)]]
  BY <1>0
<1> DEFINE f == [i \in 1..n |-> [t |-> t[i], place |-> place[i], altitudeM |-> IF i = 2 THEN Absent ELSE i]]
           points == [i \in 1..n |-> f[i]]
           track == [points |-> points, segments |-> CutInto(cut, n)]
<1>2. points = f
  OBVIOUS
<1>3. InOneTime(points) /\ question' = [about |-> "track", track |-> track]
  <2>1. InOneTime(f) /\ question' = [about |-> "track", track |-> [points |-> f, segments |-> CutInto(cut, n)]]
    BY <1>1
  <2> HIDE DEF f, points
  <2> QED
    BY <1>2, <2>1
<1>4. n \in Nat /\ \A i \in 1..n : f[i].t \in Int /\ f[i].place \in Int
  OBVIOUS
<1>5. track.points = points /\ track.segments = CutInto(cut, n)
  <2> HIDE DEF points
  <2> QED
    OBVIOUS
<1>6. question'.about = "track" /\ question'.track = track
  <2> HIDE DEF track
  <2> QED
    BY <1>3
<1> HIDE DEF f, track
<1>7. /\ Located(track) /\ PlainSegments(track.segments) /\ OwnIds(track.segments)
      /\ Len(track.points) = n /\ DOMAIN track.points = 1..n
  BY <1>3, <1>4, <1>5, CutTracksAreLocated
<1>8. \A u \in (-1)..3 : PositionIsObserved(track, u)
  <2>1. \A u \in (-1)..3 : u \in Int
    OBVIOUS
  <2> QED
    BY <1>7, <2>1, PositionsAreObserved
<1>9. ASSUME NEW i \in 1..n, NEW j \in 1..n, NEW k \in 1..n, i <= j, j <= k
      PROVE  LapsAddUp(track, i, j, k)
  <2>1. i \in 1..Len(track.points) /\ j \in i..Len(track.points) /\ k \in j..Len(track.points)
    BY <1>4, <1>7, <1>9
  <2>2. track.points # << >>
    <3>1. Len(track.points) # 0
      BY <1>4, <1>7
    <3> QED
      BY <3>1
  <2> QED
    BY <1>7, <2>1, <2>2, LapsOfTracksAddUp
<1> DEFINE laps == {[id |-> i, endIndex |-> i] : i \in 1..n}
           elsewhere == [west |-> 9, east |-> 9]
<1>10. IsFiniteSet(laps) /\ \A lap \in laps : lap.endIndex \in 1..n
  <2> DEFINE g == [i \in 1..n |-> [id |-> i, endIndex |-> i]]
  <2>1. g \in Surjection(1..n, laps)
    BY DEF Surjection
  <2>2. IsFiniteSet(1..n)
    BY <1>4, FS_Interval
  <2> HIDE DEF g
  <2>3. IsFiniteSet(laps)
    BY <2>1, <2>2, FS_Surjection
  <2> QED
    BY <2>3
<1>11. ASSUME NEW picture \in Pictures(track)
       PROVE  MapShowsTheTrack(picture, laps, elsewhere)
  <2>1. /\ Located(picture) /\ Cached(picture) /\ OwnIds(picture.segments)
        /\ picture.points = track.points
    BY <1>7, PicturesAreCached
  <2> HIDE DEF laps, elsewhere
  <2> QED
    BY <1>7, <1>10, <2>1, MapsShowTheTrack
<1> QED
  <2>1. n = Len(question'.track.points)
    BY <1>6, <1>7
  <2>2. \A i, j, k \in 1..n : i <= j /\ j <= k => LapsAddUp(track, i, j, k)
    BY <1>9
  <2> QED
    BY <1>6, <1>8, <1>11, <2>1, <2>2 DEF TrackIsToldTrue

LEMMA ChartAnswered ==
  ASSUME AskChart PROVE TrackIsToldTrue'
<1>0. PICK n \in 0..4 : \E t \in [1..n -> 0..2], value \in [1..n -> Values(n)], cut \in Cuts(n) :
        /\ InOneTime([i \in 1..n |-> [t |-> t[i], place |-> i, altitudeM |-> Absent,
                                     channels |-> [k \in {"depth"} |-> value[i]]]])
        /\ question' = [about |-> "chart",
                        track |-> [points |-> [i \in 1..n |-> [t |-> t[i], place |-> i, altitudeM |-> Absent,
                                                               channels |-> [k \in {"depth"} |-> value[i]]]],
                                   segments |-> CutInto(cut, n)]]
  BY DEF AskChart
<1>1. PICK t \in [1..n -> 0..2], value \in [1..n -> Values(n)], cut \in Cuts(n) :
        /\ InOneTime([i \in 1..n |-> [t |-> t[i], place |-> i, altitudeM |-> Absent,
                                     channels |-> [k \in {"depth"} |-> value[i]]]])
        /\ question' = [about |-> "chart",
                        track |-> [points |-> [i \in 1..n |-> [t |-> t[i], place |-> i, altitudeM |-> Absent,
                                                               channels |-> [k \in {"depth"} |-> value[i]]]],
                                   segments |-> CutInto(cut, n)]]
  BY <1>0
<1> DEFINE f == [i \in 1..n |-> [t |-> t[i], place |-> i, altitudeM |-> Absent,
                                 channels |-> [k \in {"depth"} |-> value[i]]]]
           points == [i \in 1..n |-> f[i]]
           track == [points |-> points, segments |-> CutInto(cut, n)]
<1>2. points = f
  OBVIOUS
<1>3. InOneTime(points) /\ question' = [about |-> "chart", track |-> track]
  <2>1. InOneTime(f) /\ question' = [about |-> "chart", track |-> [points |-> f, segments |-> CutInto(cut, n)]]
    BY <1>1
  <2> HIDE DEF f, points
  <2> QED
    BY <1>2, <2>1
<1>4. n \in Nat /\ \A i \in 1..n : f[i].t \in Int /\ f[i].place \in Int
  OBVIOUS
<1>5. track.points = points /\ track.segments = CutInto(cut, n)
  <2> HIDE DEF points
  <2> QED
    OBVIOUS
<1>6. question'.about = "chart" /\ question'.track = track
  <2> HIDE DEF track
  <2> QED
    BY <1>3
<1>7. \A i \in 1..n : points[i].channels["depth"] \in Int \cup {Absent}
  <2> TAKE i \in 1..n
  <2>1. points[i].channels["depth"] = value[i]
    OBVIOUS
  <2>2. value[i] \in Values(n)
    OBVIOUS
  <2> HIDE DEF points
  <2> QED
    BY <2>1, <2>2 DEF Values
<1> HIDE DEF f, track
<1>8. Located(track) /\ DOMAIN track.points = 1..n
  BY <1>3, <1>4, <1>5, CutTracksAreLocated
<1>9. Readable(track, "depth")
  <2> HIDE DEF points
  <2> QED
    BY <1>5, <1>7, <1>8 DEF Readable
<1>10. ASSUME NEW descriptor \in Descriptors, NEW moment \in {Absent} \cup (-1)..3
       PROVE  ChartIsTheTrip(track, descriptor, moment)
  <2>1. descriptor.key = "depth"
    BY DEF Descriptors
  <2>2. moment \in Int \cup {Absent}
    OBVIOUS
  <2> QED
    BY <1>8, <1>9, <2>1, <2>2, ChartsShowTheTrip
<1>11. \A ms \in Durations \cup {-1}, longer \in Durations : DurationReads(ms, longer)
  <2>1. \A ms \in Durations \cup {-1} : ms \in Int
    BY DEF Durations
  <2> QED
    BY <2>1, DurationsRead
<1> QED
  BY <1>6, <1>10, <1>11 DEF TrackIsToldTrue

LEMMA AskedOfOthers ==
  ASSUME AskFixes \/ AskSamples \/ AskChannels \/ AskDraft \/ AskTrip \/ AskDocument \/ AskForm \/ AskRegions
  PROVE  TrackIsToldTrue'
<1>1. question'.about \in {"fixes", "samples", "channels", "draft", "trip", "document", "form", "regions"}
  <2>1. AskFixes => question'.about = "fixes"
    BY DEF AskFixes
  <2>2. AskSamples => question'.about = "samples"
    BY DEF AskSamples
  <2>3. AskTrip => question'.about = "trip"
    BY DEF AskTrip
  <2>4. AskDocument => question'.about = "document"
    BY DEF AskDocument
  <2>5. AskForm => question'.about = "form"
    BY DEF AskForm
  <2>6. AskRegions => question'.about = "regions"
    BY DEF AskRegions
  <2>7. AskChannels => question'.about = "channels"
    BY DEF AskChannels
  <2>8. AskDraft => question'.about = "draft"
    BY DEF AskDraft
  <2> QED
    BY <2>1, <2>2, <2>3, <2>4, <2>5, <2>6, <2>7, <2>8
<1> QED
  BY <1>1 DEF TrackIsToldTrue

(* A track is told true, whatever the run asks of it: where it was, its    *)
(* laps, its lines on the map, its charts and its durations.               *)
THEOREM TracksAreToldTrue == Spec => []TrackIsToldTrue
<1>1. Init => TrackIsToldTrue
  BY DEF Init, NoQuestion, TrackIsToldTrue
<1>2. TrackIsToldTrue /\ [Next]_allVars => TrackIsToldTrue'
  <2> SUFFICES ASSUME TrackIsToldTrue, [Next]_allVars PROVE TrackIsToldTrue'
    OBVIOUS
  <2>1. CASE question' = question
    BY <2>1 DEF TrackIsToldTrue
  <2>2. CASE Ask
    BY <2>2, TrackAnswered, ChartAnswered, AskedOfOthers DEF Ask
  <2>3. Ask \/ question' = question
    BY DEF Next, allVars
  <2> QED
    BY <2>1, <2>2, <2>3
<1> QED
  BY <1>1, <1>2, PTL DEF Spec
=============================================================================
