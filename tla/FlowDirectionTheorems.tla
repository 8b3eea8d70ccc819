----------------------- MODULE FlowDirectionTheorems ------------------------
(***************************************************************************)
(* Facts about the operators of FlowDirection, for every segment map and   *)
(* every value of the limits.  They are used by the proofs about the       *)
(* one-direction machine and about the whole engine.                       *)
(***************************************************************************)
EXTENDS FlowDirection, FiniteSetTheorems, TLAPS

\* A well-formed segment map: finitely many non-empty segments.
SegMap(segs) ==
    /\ segs = [s \in DOMAIN segs |-> segs[s]]
    /\ IsFiniteSet(DOMAIN segs)
    /\ DOMAIN segs \subseteq Nat
    /\ \A s \in DOMAIN segs : segs[s] \in Seq(Byte) \ {<<>>}

Disjoint(segs) ==
    \A s, t \in DOMAIN segs : s < t => SegEnd(segs, s) <= t

-----------------------------------------------------------------------------
(* Least and greatest elements                                             *)

\* A non-empty set of naturals has a least element.
LEMMA NatMin ==
    ASSUME NEW T \in SUBSET Nat, T # {}
    PROVE  \E x \in T : \A y \in T : x <= y
<1>1. \E x \in T : \A y \in T : ~ (<<y, x>> \in OpToRel(<, Nat))
  BY NatLessThanWellFounded, WFMin, Zenon
<1>2. PICK x \in T : \A y \in T : ~ (<<y, x>> \in OpToRel(<, Nat))
  BY <1>1, Zenon
<1>3. ASSUME NEW y \in T PROVE x <= y
  <2>1. ~ (<<y, x>> \in OpToRel(<, Nat))
    BY <1>2, Zenon
  <2>2. ~ (y < x)
    BY <2>1 DEF OpToRel
  <2> QED BY <2>2
<1> QED BY <1>3

\* A non-empty set of integers with an upper bound has a greatest element.
LEMMA IntMax ==
    ASSUME NEW S \in SUBSET Int, S # {}, NEW b \in Int, \A x \in S : x <= b
    PROVE  \E x \in S : \A y \in S : y <= x
<1> DEFINE T == {b - x : x \in S}
<1>1. T \in SUBSET Nat /\ T # {}
  <2>1. ASSUME NEW x \in S PROVE b - x \in Nat
    BY x \in Int, x <= b
  <2>2. T \subseteq Nat
    BY <2>1
  <2>3. PICK x \in S : TRUE
    BY Zenon
  <2>4. b - x \in T
    BY <2>3
  <2> QED BY <2>2, <2>4
<1>2. PICK t \in T : \A u \in T : t <= u
  BY <1>1, NatMin, Zenon
<1>3. PICK x \in S : t = b - x
  OBVIOUS
<1>4. ASSUME NEW y \in S PROVE y <= x
  <2>1. t <= b - y
    BY <1>2
  <2> QED BY <2>1, <1>3
<1> QED BY <1>4

\* RunEnd finds the first position from p on that is not in S.
LEMMA RunEndProperties ==
    ASSUME NEW S, IsFiniteSet(S), NEW p \in Int
    PROVE  /\ RunEnd(S, p) \in Int
           /\ RunEnd(S, p) >= p
           /\ RunEnd(S, p) \notin S
           /\ p .. (RunEnd(S, p) - 1) \subseteq S
<1> DEFINE n == Cardinality(S)
           T == {i \in Nat : p + i \notin S}
<1>1. n \in Nat
  BY FS_CardinalityType
<1>2. \E i \in T : i <= n
  <2>1. SUFFICES ASSUME p .. (p + n) \subseteq S PROVE FALSE
    <3>1. PICK q \in p .. (p + n) : q \notin S
      BY <2>1
    <3>2. q - p \in T /\ q - p <= n
      BY <3>1, <1>1
    <3> QED BY <3>2
  <2>2. Cardinality(p .. (p + n)) = n + 1
    BY <1>1, FS_Interval
  <2>3. Cardinality(p .. (p + n)) <= n
    BY <2>1, FS_Subset, Zenon
  <2> QED BY <1>1, <2>2, <2>3
<1>3. PICK i \in T : \A j \in T : i <= j
  BY <1>2, NatMin, Zenon
<1>4. i <= n
  BY <1>1, <1>2, <1>3
<1>5. /\ p + i \in p .. (p + n)
      /\ p + i \notin S
  BY <1>1, <1>4
<1>6. p .. ((p + i) - 1) \subseteq S
  <2>1. SUFFICES ASSUME NEW r \in p .. ((p + i) - 1), r \notin S PROVE FALSE
    OBVIOUS
  <2>2. r - p \in T /\ r - p < i
    BY <2>1
  <2> QED BY <2>2, <1>3
<1>7. RunEnd(S, p) \in p .. (p + n) /\ RunEnd(S, p) \notin S
      /\ p .. (RunEnd(S, p) - 1) \subseteq S
  BY <1>5, <1>6 DEF RunEnd
<1> QED BY <1>7, <1>1

-----------------------------------------------------------------------------
(* Segment maps                                                            *)

\* The end of a segment lies past its start.
LEMMA SegEndProperties ==
    ASSUME NEW segs, SegMap(segs), NEW s \in DOMAIN segs
    PROVE  /\ s \in Nat
           /\ SegEnd(segs, s) \in Nat
           /\ SegEnd(segs, s) = s + Len(segs[s])
           /\ SegEnd(segs, s) > s
           /\ Len(segs[s]) \in Nat
<1>1. s \in Nat /\ segs[s] \in Seq(Byte) /\ segs[s] # <<>>
  BY DEF SegMap
<1>2. Len(segs[s]) \in Nat /\ Len(segs[s]) > 0
  BY <1>1
<1> QED BY <1>1, <1>2 DEF SegEnd

\* Any choice of segments covers a finite set of naturals.
LEMMA PositionsFinite ==
    ASSUME NEW segs, SegMap(segs), NEW starts \in SUBSET DOMAIN segs
    PROVE  /\ IsFiniteSet(Positions(segs, starts))
           /\ Positions(segs, starts) \subseteq Nat
<1> DEFINE spans == {Span(segs, s) : s \in starts}
<1>1. IsFiniteSet(starts)
  BY FS_Subset DEF SegMap
<1>2. IsFiniteSet(spans)
  <2> DEFINE f == [s \in starts |-> Span(segs, s)]
  <2>1. f \in Surjection(starts, spans)
    BY DEF Surjection
  <2> QED BY <1>1, <2>1, FS_Surjection
<1>3. \A T \in spans : IsFiniteSet(T) /\ T \subseteq Nat
  <2>1. SUFFICES ASSUME NEW s \in starts
                 PROVE  IsFiniteSet(Span(segs, s)) /\ Span(segs, s) \subseteq Nat
    OBVIOUS
  <2>2. s \in Nat /\ SegEnd(segs, s) \in Nat
    BY SegEndProperties
  <2>3. IsFiniteSet(s .. (SegEnd(segs, s) - 1))
    BY <2>2, FS_Interval
  <2>4. s .. (SegEnd(segs, s) - 1) \subseteq Nat
    BY <2>2
  <2> QED BY <2>3, <2>4 DEF Span
<1>4. IsFiniteSet(UNION spans)
  BY <1>2, <1>3, FS_UNION
<1> QED BY <1>3, <1>4 DEF Positions

\* Two segments of a disjoint map that share a position are the same segment.
LEMMA DisjointSpans ==
    ASSUME NEW segs, SegMap(segs), Disjoint(segs),
           NEW s \in DOMAIN segs, NEW t \in DOMAIN segs,
           NEW p \in Span(segs, s), p \in Span(segs, t)
    PROVE  s = t
<1>1. /\ s \in Nat /\ t \in Nat
      /\ SegEnd(segs, s) \in Nat /\ SegEnd(segs, t) \in Nat
  BY SegEndProperties
<1>2. p \in Int /\ s <= p /\ p < SegEnd(segs, s) /\ t <= p /\ p < SegEnd(segs, t)
  BY <1>1 DEF Span
<1>3. (s < t => SegEnd(segs, s) <= t) /\ (t < s => SegEnd(segs, t) <= s)
  BY DEF Disjoint
<1> QED BY <1>1, <1>2, <1>3

\* ByteAt reads the one segment that holds the position.
LEMMA ByteAtSegment ==
    ASSUME NEW segs, SegMap(segs), Disjoint(segs),
           NEW s \in DOMAIN segs, NEW p \in Span(segs, s)
    PROVE  /\ ByteAt(segs, p) = segs[s][p - s + 1]
           /\ ByteAt(segs, p) \in Byte
<1> DEFINE t == CHOOSE t \in DOMAIN segs : p \in Span(segs, t)
<1>1. t \in DOMAIN segs /\ p \in Span(segs, t)
  OBVIOUS
<1>2. t = s
  BY <1>1, DisjointSpans
<1>3. ByteAt(segs, p) = segs[s][p - s + 1]
  BY <1>2, Zenon DEF ByteAt
<1>4. s \in Nat /\ Len(segs[s]) \in Nat /\ SegEnd(segs, s) = s + Len(segs[s])
  BY SegEndProperties
<1>5. p - s + 1 \in 1 .. Len(segs[s])
  BY <1>4 DEF Span
<1>6. segs[s] \in Seq(Byte)
  BY DEF SegMap
<1> QED BY <1>3, <1>5, <1>6

\* A position is covered exactly when some segment holds it.
LEMMA CoveredBySegment ==
    ASSUME NEW segs, NEW p
    PROVE  p \in Covered(segs) <=> \E s \in DOMAIN segs : p \in Span(segs, s)
BY DEF Covered, Positions

-----------------------------------------------------------------------------
(* Filling gaps: the heart of the first-wins policy                        *)

\* What filling some of the gaps does to a map: buffered segments keep their
\* bytes, the map stays disjoint, and exactly the positions of the filled gaps
\* are added.
FillsOnlyGaps(segs, new, free, filled) ==
    /\ SegMap(new)
    /\ Disjoint(new)
    /\ DOMAIN new = DOMAIN segs \cup filled
    /\ \A s \in DOMAIN segs : new[s] = segs[s]
    /\ Covered(new) = Covered(segs) \cup Filled(free, filled)
    /\ Filled(free, filled) \subseteq free

\* What new has beyond segs are bytes of data.
Brings(segs, new, data) ==
    \A s \in DOMAIN new \ DOMAIN segs : \A i \in DOMAIN new[s] :
        \E j \in DOMAIN data : new[s][i] = data[j]

\* The gap loop of insert_segment, whichever gaps it gets to fill.
LEMMA FillGapsProperties ==
    ASSUME NEW segs, SegMap(segs), Disjoint(segs),
           NEW new_start \in Nat, NEW data \in Seq(Byte),
           NEW free, free = Free(segs, new_start, Len(data)),
           NEW filled, filled \subseteq GapStarts(free),
           NEW new, new = FillGaps(segs, free, filled, new_start, data)
    PROVE  FillsOnlyGaps(segs, new, free, filled) /\ Brings(segs, new, data)
<1> DEFINE span == new_start .. (new_start + Len(data) - 1)
<1>0. Len(data) \in Nat
  OBVIOUS
<1>1. free \subseteq span /\ \A p \in free : p \notin Covered(segs)
  BY DEF Free
<1>2. IsFiniteSet(free)
  <2>1. IsFiniteSet(span)
    BY <1>0, FS_Interval
  <2> QED BY <1>1, <2>1, FS_Subset
<1>3. ASSUME NEW p \in filled
      PROVE  /\ p \in Nat /\ p \in free /\ p - 1 \notin free
             /\ RunEnd(free, p) \in Nat
             /\ RunEnd(free, p) > p
             /\ RunEnd(free, p) <= new_start + Len(data)
             /\ p .. (RunEnd(free, p) - 1) \subseteq free
  <2>1. p \in free /\ p - 1 \notin free
    BY DEF GapStarts
  <2>2. p \in Nat /\ p >= new_start /\ p < new_start + Len(data)
    BY <1>0, <1>1, <2>1
  <2>3. /\ RunEnd(free, p) \in Int /\ RunEnd(free, p) >= p
        /\ RunEnd(free, p) \notin free
        /\ p .. (RunEnd(free, p) - 1) \subseteq free
    BY <1>2, <2>2, RunEndProperties
  <2>4. RunEnd(free, p) > p
    BY <2>1, <2>2, <2>3
  <2>5. RunEnd(free, p) - 1 \in free
    BY <2>2, <2>3, <2>4
  <2>6. RunEnd(free, p) - 1 < new_start + Len(data)
    BY <1>0, <1>1, <2>5
  <2> QED BY <1>0, <2>1, <2>2, <2>3, <2>4, <2>6
<1>4. DOMAIN new = DOMAIN segs \cup filled
  BY DEF FillGaps
<1>5. ASSUME NEW s \in DOMAIN segs PROVE s \in Covered(segs) /\ s \notin filled
  <2>1. s \in Nat /\ SegEnd(segs, s) \in Nat /\ SegEnd(segs, s) > s
    BY SegEndProperties
  <2>2. s \in Span(segs, s)
    BY <2>1 DEF Span
  <2> QED BY <1>1, <1>3, <2>2, CoveredBySegment
<1>6. ASSUME NEW s \in DOMAIN segs
      PROVE  /\ new[s] = segs[s]
             /\ SegEnd(new, s) = SegEnd(segs, s)
             /\ Span(new, s) = Span(segs, s)
  BY <1>4, <1>5 DEF FillGaps, SegEnd, Span
<1>7. ASSUME NEW p \in filled
      PROVE  /\ new[p] \in Seq(Byte)
             /\ Len(new[p]) = RunEnd(free, p) - p
             /\ SegEnd(new, p) = RunEnd(free, p)
             /\ Span(new, p) = p .. (RunEnd(free, p) - 1)
             /\ \A i \in 1 .. Len(new[p]) : new[p][i] = data[p - new_start + i]
  <2>1. /\ p \in Nat /\ RunEnd(free, p) \in Nat /\ RunEnd(free, p) > p
        /\ RunEnd(free, p) <= new_start + Len(data) /\ p >= new_start
    BY <1>0, <1>1, <1>3
  <2>2. new[p] = SubSeq(data, p - new_start + 1, RunEnd(free, p) - new_start)
    BY <1>4, Zenon DEF FillGaps
  <2>3. new[p] \in Seq(Byte) /\ Len(new[p]) = RunEnd(free, p) - p
    BY <1>0, <2>1, <2>2
  <2>4. \A i \in 1 .. Len(new[p]) : new[p][i] = data[p - new_start + i]
    BY <1>0, <2>1, <2>2, <2>3
  <2>5. SegEnd(new, p) = RunEnd(free, p)
    BY <2>1, <2>3 DEF SegEnd
  <2>6. Span(new, p) = p .. (RunEnd(free, p) - 1)
    BY <2>5 DEF Span
  <2> QED BY <2>3, <2>4, <2>5, <2>6
<1>8. SegMap(new)
  <2>1. new = [s \in DOMAIN new |-> new[s]]
    BY <1>4 DEF FillGaps
  <2>2. IsFiniteSet(filled)
    BY <1>2, <1>3, FS_Subset
  <2>3. IsFiniteSet(DOMAIN new)
    <3>1. IsFiniteSet(DOMAIN segs)
      BY DEF SegMap
    <3>2. IsFiniteSet(DOMAIN segs \cup filled)
      BY <3>1, <2>2, FS_Union, Zenon
    <3> QED BY <3>2, <1>4
  <2>4. DOMAIN new \subseteq Nat
    BY <1>3, <1>4 DEF SegMap
  <2>5. ASSUME NEW s \in DOMAIN new PROVE new[s] \in Seq(Byte) \ {<<>>}
    <3>1. CASE s \in DOMAIN segs
      BY <3>1, <1>6 DEF SegMap
    <3>2. CASE s \in filled
      <4>1. new[s] \in Seq(Byte) /\ Len(new[s]) > 0
        BY <3>2, <1>3, <1>7
      <4> QED BY <4>1
    <3> QED BY <3>1, <3>2, <1>4
  <2> QED BY <2>1, <2>3, <2>4, <2>5 DEF SegMap
<1>9. Disjoint(new)
  <2>1. SUFFICES ASSUME NEW s \in DOMAIN new, NEW t \in DOMAIN new, s < t,
                        ~ (SegEnd(new, s) <= t)
                 PROVE  FALSE
    BY DEF Disjoint
  <2>2. s \in Nat /\ t \in Nat /\ SegEnd(new, s) \in Nat
    BY <1>8, SegEndProperties
  <2>3. t \in Span(new, s) /\ t - 1 \in Span(new, s)
    BY <2>1, <2>2 DEF Span
  <2>4. CASE s \in DOMAIN segs /\ t \in DOMAIN segs
    BY <2>1, <2>2, <2>4, <1>6 DEF Disjoint
  <2>5. CASE s \in DOMAIN segs /\ t \in filled
    BY <2>3, <2>5, <1>1, <1>3, <1>6, CoveredBySegment
  <2>6. CASE s \in filled /\ t \in DOMAIN segs
    <3>1. t \in free
      <4>1. Span(new, s) = s .. (RunEnd(free, s) - 1)
        BY <2>6, <1>7
      <4>2. s .. (RunEnd(free, s) - 1) \subseteq free
        BY <2>6, <1>3
      <4> QED BY <2>3, <4>1, <4>2
    <3>2. t \in Covered(segs)
      BY <2>6, <1>5
    <3> QED BY <3>1, <3>2, <1>1
  <2>7. CASE s \in filled /\ t \in filled
    <3>1. t - 1 \in free
      <4>1. Span(new, s) = s .. (RunEnd(free, s) - 1)
        BY <2>7, <1>7
      <4>2. s .. (RunEnd(free, s) - 1) \subseteq free
        BY <2>7, <1>3
      <4> QED BY <2>3, <4>1, <4>2
    <3>2. t - 1 \notin free
      BY <2>7, <1>3
    <3> QED BY <3>1, <3>2
  <2> QED BY <2>4, <2>5, <2>6, <2>7, <1>4
<1>10. Covered(new) = Covered(segs) \cup Filled(free, filled)
  <2>1. ASSUME NEW p
        PROVE  p \in Covered(new) <=> p \in Covered(segs) \/ p \in Filled(free, filled)
    <3>1. p \in Covered(new) <=> \E s \in DOMAIN new : p \in Span(new, s)
      BY CoveredBySegment
    <3>2. p \in Covered(segs) <=> \E s \in DOMAIN segs : p \in Span(new, s)
      BY CoveredBySegment, <1>6
    <3>3. p \in Filled(free, filled) <=> \E s \in filled : p \in Span(new, s)
      BY <1>7, Zenon DEF Filled
    <3> QED BY <3>1, <3>2, <3>3, <1>4
  <2> QED BY <2>1
<1>11. Filled(free, filled) \subseteq free
  BY <1>3 DEF Filled
<1>12. Brings(segs, new, data)
  <2> SUFFICES ASSUME NEW s \in filled, NEW i \in DOMAIN new[s]
               PROVE  \E j \in DOMAIN data : new[s][i] = data[j]
    BY <1>4 DEF Brings
  <2>1. /\ s \in Nat /\ s >= new_start /\ RunEnd(free, s) \in Nat
        /\ RunEnd(free, s) <= new_start + Len(data)
    BY <1>0, <1>1, <1>3
  <2>2. /\ new[s] \in Seq(Byte) /\ Len(new[s]) = RunEnd(free, s) - s
        /\ \A n \in 1 .. Len(new[s]) : new[s][n] = data[s - new_start + n]
    BY <1>7
  <2>3. i \in 1 .. Len(new[s])
    BY <2>2
  <2>4. s - new_start + i \in 1 .. Len(data) /\ DOMAIN data = 1 .. Len(data)
    BY <1>0, <2>1, <2>2, <2>3
  <2> QED BY <2>2, <2>3, <2>4
<1> QED BY <1>4, <1>6, <1>8, <1>9, <1>10, <1>11, <1>12 DEF FillsOnlyGaps

\* The loop fills gaps in ascending order and stops when the map is full, so
\* the map never exceeds max_segments_per_direction.
LEMMA FilledGapsBounded ==
    ASSUME NEW segs, SegMap(segs), Cardinality(DOMAIN segs) <= MaxSegments,
           NEW a \in Int, NEW b \in Int, NEW free \in SUBSET (a .. b),
           NEW filled, filled = FilledGaps(segs, free)
    PROVE  /\ filled \in SUBSET GapStarts(free)
           /\ Cardinality(DOMAIN segs \cup filled) <= MaxSegments
<1> DEFINE n == Cardinality(DOMAIN segs)
           before(p) == {q \in GapStarts(free) : q < p}
<1>1. filled \in SUBSET GapStarts(free) /\ GapStarts(free) \in SUBSET (a .. b)
  BY Zenon DEF FilledGaps, GapStarts
<1>2. IsFiniteSet(DOMAIN segs)
  BY DEF SegMap
<1>3. IsFiniteSet(a .. b)
  BY FS_Interval
<1>4. IsFiniteSet(GapStarts(free)) /\ IsFiniteSet(filled)
  BY <1>1, <1>3, FS_Subset
<1>5. n \in Nat /\ MaxSegments \in Nat /\ Cardinality(filled) \in Nat
  BY <1>2, <1>4, FS_CardinalityType, DirectionConstants
<1>6. CASE filled = {}
  <2>1. DOMAIN segs \cup filled = DOMAIN segs
    BY <1>6
  <2> QED BY <1>1, <2>1
<1>7. CASE filled # {}
  <2>1. PICK m \in filled : \A p \in filled : p <= m
    <3>1. filled \in SUBSET Int /\ \A p \in filled : p <= b
      BY <1>1
    <3> QED BY <1>7, <3>1, IntMax, Zenon
  <2>2. before(m) \in SUBSET GapStarts(free) /\ filled \ {m} \in SUBSET before(m)
    BY <1>1, <2>1
  <2>3. IsFiniteSet(before(m)) /\ Cardinality(before(m)) \in Nat
    BY <1>4, <2>2, FS_Subset, FS_CardinalityType
  <2>4. Cardinality(filled \ {m}) <= Cardinality(before(m))
    BY <2>2, <2>3, FS_Subset
  <2>5. Cardinality(filled \ {m}) = Cardinality(filled) - 1
    BY <1>4, FS_RemoveElement, Zenon
  <2>6. n + Cardinality(before(m)) < MaxSegments
    BY DEF FilledGaps
  <2>7. n + Cardinality(filled) <= MaxSegments
    BY <1>5, <2>3, <2>4, <2>5, <2>6
  <2>8. /\ Cardinality(DOMAIN segs \cup filled)
             = n + Cardinality(filled) - Cardinality(DOMAIN segs \cap filled)
        /\ Cardinality(DOMAIN segs \cap filled) \in Nat
    BY <1>2, <1>4, FS_Union, FS_Intersection, FS_CardinalityType, Zenon
  <2> QED BY <1>1, <1>5, <2>7, <2>8
<1> QED BY <1>6, <1>7

-----------------------------------------------------------------------------
(* Directions                                                              *)

SegmentMaps == UNION {[S -> Seq(Byte)] : S \in SUBSET Nat}

DirectionType ==
    [ isn : SeqNum \cup {NoIsn},
      base_offset : Nat,
      segments : SegmentMaps,
      buffered_bytes : Nat,
      reassembled_bytes : Nat,
      overlap_count : 0 .. CountMax,
      overlap_alert_fired : BOOLEAN,
      small_segment_run : 0 .. CountMax,
      small_segment_alert_fired : BOOLEAN,
      out_of_window_count : 0 .. CountMax,
      out_of_window_alert_fired : BOOLEAN,
      depth_exceeded : BOOLEAN ]

\* The resource half of the invariant: the map is disjoint, buffered_bytes is
\* its size in bytes, and both limits hold.
BufferInv(d) ==
    /\ SegMap(d.segments)
    /\ Disjoint(d.segments)
    /\ d.buffered_bytes = Cardinality(Covered(d.segments))
    /\ d.reassembled_bytes + d.buffered_bytes <= MaxDepth
    /\ Cardinality(DOMAIN d.segments) <= MaxSegments

\* The cursor half: base_offset is one past the last byte delivered.
CursorInv(d) ==
    /\ d.isn = NoIsn => /\ d.base_offset = 0
                        /\ d.reassembled_bytes = 0
                        /\ DOMAIN d.segments = {}
    /\ d.isn # NoIsn => d.base_offset = d.reassembled_bytes + 1

DirectionInv(d) == d \in DirectionType /\ BufferInv(d) /\ CursorInv(d)

\* A well-formed segment map is a function of the type SegmentMaps.
LEMMA SegMapInSegmentMaps ==
    ASSUME NEW segs, SegMap(segs)
    PROVE  segs \in SegmentMaps
<1>1. segs \in [DOMAIN segs -> Seq(Byte)]
  BY DEF SegMap
<1> QED BY <1>1 DEF SegMap, SegmentMaps

\* A saturating counter stays within CountMax.
LEMMA SaturatedType ==
    ASSUME NEW n \in 0 .. CountMax
    PROVE  Saturated(n) \in 0 .. CountMax
BY DirectionConstants DEF Saturated

\* Sequence arithmetic stays in the sequence space.
LEMMA SeqOffsetType ==
    ASSUME NEW seq \in Int, NEW isn \in Int
    PROVE  SeqOffset(seq, isn) \in SeqNum /\ SeqOffset(seq, isn) \in Nat
BY DirectionConstants DEF SeqOffset, SeqNum

\* FlowDirection::new yields a direction that satisfies the invariant.
LEMMA NewDirectionInv == DirectionInv(NewDirection)
<1> DEFINE d == NewDirection
<1>1. SegMap(d.segments) /\ DOMAIN d.segments = {}
  BY FS_EmptySet DEF SegMap, NewDirection
<1>2. d \in DirectionType
  <2>1. 0 \in 0 .. CountMax /\ 0 \in Nat
    BY DirectionConstants
  <2>2. [s \in {} |-> <<>>] \in SegmentMaps
    BY <1>1, SegMapInSegmentMaps DEF NewDirection
  <2> QED BY <2>1, <2>2, Zenon DEF NewDirection, DirectionType
<1>3. Covered(d.segments) = {}
  BY <1>1 DEF Covered, Positions
<1>4. BufferInv(d)
  BY <1>1, <1>3, FS_EmptySet, DirectionConstants DEF BufferInv, Disjoint, NewDirection
<1>5. CursorInv(d)
  BY <1>1 DEF CursorInv, NewDirection
<1> QED BY <1>2, <1>4, <1>5 DEF DirectionInv

\* set_isn preserves the invariant, whether or not an ISN is known.
LEMMA SetIsnInv ==
    ASSUME NEW d, DirectionInv(d), NEW isn \in SeqNum
    PROVE  /\ DirectionInv(SetIsn(d, isn))
           /\ SetIsn(d, isn).isn # NoIsn
           /\ SetIsn(d, isn).segments = d.segments
           /\ SetIsn(d, isn).reassembled_bytes = d.reassembled_bytes
<1> DEFINE e == [d EXCEPT !.isn = isn, !.base_offset = 1]
<1>0. d \in DirectionType /\ BufferInv(d) /\ CursorInv(d)
  BY DEF DirectionInv
<1>1. isn # NoIsn
  BY DirectionConstants DEF SeqNum, NoIsn
<1>2. CASE d.isn # NoIsn
  BY <1>2 DEF SetIsn
<1>3. CASE d.isn = NoIsn
  <2>1. e \in DirectionType
    <3>1. 1 \in Nat
      OBVIOUS
    <3> QED BY <1>0, <3>1, Zenon DEF DirectionType
  <2>2. /\ e.isn = isn /\ e.base_offset = 1 /\ e.segments = d.segments
        /\ e.buffered_bytes = d.buffered_bytes
        /\ e.reassembled_bytes = d.reassembled_bytes
    BY <1>0 DEF DirectionType
  <2>3. BufferInv(e)
    BY <1>0, <2>2 DEF BufferInv
  <2>4. CursorInv(e)
    BY <1>0, <1>1, <1>3, <2>2 DEF CursorInv
  <2>5. SetIsn(d, isn) = e
    BY <1>3 DEF SetIsn
  <2> QED BY <1>1, <2>1, <2>2, <2>3, <2>4, <2>5 DEF DirectionInv
<1> QED BY <1>2, <1>3

\* What the insertion of an admitted segment leaves true, and that it replaces
\* no buffered byte.
LEMMA StoreSegmentInv ==
    ASSUME NEW d, DirectionInv(d), d.isn # NoIsn,
           NEW new_start \in Nat, NEW data \in Seq(Byte),
           d.reassembled_bytes + d.buffered_bytes < MaxDepth,
           NEW e, e = StoreSegment(d, new_start, data).dir
    PROVE  /\ DirectionInv(e)
           /\ e.isn = d.isn
           /\ e.base_offset = d.base_offset
           /\ e.reassembled_bytes = d.reassembled_bytes
           /\ \A s \in DOMAIN d.segments :
                 s \in DOMAIN e.segments /\ e.segments[s] = d.segments[s]
           /\ Brings(d.segments, e.segments, data)
<1> DEFINE segs == d.segments
           kept == Kept(d, data)
           free == Free(segs, new_start, Len(kept))
           filled == FilledGaps(segs, free)
           new == FillGaps(segs, free, filled, new_start, kept)
           room == MaxDepth - (d.reassembled_bytes + d.buffered_bytes)
<1>0. d \in DirectionType /\ BufferInv(d) /\ CursorInv(d)
  BY DEF DirectionInv
<1>1. /\ SegMap(segs) /\ Disjoint(segs)
      /\ Cardinality(DOMAIN segs) <= MaxSegments
      /\ d.buffered_bytes = Cardinality(Covered(segs))
  BY <1>0 DEF BufferInv
<1>2. d.reassembled_bytes \in Nat /\ d.buffered_bytes \in Nat /\ MaxDepth \in Nat
  BY <1>0, DirectionConstants DEF DirectionType
<1>3. kept \in Seq(Byte) /\ Len(kept) \in Nat /\ Len(kept) <= room
  BY <1>2 DEF Kept
<1>4. free \in SUBSET (new_start .. (new_start + Len(kept) - 1))
  BY DEF Free
<1>5. /\ filled \in SUBSET GapStarts(free)
      /\ Cardinality(DOMAIN segs \cup filled) <= MaxSegments
  <2>1. new_start \in Int /\ new_start + Len(kept) - 1 \in Int
    BY <1>3
  <2> HIDE DEF filled, free, kept
  <2> QED BY <1>1, <1>4, <2>1, FilledGapsBounded, Zenon DEF filled
<1>6. /\ SegMap(new) /\ Disjoint(new)
      /\ DOMAIN new = DOMAIN segs \cup filled
      /\ \A s \in DOMAIN segs : new[s] = segs[s]
      /\ Covered(new) = Covered(segs) \cup Filled(free, filled)
      /\ Filled(free, filled) \subseteq free
      /\ Brings(segs, new, kept)
  <2>1. free = Free(segs, new_start, Len(kept))
    OBVIOUS
  <2>2. new = FillGaps(segs, free, filled, new_start, kept)
    OBVIOUS
  <2>3. filled \subseteq GapStarts(free)
    BY <1>5
  <2> HIDE DEF new, free, filled, kept, segs
  <2>4. FillsOnlyGaps(segs, new, free, filled) /\ Brings(segs, new, kept)
    BY <1>1, <1>3, <2>1, <2>2, <2>3, FillGapsProperties
  <2> QED BY <2>4 DEF FillsOnlyGaps
<1>7. /\ IsFiniteSet(Filled(free, filled))
      /\ Cardinality(Filled(free, filled)) \in Nat
      /\ Cardinality(Filled(free, filled)) <= room
      /\ Cardinality(Covered(new))
            = d.buffered_bytes + Cardinality(Filled(free, filled))
  <2> DEFINE span == new_start .. (new_start + Len(kept) - 1)
             fl == Filled(free, filled)
  <2>1. IsFiniteSet(span) /\ Cardinality(span) = Len(kept)
    <3>1. /\ IsFiniteSet(span)
          /\ Cardinality(span) = IF new_start > new_start + Len(kept) - 1 THEN 0
                                 ELSE (new_start + Len(kept) - 1) - new_start + 1
      <4>1. new_start \in Int /\ new_start + Len(kept) - 1 \in Int
        BY <1>3
      <4> HIDE DEF kept
      <4> QED BY <4>1, FS_Interval
    <3> HIDE DEF span, kept
    <3> QED BY <1>3, <3>1
  <2>2. fl \in SUBSET span
    BY <1>4, <1>6
  <2>3. IsFiniteSet(fl) /\ Cardinality(fl) <= Len(kept)
    <3> HIDE DEF span, fl, kept
    <3> QED BY <2>1, <2>2, FS_Subset
  <2>4. Cardinality(fl) \in Nat
    BY <2>3, FS_CardinalityType
  <2>5. IsFiniteSet(Covered(segs))
    BY <1>1, PositionsFinite DEF Covered
  <2>6. Covered(segs) \cap fl = {}
    BY <1>6, Zenon DEF Free
  <2>7. Cardinality(Covered(segs) \cup fl)
          = Cardinality(Covered(segs)) + Cardinality(fl) - 0
    <3> HIDE DEF fl, segs
    <3> QED BY <2>3, <2>5, <2>6, FS_Union, FS_EmptySet
  <2> HIDE DEF kept, free, filled, new
  <2> QED BY <1>1, <1>2, <1>3, <1>6, <2>3, <2>4, <2>7
<1>8. PICK oc, de :
        /\ oc \in 0 .. CountMax /\ de \in BOOLEAN
        /\ e = [d EXCEPT !.segments = new,
                         !.buffered_bytes = @ + Cardinality(Filled(free, filled)),
                         !.overlap_count = oc,
                         !.depth_exceeded = de]
  <2> DEFINE overlapped == \E s \in DOMAIN segs :
                              Overlaps(segs, s, new_start, new_start + Len(kept))
             oc == IF overlapped THEN Saturated(d.overlap_count) ELSE d.overlap_count
             de == d.depth_exceeded \/ Len(kept) < Len(data)
  <2>1. d.overlap_count \in 0 .. CountMax
    BY <1>0 DEF DirectionType
  <2>2. Saturated(d.overlap_count) \in 0 .. CountMax
    BY <2>1, SaturatedType
  <2>3. oc \in 0 .. CountMax
    BY <2>1, <2>2
  <2>4. de \in BOOLEAN
    OBVIOUS
  <2>5. e = [d EXCEPT !.segments = new,
                      !.buffered_bytes = @ + Cardinality(Filled(free, filled)),
                      !.overlap_count = oc,
                      !.depth_exceeded = de]
    BY Zenon DEF StoreSegment
  <2> HIDE DEF oc, de, new, free, filled
  <2> QED BY <2>3, <2>4, <2>5, Zenon
<1> DEFINE bb == d.buffered_bytes + Cardinality(Filled(free, filled))
<1>9. new \in SegmentMaps /\ bb \in Nat
  BY <1>2, <1>6, <1>7, SegMapInSegmentMaps
<1> HIDE DEF new, free, filled, kept
<1>10. e \in DirectionType
  BY <1>0, <1>8, <1>9, Zenon DEF DirectionType
<1>11. /\ e.isn = d.isn /\ e.base_offset = d.base_offset /\ e.segments = new
       /\ e.buffered_bytes = bb /\ e.reassembled_bytes = d.reassembled_bytes
  BY <1>0, <1>8 DEF DirectionType
<1>12. BufferInv(e)
  <2>1. SegMap(e.segments) /\ Disjoint(e.segments)
    BY <1>6, <1>11
  <2>2. e.buffered_bytes = Cardinality(Covered(e.segments))
    BY <1>7, <1>11
  <2>3. e.reassembled_bytes + e.buffered_bytes <= MaxDepth
    BY <1>2, <1>7, <1>11
  <2>4. Cardinality(DOMAIN e.segments) <= MaxSegments
    BY <1>5, <1>6, <1>11
  <2> QED BY <2>1, <2>2, <2>3, <2>4 DEF BufferInv
<1>13. CursorInv(e)
  BY <1>0, <1>11 DEF CursorInv
<1>14. Brings(segs, e.segments, data)
  <2>1. DOMAIN kept \subseteq DOMAIN data /\ \A j \in DOMAIN kept : kept[j] = data[j]
    <3>1. kept = IF Len(data) > room THEN SubSeq(data, 1, room) ELSE data
      BY Zenon DEF kept, Kept
    <3>2. room \in Nat
      BY <1>2
    <3> HIDE DEF room
    <3> QED BY <3>1, <3>2
  <2> HIDE DEF segs
  <2> QED BY <1>6, <1>11, <2>1 DEF Brings
<1> QED BY <1>6, <1>10, <1>11, <1>12, <1>13, <1>14 DEF DirectionInv

\* insert_segment as a whole, every early return included.
LEMMA InsertSegmentInv ==
    ASSUME NEW d, DirectionInv(d), d.isn # NoIsn,
           NEW seq \in SeqNum, NEW data \in Seq(Byte),
           NEW e, e = InsertSegment(d, seq, data).dir
    PROVE  /\ DirectionInv(e)
           /\ e.isn = d.isn
           /\ e.base_offset = d.base_offset
           /\ e.reassembled_bytes = d.reassembled_bytes
           /\ \A s \in DOMAIN d.segments :
                 s \in DOMAIN e.segments /\ e.segments[s] = d.segments[s]
           /\ Brings(d.segments, e.segments, data)
<1> DEFINE off == SeqOffset(seq, d.isn)
           adm == Admission(d, off, Len(data))
<1>0. d \in DirectionType /\ BufferInv(d) /\ CursorInv(d)
  BY DEF DirectionInv
<1>1. off \in Nat
  <2>1. seq \in Int /\ d.isn \in Int
    BY <1>0, DirectionConstants DEF DirectionType, SeqNum, NoIsn
  <2> QED BY <2>1, SeqOffsetType, Zenon
<1>2. CASE adm = "Admitted"
  <2>1. e = StoreSegment(d, off, data).dir
    BY <1>2 DEF InsertSegment
  <2>2. d.reassembled_bytes + d.buffered_bytes < MaxDepth
    <3>1. ~ (d.reassembled_bytes + d.buffered_bytes >= MaxDepth)
      BY <1>2 DEF Admission
    <3>2. d.reassembled_bytes \in Nat /\ d.buffered_bytes \in Nat /\ MaxDepth \in Nat
      BY <1>0, DirectionConstants DEF DirectionType
    <3> QED BY <3>1, <3>2
  <2> HIDE DEF off
  <2> QED BY <1>1, <2>1, <2>2, StoreSegmentInv
<1>3. CASE adm = "OutOfWindow"
  <2> DEFINE n == Saturated(d.out_of_window_count)
  <2>1. e = [d EXCEPT !.out_of_window_count = n]
    BY <1>3 DEF InsertSegment
  <2>2. n \in 0 .. CountMax
    BY <1>0, SaturatedType DEF DirectionType
  <2> HIDE DEF n
  <2>3. e \in DirectionType
    BY <1>0, <2>1, <2>2, Zenon DEF DirectionType
  <2>4. /\ e.isn = d.isn /\ e.base_offset = d.base_offset
        /\ e.segments = d.segments /\ e.buffered_bytes = d.buffered_bytes
        /\ e.reassembled_bytes = d.reassembled_bytes
    BY <1>0, <2>1 DEF DirectionType
  <2> QED BY <1>0, <2>3, <2>4 DEF DirectionInv, BufferInv, CursorInv, Brings
<1>4. CASE adm = "DepthExceeded"
  <2>1. e = [d EXCEPT !.depth_exceeded = TRUE]
    BY <1>4, Zenon DEF InsertSegment
  <2>2. e \in DirectionType
    BY <1>0, <2>1, Zenon DEF DirectionType
  <2>3. /\ e.isn = d.isn /\ e.base_offset = d.base_offset
        /\ e.segments = d.segments /\ e.buffered_bytes = d.buffered_bytes
        /\ e.reassembled_bytes = d.reassembled_bytes
    BY <1>0, <2>1 DEF DirectionType
  <2> QED BY <1>0, <2>2, <2>3 DEF DirectionInv, BufferInv, CursorInv, Brings
<1>5. CASE adm = "SegmentLimitReached"
  <2>1. e = d
    BY <1>5 DEF InsertSegment
  <2> QED BY <2>1 DEF Brings
<1>6. adm \in {"Admitted", "OutOfWindow", "DepthExceeded", "SegmentLimitReached"}
  BY DEF Admission
<1> QED BY <1>2, <1>3, <1>4, <1>5, <1>6

\* flush_contiguous: what leaves the buffer is the run of positions from
\* base_offset on, and nothing is left at the new base_offset.
LEMMA FlushProperties ==
    ASSUME NEW d, DirectionInv(d),
           NEW e, e = FlushContiguous(d)
    PROVE  /\ DirectionInv(e)
           /\ e.isn = d.isn
           /\ FlushEnd(d) \in Nat
           /\ FlushEnd(d) >= d.base_offset
           /\ e.base_offset = FlushEnd(d)
           /\ e.reassembled_bytes
                = d.reassembled_bytes + (FlushEnd(d) - d.base_offset)
           /\ e.base_offset \notin DOMAIN e.segments
           /\ DOMAIN e.segments \subseteq DOMAIN d.segments
           /\ \A s \in DOMAIN e.segments : e.segments[s] = d.segments[s]
           /\ d.base_offset .. (FlushEnd(d) - 1) \subseteq Covered(d.segments)
           /\ Covered(e.segments)
                = Covered(d.segments) \ (d.base_offset .. (FlushEnd(d) - 1))
<1> DEFINE segs == d.segments
           base == d.base_offset
           ahead == {s \in DOMAIN segs : s >= base}
           A == Positions(segs, ahead)
           end == FlushEnd(d)
           run == base .. (end - 1)
           left == {s \in DOMAIN segs : s < base \/ s >= end}
           new == [s \in left |-> segs[s]]
<1>0. d \in DirectionType /\ BufferInv(d) /\ CursorInv(d)
  BY DEF DirectionInv
<1>1. SegMap(segs) /\ Disjoint(segs)
  BY <1>0 DEF BufferInv
<1>2. /\ base \in Nat /\ d.buffered_bytes \in Nat /\ d.reassembled_bytes \in Nat
      /\ MaxDepth \in Nat
  BY <1>0, DirectionConstants DEF DirectionType
<1>3. IsFiniteSet(A) /\ A \subseteq Nat
  BY <1>1, PositionsFinite
<1>4. /\ end \in Nat /\ end >= base /\ end \notin A /\ run \subseteq A
  <2>1. end = RunEnd(A, base)
    BY DEF FlushEnd
  <2>2. /\ RunEnd(A, base) \in Int /\ RunEnd(A, base) >= base
        /\ RunEnd(A, base) \notin A /\ base .. (RunEnd(A, base) - 1) \subseteq A
    <3> HIDE DEF A, base
    <3> QED BY <1>2, <1>3, RunEndProperties
  <2> QED BY <1>2, <2>1, <2>2
<1> HIDE DEF end
<1>5. \A p : p \in A <=> \E s \in ahead : p \in Span(segs, s)
  BY DEF Positions
<1>6. run \subseteq Covered(segs)
  BY <1>4, <1>5, CoveredBySegment, Zenon
<1>7. end \notin left
  <2>1. SUFFICES ASSUME end \in DOMAIN segs PROVE FALSE
    OBVIOUS
  <2>2. SegEnd(segs, end) \in Nat /\ SegEnd(segs, end) > end
    BY <1>1, <2>1, SegEndProperties
  <2>3. end \in Span(segs, end)
    BY <1>4, <2>2 DEF Span
  <2> QED BY <1>4, <1>5, <2>1, <2>3
<1>8. SegMap(new) /\ Disjoint(new) /\ DOMAIN new = left
      /\ \A s \in left : new[s] = segs[s] /\ Span(new, s) = Span(segs, s)
  <2>1. DOMAIN new = left /\ left \in SUBSET DOMAIN segs
    OBVIOUS
  <2>2. \A s \in left : /\ new[s] = segs[s]
                        /\ SegEnd(new, s) = SegEnd(segs, s)
                        /\ Span(new, s) = Span(segs, s)
    BY DEF SegEnd, Span
  <2>3. IsFiniteSet(left)
    <3>1. IsFiniteSet(DOMAIN segs)
      BY <1>1 DEF SegMap
    <3> QED BY <2>1, <3>1, FS_Subset
  <2>4. SegMap(new)
    BY <1>1, <2>1, <2>2, <2>3 DEF SegMap
  <2>5. Disjoint(new)
    BY <1>1, <2>1, <2>2 DEF Disjoint
  <2> QED BY <2>1, <2>2, <2>4, <2>5
<1>9. Covered(new) = Covered(segs) \ run
  <2>1. ASSUME NEW p \in Covered(new) PROVE p \in Covered(segs) /\ p \notin run
    <3>1. PICK s \in left : p \in Span(segs, s)
      BY <1>8, CoveredBySegment
    <3>2. s \in Nat /\ SegEnd(segs, s) \in Nat /\ p \in Int /\ p >= s
      BY <1>1, <3>1, SegEndProperties DEF Span
    <3>3. p \in Covered(segs)
      BY <3>1, CoveredBySegment
    <3>4. CASE s >= end
      BY <1>4, <3>2, <3>3, <3>4
    <3>5. CASE s < base
      <4>1. SUFFICES ASSUME p \in run PROVE FALSE
        BY <3>3
      <4>2. PICK t \in ahead : p \in Span(segs, t)
        BY <1>4, <1>5, <4>1, Zenon
      <4>3. t = s
        BY <1>1, <3>1, <4>2, DisjointSpans
      <4> QED BY <1>2, <3>2, <3>5, <4>2, <4>3
    <3> QED BY <3>1, <3>4, <3>5
  <2>2. ASSUME NEW p \in Covered(segs), p \notin run PROVE p \in Covered(new)
    <3>1. PICK s \in DOMAIN segs : p \in Span(segs, s)
      BY CoveredBySegment
    <3>2. /\ s \in Nat /\ SegEnd(segs, s) \in Nat
          /\ p \in Int /\ p >= s /\ p < SegEnd(segs, s)
      BY <1>1, <3>1, SegEndProperties DEF Span
    <3>3. s \in left
      <4>1. SUFFICES ASSUME base <= s, s < end PROVE FALSE
        BY <1>2, <1>4, <3>2
      <4>2. p >= end
        BY <1>2, <1>4, <2>2, <3>2, <4>1
      <4>3. end \in Span(segs, s)
        BY <1>4, <3>2, <4>1, <4>2 DEF Span
      <4> QED BY <1>4, <1>5, <4>1, <4>3
    <3>4. p \in Span(new, s)
      BY <1>8, <3>1, <3>3
    <3> QED BY <1>8, <3>3, <3>4, CoveredBySegment
  <2> QED BY <2>1, <2>2
<1>10. /\ IsFiniteSet(Covered(segs)) /\ Cardinality(Covered(segs)) \in Nat
       /\ Cardinality(Covered(new)) = Cardinality(Covered(segs)) - (end - base)
       /\ Cardinality(Covered(new)) \in Nat
  <2>1. IsFiniteSet(Covered(segs))
    BY <1>1, PositionsFinite DEF Covered
  <2>2. Covered(segs) \cap run = run
    BY <1>6
  <2>3. Cardinality(run) = end - base
    <3>1. Cardinality(run) = IF base > end - 1 THEN 0 ELSE (end - 1) - base + 1
      <4>1. base \in Int /\ end - 1 \in Int
        BY <1>2, <1>4
      <4> QED BY <4>1, FS_Interval
    <3> HIDE DEF run
    <3> QED BY <1>2, <1>4, <3>1
  <2>4. /\ IsFiniteSet(Covered(segs) \ run)
        /\ Cardinality(Covered(segs) \ run)
             = Cardinality(Covered(segs)) - Cardinality(Covered(segs) \cap run)
    <3> HIDE DEF run, segs
    <3> QED BY <2>1, FS_Difference
  <2> HIDE DEF run, segs, new
  <2> QED BY <1>9, <2>1, <2>2, <2>3, <2>4, FS_CardinalityType, Zenon
<1> DEFINE bb == d.buffered_bytes - (end - base)
           rb == d.reassembled_bytes + (end - base)
<1>11. e = [d EXCEPT !.segments = new, !.buffered_bytes = bb,
                     !.base_offset = end, !.reassembled_bytes = rb]
  BY Zenon DEF FlushContiguous, end
<1>12. bb \in Nat /\ rb \in Nat /\ bb = Cardinality(Covered(new))
  BY <1>0, <1>2, <1>4, <1>10 DEF BufferInv
<1>13. new \in SegmentMaps
  BY <1>8, SegMapInSegmentMaps
<1> HIDE DEF new, bb, rb
<1>14. e \in DirectionType
  BY <1>0, <1>4, <1>11, <1>12, <1>13, Zenon DEF DirectionType
<1>15. /\ e.isn = d.isn /\ e.base_offset = end /\ e.segments = new
       /\ e.buffered_bytes = bb /\ e.reassembled_bytes = rb
  BY <1>0, <1>11 DEF DirectionType
<1>16. BufferInv(e)
  <2>1. e.buffered_bytes = Cardinality(Covered(e.segments))
    BY <1>12, <1>15
  <2>2. e.reassembled_bytes + e.buffered_bytes <= MaxDepth
    BY <1>0, <1>2, <1>4, <1>15 DEF BufferInv, bb, rb
  <2>3. Cardinality(DOMAIN e.segments) <= MaxSegments
    <3>1. IsFiniteSet(DOMAIN segs) /\ left \in SUBSET DOMAIN segs
      BY <1>1 DEF SegMap
    <3>2. /\ IsFiniteSet(left) /\ Cardinality(left) <= Cardinality(DOMAIN segs)
      <4> HIDE DEF left, segs
      <4> QED BY <3>1, FS_Subset
    <3>3. Cardinality(left) \in Nat /\ Cardinality(DOMAIN segs) \in Nat
          /\ MaxSegments \in Nat
      BY <3>1, <3>2, FS_CardinalityType, DirectionConstants
    <3>4. Cardinality(DOMAIN segs) <= MaxSegments
      BY <1>0 DEF BufferInv
    <3>5. Cardinality(left) <= MaxSegments
      <4> HIDE DEF left, segs
      <4> QED BY <3>2, <3>3, <3>4
    <3> QED BY <1>8, <1>15, <3>5
  <2> QED BY <1>8, <1>15, <2>1, <2>2, <2>3 DEF BufferInv
<1>17. CursorInv(e)
  <2>1. CASE d.isn = NoIsn
    <3>1. DOMAIN segs = {} /\ base = 0 /\ d.reassembled_bytes = 0
      BY <1>0, <2>1 DEF CursorInv
    <3>2. Covered(segs) = {} /\ left = {}
      BY <3>1 DEF Covered, Positions
    <3>3. end = 0
      <4>1. SUFFICES ASSUME end > 0 PROVE FALSE
        BY <1>4
      <4>2. 0 \in run
        BY <1>4, <3>1, <4>1
      <4> QED BY <1>6, <3>2, <4>2
    <3>4. rb = 0 /\ DOMAIN new = {}
      BY <1>8, <3>1, <3>2, <3>3 DEF rb
    <3> QED BY <1>15, <2>1, <3>3, <3>4 DEF CursorInv
  <2>2. CASE d.isn # NoIsn
    <3>1. base = d.reassembled_bytes + 1
      BY <1>0, <2>2 DEF CursorInv
    <3>2. end = rb + 1
      BY <1>2, <1>4, <3>1 DEF rb
    <3> QED BY <1>15, <2>2, <3>2 DEF CursorInv
  <2> QED BY <2>1, <2>2
<1>18. DirectionInv(e)
  BY <1>14, <1>16, <1>17 DEF DirectionInv
<1> QED BY <1>4, <1>6, <1>7, <1>8, <1>9, <1>15, <1>18 DEF end, rb

\* A segment that two maps share gives both the same bytes.
LEMMA SharedSegment ==
    ASSUME NEW f, SegMap(f), Disjoint(f), NEW g, SegMap(g), Disjoint(g),
           NEW s \in DOMAIN f, s \in DOMAIN g, f[s] = g[s],
           NEW p \in Span(f, s)
    PROVE  p \in Span(g, s) /\ p \in Covered(g) /\ ByteAt(f, p) = ByteAt(g, p)
<1>1. Span(f, s) = Span(g, s)
  BY DEF Span, SegEnd
<1>2. p \in Covered(g)
  BY <1>1, CoveredBySegment
<1>3. ByteAt(f, p) = f[s][p - s + 1] /\ ByteAt(g, p) = g[s][p - s + 1]
  BY <1>1, ByteAtSegment
<1> QED BY <1>1, <1>2, <1>3
=============================================================================
