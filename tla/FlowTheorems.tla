---------------------------- MODULE FlowTheorems ----------------------------
(***************************************************************************)
(* What the proofs about the reassembly engine say of the calls on the     *)
(* handler, of the memory of a set of flows, of one flow, and of the       *)
(* direction that a payload goes to.                                       *)
(***************************************************************************)
EXTENDS Reassembler, FlowDirectionTheorems

-----------------------------------------------------------------------------
(* The calls on the handler                                                *)

Listed(c) == \E S : c \in Seq(S)

\* The largest element of a set that has one.
LEMMA MaxOfIs ==
    ASSUME NEW S \in SUBSET Int, NEW m \in S, \A n \in S : n <= m
    PROVE  MaxOf(S) = m
<1> DEFINE P(x) == x \in S /\ \A n \in S : n <= x
<1>1. P(m)
  OBVIOUS
<1>2. \A x \in S : P(x) => x = m
  OBVIOUS
<1> QED BY <1>1, <1>2, Zenon DEF MaxOf

\* The smallest element of a set that has one.
LEMMA MinOfIs ==
    ASSUME NEW S \in SUBSET Int, NEW m \in S, \A n \in S : m <= n
    PROVE  MinOf(S) = m
<1> DEFINE P(x) == x \in S /\ \A n \in S : x <= n
<1>1. P(m)
  OBVIOUS
<1>2. \A x \in S : P(x) => x = m
  OBVIOUS
<1> QED BY <1>1, <1>2, Zenon DEF MinOf

\* No call leaves every direction where it is.
LEMMA FollowsNone ==
    ASSUME NEW x, NEW d
    PROVE  Follows(x, <<>>, x, d)
BY DEF Follows, Due, Earlier

\* Where one more call takes a direction that stands at y.
Moves(a, y, z, d) ==
    \/ a.op = "close" /\ z = 1
    \/ a.op = "data" /\ a.dir = d /\ MinOf(DOMAIN a.slices) = y /\ z = SliceEnd(a.slices)
    \/ a.op = "data" /\ a.dir # d /\ z = y

\* One call more.
LEMMA FollowsAppend ==
    ASSUME NEW x, NEW c, Listed(c), NEW y, NEW d, Follows(x, c, y, d),
           NEW a, NEW z, Moves(a, y, z, d), NEW r, r = c \o <<a>>
    PROVE  Listed(r) /\ Follows(x, r, z, d)
<1> DEFINE n == Len(c)
<1>1. /\ n \in Nat /\ Len(r) = n + 1 /\ r[n + 1] = a
      /\ \A i \in 1 .. n : r[i] = c[i]
      /\ Listed(r)
  <2>1. PICK S : c \in Seq(S)
    BY DEF Listed
  <2>2. c \in Seq(S \cup {a}) /\ <<a>> \in Seq(S \cup {a})
    BY <2>1
  <2>3. r \in Seq(S \cup {a})
    BY <2>2
  <2> QED BY <2>1, <2>2, <2>3 DEF Listed
<1> HIDE DEF n
<1>2. ASSUME NEW i \in 1 .. (n + 1)
      PROVE  Due(x, r, i, d) = Due(x, c, i, d)
  <2>1. Earlier(r, i, d) = Earlier(c, i, d) /\ Earlier(c, i, d) \subseteq 1 .. n
    BY <1>1 DEF Earlier
  <2>2. ASSUME Earlier(c, i, d) # {}
        PROVE  MaxOf(Earlier(c, i, d)) \in 1 .. n
    <3>1. Earlier(c, i, d) \in SUBSET Int /\ n \in Int /\ \A m \in Earlier(c, i, d) : m <= n
      BY <1>1, <2>1
    <3>2. PICK m \in Earlier(c, i, d) : \A l \in Earlier(c, i, d) : l <= m
      BY <2>2, <3>1, IntMax, Zenon
    <3> QED BY <1>1, <2>1, <3>2, MaxOfIs
  <2> QED BY <1>1, <2>1, <2>2 DEF Due
<1>3. Due(x, r, n + 2, d) = z
  <2>0. Due(x, c, n + 1, d) = y
    BY <1>1 DEF Follows, n
  <2>1. CASE a.op = "data" /\ a.dir # d
    <3>1. Earlier(r, n + 2, d) = Earlier(r, n + 1, d)
      BY <1>1, <2>1 DEF Earlier
    <3>2. Due(x, r, n + 2, d) = Due(x, r, n + 1, d)
      BY <3>1, Zenon DEF Due
    <3>3. z = y
      BY <2>1 DEF Moves
    <3> QED BY <1>1, <1>2, <2>0, <3>2, <3>3
  <2>2. CASE a.op = "close" \/ a.dir = d
    <3>1. Earlier(r, n + 2, d) \in SUBSET Int /\ n + 1 \in Earlier(r, n + 2, d)
          /\ \A m \in Earlier(r, n + 2, d) : m <= n + 1
      BY <1>1, <2>2 DEF Earlier
    <3>2. MaxOf(Earlier(r, n + 2, d)) = n + 1
      BY <3>1, MaxOfIs
    <3>3. Due(x, r, n + 2, d) = IF a.op = "close" THEN 1 ELSE SliceEnd(a.slices)
      BY <1>1, <3>1, <3>2 DEF Due
    <3> QED BY <2>2, <3>3 DEF Moves
  <2> QED BY <2>1, <2>2 DEF Moves
<1>4. ASSUME NEW i \in 1 .. Len(r), r[i].op = "data" /\ r[i].dir = d
      PROVE  MinOf(DOMAIN r[i].slices) = Due(x, r, i, d)
  <2>1. CASE i \in 1 .. n
    BY <1>1, <1>2, <1>4, <2>1 DEF Follows, n
  <2>2. CASE i = n + 1
    <3>1. Due(x, r, i, d) = y
      BY <1>1, <1>2, <2>2 DEF Follows, n
    <3> QED BY <1>1, <1>4, <2>2, <3>1 DEF Moves
  <2> QED BY <1>1, <2>1, <2>2
<1> QED BY <1>1, <1>3, <1>4 DEF Follows

-----------------------------------------------------------------------------
(* The calls of one flush                                                  *)

\* The segments that one flush takes.
Taken(d) == {s \in DOMAIN d.segments : d.base_offset <= s /\ s < FlushEnd(d)}

\* The segments that a flush takes fill the run from base_offset on exactly.
LEMMA TakenFillsRun ==
    ASSUME NEW d, DirectionInv(d)
    PROVE  /\ d.base_offset \in Nat /\ FlushEnd(d) \in Nat /\ FlushEnd(d) >= d.base_offset
           /\ \A s \in Taken(d) : Span(d.segments, s) \subseteq d.base_offset .. (FlushEnd(d) - 1)
           /\ \A p \in d.base_offset .. (FlushEnd(d) - 1) : \E s \in Taken(d) : p \in Span(d.segments, s)
<1> DEFINE segs  == d.segments
           base  == d.base_offset
           ahead == {s \in DOMAIN segs : s >= base}
           S     == Positions(segs, ahead)
           end   == RunEnd(S, base)
<1>1. SegMap(segs) /\ base \in Nat
  BY DEF DirectionInv, BufferInv, DirectionType
<1>2. IsFiniteSet(S)
  <2>1. ahead \in SUBSET DOMAIN segs
    OBVIOUS
  <2> QED BY <1>1, <2>1, PositionsFinite
<1> HIDE DEF S
<1>3. /\ end \in Int /\ end >= base /\ end \notin S /\ base .. (end - 1) \subseteq S
  BY <1>1, <1>2, base \in Int, RunEndProperties
<1>4. FlushEnd(d) = end
  BY DEF FlushEnd, S
<1>5. Taken(d) = {s \in DOMAIN segs : base <= s /\ s < end}
  BY <1>4 DEF Taken
<1> HIDE DEF end
<1>6. \A s \in DOMAIN segs : /\ s \in Nat /\ SegEnd(segs, s) \in Nat
                             /\ Span(segs, s) = s .. (SegEnd(segs, s) - 1)
  BY <1>1, SegEndProperties DEF Span
<1>7. \A p : p \in S <=> \E s \in ahead : p \in Span(segs, s)
  BY DEF Positions, S
<1>8. ASSUME NEW s \in Taken(d) PROVE Span(segs, s) \subseteq base .. (end - 1)
  <2>1. s \in ahead /\ s \in Nat /\ s < end /\ base <= s
    BY <1>1, <1>5, <1>6
  <2>2. end \notin s .. (SegEnd(segs, s) - 1)
    BY <1>3, <1>6, <1>7, <2>1
  <2> QED BY <1>1, <1>3, <1>6, <2>1, <2>2
<1>9. ASSUME NEW p \in base .. (end - 1) PROVE \E s \in Taken(d) : p \in Span(segs, s)
  <2>1. PICK s \in ahead : p \in Span(segs, s)
    BY <1>3, <1>7
  <2>2. s <= p
    BY <1>6, <2>1
  <2> QED BY <1>1, <1>3, <1>5, <1>6, <2>1, <2>2
<1>10. end \in Nat
  BY <1>1, <1>3
<1> QED BY <1>1, <1>3, <1>4, <1>8, <1>9, <1>10

\* A flush that takes nothing does not move, and one that takes segments starts at
\* base_offset and ends where their bytes end.
LEMMA FlushSlices ==
    ASSUME NEW d, DirectionInv(d), NEW slices, slices = [s \in Taken(d) |-> d.segments[s]]
    PROVE  IF Taken(d) = {} THEN FlushEnd(d) = d.base_offset
           ELSE /\ MinOf(DOMAIN slices) = d.base_offset
                /\ SliceEnd(slices) = FlushEnd(d)
<1> DEFINE segs  == d.segments
           base  == d.base_offset
           end   == FlushEnd(d)
           T     == base .. (end - 1)
           cells == UNION {{s} \X (1 .. Len(slices[s])) : s \in DOMAIN slices}
<1>1. /\ base \in Nat /\ end \in Nat /\ end >= base
      /\ \A s \in Taken(d) : Span(segs, s) \subseteq T
      /\ \A p \in T : \E s \in Taken(d) : p \in Span(segs, s)
  BY TakenFillsRun
<1>2. SegMap(segs) /\ Disjoint(segs)
  BY DEF DirectionInv, BufferInv
<1>3. Taken(d) \subseteq DOMAIN segs /\ \A s \in Taken(d) : base <= s /\ s < end
  BY DEF Taken
<1>4. \A s \in Taken(d) : /\ s \in Nat /\ Len(segs[s]) \in Nat /\ Len(segs[s]) > 0
                          /\ \A p : p \in Span(segs, s) <=> p \in Int /\ s <= p /\ p < s + Len(segs[s])
  BY <1>2, <1>3, SegEndProperties DEF Span, SegEnd
<1> HIDE DEF end
<1>5. CASE Taken(d) = {}
  <2>1. base \notin T
    BY <1>1, <1>5
  <2> QED BY <1>1, <1>5, <2>1 DEF end
<1>6. CASE Taken(d) # {}
  <2>1. base \in Taken(d)
    <3>1. base \in T
      BY <1>1, <1>3, <1>4, <1>6
    <3>2. PICK s \in Taken(d) : base \in Span(segs, s)
      BY <1>1, <3>1
    <3>3. s = base
      BY <1>1, <1>3, <1>4, <3>2
    <3> QED BY <3>3
  <2>2. MinOf(DOMAIN slices) = base
    <3>1. DOMAIN slices \in SUBSET Int /\ base \in DOMAIN slices /\ \A n \in DOMAIN slices : base <= n
      BY <1>3, <1>4, <2>1
    <3> QED BY <3>1, MinOfIs
  <2>3. PICK seg : seg = [p \in T |-> CHOOSE s \in Taken(d) : p \in Span(segs, s)]
    BY Zenon
  <2>4. \A p \in T : seg[p] \in Taken(d) /\ p \in Span(segs, seg[p])
    BY <1>1, <2>3
  <2>5. PICK g : g = [p \in T |-> <<seg[p], p - seg[p] + 1>>]
    BY Zenon
  <2>6. \A c : c \in cells <=> \E s \in Taken(d) : c \in {s} \X (1 .. Len(segs[s]))
    OBVIOUS
  <2> HIDE DEF cells
  <2>7. g \in [T -> cells]
    <3>1. ASSUME NEW p \in T PROVE g[p] \in cells
      <4>1. seg[p] \in Taken(d) /\ p - seg[p] + 1 \in 1 .. Len(segs[seg[p]])
        BY <1>4, <2>4
      <4>2. <<seg[p], p - seg[p] + 1>> \in {seg[p]} \X (1 .. Len(segs[seg[p]]))
        BY <4>1
      <4> QED BY <2>5, <2>6, <4>1, <4>2
    <3> QED BY <2>5, <3>1
  <2>8. ASSUME NEW c \in cells PROVE \E p \in T : g[p] = c
    <3>1. PICK s \in Taken(d) : c \in {s} \X (1 .. Len(segs[s]))
      BY <2>6
    <3>2. PICK i \in 1 .. Len(segs[s]) : c = <<s, i>>
      BY <3>1
    <3>3. s + i - 1 \in Span(segs, s) /\ s + i - 1 \in T
      BY <1>1, <1>4, <3>2
    <3>4. seg[s + i - 1] = s
      BY <1>2, <1>3, <2>4, <3>3, DisjointSpans
    <3>5. (s + i - 1) - s + 1 = i
      BY <1>4, <3>2
    <3> QED BY <2>5, <3>2, <3>3, <3>4, <3>5
  <2>9. g \in Surjection(T, cells)
    BY <2>7, <2>8 DEF Surjection
  <2>10. \A p, q \in T : g[p] = g[q] => p = q
    <3>1. SUFFICES ASSUME NEW p \in T, NEW q \in T, g[p] = g[q] PROVE p = q
      OBVIOUS
    <3>2. seg[p] = seg[q] /\ p - seg[p] + 1 = q - seg[q] + 1
      BY <2>5, <3>1
    <3>3. seg[p] \in Int /\ p \in Int /\ q \in Int
      BY <1>1, <1>4, <2>4
    <3> QED BY <3>2, <3>3
  <2>11. g \in Injection(T, cells)
    BY <2>7, <2>10 DEF Injection, IsInjective
  <2>12. IsFiniteSet(T) /\ Cardinality(T) = end - base
    <3>1. IsFiniteSet(T) /\ Cardinality(T) = IF base > end - 1 THEN 0 ELSE (end - 1) - base + 1
      BY <1>1, base \in Int, end - 1 \in Int, FS_Interval, Zenon
    <3> QED BY <1>1, <3>1
  <2>13. Cardinality(cells) = end - base
    BY <2>9, <2>11, <2>12, FS_Surjection
  <2>14. SliceEnd(slices) = base + (end - base)
    BY <2>2, <2>13 DEF SliceEnd, cells
  <2> QED BY <1>1, <1>6, <2>2, <2>14 DEF end
<1> QED BY <1>5, <1>6

\* Calls that led to offset y of direction d lead, with those added since, to z.
Takes(c, r, d, y, z) == \A x : Follows(x, c, y, d) => Follows(x, r, z, d)

\* The closes reported to one key are finitely many.
LEMMA ClosesFinite ==
    ASSUME NEW c, Listed(c)
    PROVE  IsFiniteSet(Closes(c)) /\ Cardinality(Closes(c)) \in Nat /\ Closes(c) \subseteq 1 .. Len(c)
<1>1. Len(c) \in Nat /\ Closes(c) \subseteq 1 .. Len(c)
  BY DEF Listed, Closes
<1>2. IsFiniteSet(1 .. Len(c))
  BY <1>1, FS_Interval
<1>3. IsFiniteSet(Closes(c))
  BY <1>1, <1>2, FS_Subset
<1> QED BY <1>1, <1>3, FS_CardinalityType

\* A list with one call more.
LEMMA OneMore ==
    ASSUME NEW c, Listed(c), NEW a, NEW r, r = c \o <<a>>
    PROVE  /\ Listed(r) /\ Len(r) = Len(c) + 1 /\ Len(c) \in Nat
           /\ Closes(r) = Closes(c) \cup (IF a.op = "close" THEN {Len(r)} ELSE {})
<1>1. PICK S : c \in Seq(S)
  BY DEF Listed
<1>2. c \in Seq(S \cup {a}) /\ <<a>> \in Seq(S \cup {a})
  BY <1>1
<1>3. r \in Seq(S \cup {a}) /\ Len(r) = Len(c) + 1 /\ Len(c) \in Nat /\ r[Len(c) + 1] = a
      /\ \A i \in 1 .. Len(c) : r[i] = c[i]
  BY <1>2
<1>4. DOMAIN r = 1 .. (Len(c) + 1) /\ DOMAIN c = 1 .. Len(c)
  BY <1>1, <1>3
<1> QED BY <1>3, <1>4 DEF Listed, Closes

\* The calls of a flush are a list.
LEMMA FlushListed ==
    ASSUME NEW x, NEW side
    PROVE  Listed(FlushCalls(x, side))
<1> DEFINE a == [op |-> "data", dir |-> side, slices |-> [s \in Taken(x) |-> x.segments[s]]]
<1>1. FlushCalls(x, side) = IF Taken(x) = {} THEN <<>> ELSE <<a>>
  BY DEF FlushCalls, Taken
<1> HIDE DEF a
<1>2. <<>> \in Seq({a}) /\ <<a>> \in Seq({a})
  OBVIOUS
<1> QED BY <1>1, <1>2, Zenon DEF Listed

\* Where the next byte of a direction is due.
At(x) == x.reassembled_bytes + 1

WithFlush(c, x, side) == c \o FlushCalls(x, side)

WithClose(c, f, reason) == c \o CloseCalls(f, reason)

\* A flush of one side takes that side to its new offset, and no other anywhere.
LEMMA FlushTakes ==
    ASSUME NEW x, DirectionInv(x), NEW side, NEW c, Listed(c), NEW r, r = WithFlush(c, x, side)
    PROVE  /\ Listed(r) /\ Closes(r) = Closes(c)
           /\ Takes(c, r, side, At(x), At(FlushContiguous(x)))
           /\ \A d, w : d # side => Takes(c, r, d, w, w)
<1> DEFINE slices == [s \in Taken(x) |-> x.segments[s]]
           a == [op |-> "data", dir |-> side, slices |-> slices]
           y == At(x)
           z == At(FlushContiguous(x))
<1>1. FlushCalls(x, side) = IF Taken(x) = {} THEN <<>> ELSE <<a>>
  BY DEF FlushCalls, Taken
<1>2. IF Taken(x) = {} THEN FlushEnd(x) = x.base_offset
      ELSE MinOf(DOMAIN slices) = x.base_offset /\ SliceEnd(slices) = FlushEnd(x)
  BY FlushSlices
<1>3. a.op = "data" /\ a.dir = side /\ a.slices = slices
  OBVIOUS
<1>4. /\ FlushContiguous(x).reassembled_bytes = x.reassembled_bytes + (FlushEnd(x) - x.base_offset)
      /\ FlushEnd(x) \in Nat /\ x.base_offset \in Nat /\ x.reassembled_bytes \in Nat
      /\ Taken(x) # {} => x.base_offset = x.reassembled_bytes + 1
  <2>1. FlushContiguous(x).reassembled_bytes = x.reassembled_bytes + (FlushEnd(x) - x.base_offset)
        /\ FlushEnd(x) \in Nat
    BY FlushProperties
  <2>2. x.base_offset \in Nat /\ x.reassembled_bytes \in Nat /\ CursorInv(x)
    BY DEF DirectionInv, DirectionType
  <2>3. Taken(x) # {} => x.isn # NoIsn
    BY <2>2 DEF CursorInv, Taken
  <2> QED BY <2>1, <2>2, <2>3 DEF CursorInv
<1> HIDE DEF a, slices
<1>5. CASE Taken(x) = {}
  <2>1. r = c
    BY <1>1, <1>5 DEF Listed, WithFlush
  <2>2. z = y
    BY <1>2, <1>4, <1>5 DEF At
  <2> QED BY <2>1, <2>2 DEF Takes
<1>6. CASE Taken(x) # {}
  <2>1. r = c \o <<a>>
    BY <1>1, <1>6 DEF WithFlush
  <2>2. Moves(a, y, z, side) /\ \A d, w : d # side => Moves(a, w, w, d)
    BY <1>2, <1>3, <1>4, <1>6 DEF Moves, At
  <2>3. Listed(r) /\ Closes(r) = Closes(c)
    BY <1>3, <2>1, OneMore, Zenon
  <2>4. Takes(c, r, side, y, z)
    BY <2>1, <2>2, FollowsAppend, Zenon DEF Takes
  <2>5. \A d, w : d # side => Takes(c, r, d, w, w)
    BY <2>1, <2>2, FollowsAppend, Zenon DEF Takes
  <2> QED BY <2>3, <2>4, <2>5
<1> QED BY <1>5, <1>6

\* close_flow takes both sides through their last flush and reports one close,
\* after which the key starts afresh.
LEMMA CloseTakes ==
    ASSUME NEW f, \A d \in Direction : DirectionInv(f.dir[d]), NEW reason,
           NEW c, Listed(c), NEW r, r = WithClose(c, f, reason)
    PROVE  /\ Listed(r) /\ Cardinality(Closes(r)) = Cardinality(Closes(c)) + 1 /\ Closes(r) # {}
           /\ \A d \in Direction : Takes(c, r, d, At(f.dir[d]), 1)
<1> DEFINE C == "ClientToServer"
           S == "ServerToClient"
           F == FlushCalls(f.dir[C], C)
           G == FlushCalls(f.dir[S], S)
           a == [op |-> "close", reason |-> reason]
<1>0. Direction = {C, S} /\ C # S /\ DirectionInv(f.dir[C]) /\ DirectionInv(f.dir[S])
  BY DEF Direction
<1>a. PICK m : m = WithFlush(c, f.dir[C], C)
  OBVIOUS
<1>b. PICK n : n = WithFlush(m, f.dir[S], S)
  OBVIOUS
<1>1. r = n \o <<a>>
  <2>1. PICK X : c \in Seq(X)
    BY DEF Listed
  <2>2. PICK Y : F \in Seq(Y) /\ G \in Seq(Y) /\ <<a>> \in Seq(Y)
    <3>1. PICK U : F \in Seq(U)
      BY FlushListed DEF Listed
    <3>2. PICK V : G \in Seq(V)
      BY FlushListed DEF Listed
    <3> HIDE DEF F, G, a
    <3>3. F \in Seq(U \cup V \cup {a}) /\ G \in Seq(U \cup V \cup {a}) /\ <<a>> \in Seq(U \cup V \cup {a})
      BY <3>1, <3>2
    <3> QED BY <3>3
  <2>3. r = c \o ((F \o G) \o <<a>>)
    BY DEF CloseCalls, WithClose
  <2> HIDE DEF F, G, a
  <2>4. c \in Seq(X \cup Y) /\ F \in Seq(X \cup Y) /\ G \in Seq(X \cup Y) /\ <<a>> \in Seq(X \cup Y)
    BY <2>1, <2>2
  <2>5. m = c \o F /\ n = m \o G
    BY <1>a, <1>b DEF WithFlush, F, G
  <2> QED BY <2>3, <2>4, <2>5, SMTT(30)
<1>2. a.op = "close"
  OBVIOUS
<1> HIDE DEF a, C, S
<1>3. /\ Listed(m) /\ Closes(m) = Closes(c)
      /\ Takes(c, m, C, At(f.dir[C]), At(FlushContiguous(f.dir[C])))
      /\ \A d, t : d # C => Takes(c, m, d, t, t)
  BY <1>0, <1>a, FlushTakes, SMTT(30)
<1>4. /\ Listed(n) /\ Closes(n) = Closes(m)
      /\ Takes(m, n, S, At(f.dir[S]), At(FlushContiguous(f.dir[S])))
      /\ \A d, t : d # S => Takes(m, n, d, t, t)
  BY <1>0, <1>3, <1>b, FlushTakes
<1>5. Listed(r) /\ Len(r) = Len(n) + 1 /\ Len(n) \in Nat /\ Closes(r) = Closes(n) \cup {Len(r)}
  BY <1>1, <1>2, <1>4, OneMore, Zenon
<1>6. Cardinality(Closes(r)) = Cardinality(Closes(c)) + 1
  <2>1. IsFiniteSet(Closes(n)) /\ Closes(n) \subseteq 1 .. Len(n)
    BY <1>4, ClosesFinite
  <2>2. Len(r) \notin Closes(n)
    BY <1>5, <2>1
  <2>3. Cardinality(Closes(n) \cup {Len(r)}) = Cardinality(Closes(n)) + 1
    BY <2>1, <2>2, FS_AddElement
  <2> QED BY <1>3, <1>4, <1>5, <2>3
<1>7. \A y : \A d \in Direction : Takes(n, r, d, y, 1)
  <2>1. \A d, y : Moves(a, y, 1, d)
    BY <1>2 DEF Moves
  <2> QED BY <1>1, <1>4, <2>1, FollowsAppend, Zenon DEF Takes
<1>8. \A d \in Direction : Takes(c, r, d, At(f.dir[d]), 1)
  <2>1. Takes(c, r, C, At(f.dir[C]), 1)
    BY <1>0, <1>3, <1>4, <1>7 DEF Takes
  <2>2. Takes(c, r, S, At(f.dir[S]), 1)
    BY <1>0, <1>3, <1>4, <1>7 DEF Takes
  <2> QED BY <1>0, <2>1, <2>2
<1> QED BY <1>5, <1>6, <1>8

-----------------------------------------------------------------------------
(* The memory of a set of flows, as the size of a set of cells             *)

Cells(flows, K) == UNION {{k} \X (1 .. MemoryUsed(flows[k])) : k \in K}

\* The flows of K each hold a number of bytes.
Sized(flows, K) == IsFiniteSet(K) /\ \A k \in K : MemoryUsed(flows[k]) \in Nat

\* MemoryOf counts the cells.
LEMMA MemoryIsCells ==
    ASSUME NEW flows, NEW K
    PROVE  MemoryOf(flows, K) = Cardinality(Cells(flows, K))
<1> DEFINE used == [k \in K |-> MemoryUsed(flows[k])]
<1>1. \A k \in K : used[k] = MemoryUsed(flows[k])
  OBVIOUS
<1> HIDE DEF used
<1>2. {{k} \X (1 .. used[k]) : k \in K} = {{k} \X (1 .. MemoryUsed(flows[k])) : k \in K}
  BY <1>1
<1>3. MemoryOf(flows, K) = SumOver(used, K)
  BY DEF MemoryOf, used
<1>4. SumOver(used, K) = Cardinality(UNION {{k} \X (1 .. used[k]) : k \in K})
  BY DEF SumOver
<1> QED BY <1>2, <1>3, <1>4, Zenon DEF Cells

\* A cell belongs to one flow.
LEMMA CellOwner ==
    ASSUME NEW flows, NEW K, NEW c
    PROVE  c \in Cells(flows, K)
             <=> \E k \in K : c \in {k} \X (1 .. MemoryUsed(flows[k]))
BY DEF Cells

\* Finitely many flows have finitely many cells.
LEMMA CellsFinite ==
    ASSUME NEW flows, NEW K, Sized(flows, K)
    PROVE  IsFiniteSet(Cells(flows, K))
<1> DEFINE cells(k) == {k} \X (1 .. MemoryUsed(flows[k]))
           all == {cells(k) : k \in K}
<1>1. ASSUME NEW k \in K PROVE IsFiniteSet(cells(k))
  <2>1. IsFiniteSet(1 .. MemoryUsed(flows[k]))
    BY FS_Interval DEF Sized
  <2>2. IsFiniteSet({k})
    BY FS_Singleton, Zenon
  <2> QED BY <2>1, <2>2, FS_Product, Zenon
<1>2. IsFiniteSet(all)
  <2> DEFINE f == [k \in K |-> cells(k)]
  <2> HIDE DEF cells
  <2>1. f \in Surjection(K, all)
    BY DEF Surjection
  <2> QED BY <2>1, FS_Surjection DEF Sized
<1>3. \A T \in all : IsFiniteSet(T)
  BY <1>1
<1>4. IsFiniteSet(UNION all)
  <2> HIDE DEF all
  <2> QED BY <1>2, <1>3, FS_UNION
<1> QED BY <1>4 DEF Cells

\* The memory of a set of flows is a number.
LEMMA MemoryNat ==
    ASSUME NEW flows, NEW K, Sized(flows, K)
    PROVE  MemoryOf(flows, K) \in Nat
BY MemoryIsCells, CellsFinite, FS_CardinalityType

\* No flow, no memory.
LEMMA MemoryEmpty ==
    ASSUME NEW flows
    PROVE  MemoryOf(flows, {}) = 0
<1>1. Cells(flows, {}) = {}
  BY DEF Cells
<1> QED BY <1>1, MemoryIsCells, FS_EmptySet

\* One flow: the bytes buffered in its two directions.
LEMMA MemorySingle ==
    ASSUME NEW flows, NEW k, MemoryUsed(flows[k]) \in Nat
    PROVE  MemoryOf(flows, {k}) = MemoryUsed(flows[k])
<1> DEFINE n == MemoryUsed(flows[k])
<1>1. Cells(flows, {k}) = {k} \X (1 .. n)
  BY DEF Cells
<1> HIDE DEF n
<1>2. IsFiniteSet(1 .. n) /\ Cardinality(1 .. n) = n
  BY FS_Interval DEF n
<1>3. IsFiniteSet({k}) /\ Cardinality({k}) = 1
  BY FS_Singleton, Zenon
<1>4. Cardinality({k} \X (1 .. n)) = 1 * n
  <2>1. Cardinality({k} \X (1 .. n)) = Cardinality({k}) * Cardinality(1 .. n)
    BY <1>2, <1>3, FS_Product, ZenonT(30)
  <2> QED BY <2>1, <1>2, <1>3, ZenonT(30)
<1>5. n \in Nat
  BY DEF n
<1>6. Cardinality({k} \X (1 .. n)) = n
  BY <1>4, <1>5
<1> QED BY <1>1, <1>6, MemoryIsCells DEF n

\* The memory of some flows depends on what they hold only.
LEMMA MemorySame ==
    ASSUME NEW f, NEW g, NEW K, \A k \in K : MemoryUsed(f[k]) = MemoryUsed(g[k])
    PROVE  MemoryOf(f, K) = MemoryOf(g, K)
<1>1. Cells(f, K) = Cells(g, K)
  BY DEF Cells
<1> QED BY <1>1, MemoryIsCells

\* Taking flows out takes their memory out.
LEMMA MemorySplit ==
    ASSUME NEW flows, NEW D, Sized(flows, D), NEW K \in SUBSET D
    PROVE  /\ MemoryOf(flows, D) = MemoryOf(flows, K) + MemoryOf(flows, D \ K)
           /\ MemoryOf(flows, K) \in Nat
           /\ MemoryOf(flows, D \ K) \in Nat
<1>1. Sized(flows, K) /\ Sized(flows, D \ K)
  BY FS_Subset DEF Sized
<1>2. /\ IsFiniteSet(Cells(flows, K)) /\ IsFiniteSet(Cells(flows, D \ K))
  BY <1>1, CellsFinite
<1>3. Cells(flows, D) = Cells(flows, K) \cup Cells(flows, D \ K)
  BY CellOwner
<1>4. Cells(flows, K) \cap Cells(flows, D \ K) = {}
  <2>1. ASSUME NEW c \in Cells(flows, K), c \in Cells(flows, D \ K) PROVE FALSE
    <3>1. PICK k \in K : c \in {k} \X (1 .. MemoryUsed(flows[k]))
      BY <2>1, CellOwner
    <3>2. PICK l \in D \ K : c \in {l} \X (1 .. MemoryUsed(flows[l]))
      BY <2>1, CellOwner
    <3>3. c[1] = k /\ c[1] = l
      BY <3>1, <3>2
    <3> QED BY <3>1, <3>2, <3>3
  <2> QED BY <2>1
<1>5. Cardinality(Cells(flows, K)) \in Nat /\ Cardinality(Cells(flows, D \ K)) \in Nat
  BY <1>2, FS_CardinalityType
<1>6. Cardinality(Cells(flows, D))
        = Cardinality(Cells(flows, K)) + Cardinality(Cells(flows, D \ K)) - Cardinality({})
  BY <1>2, <1>3, <1>4, FS_Union, ZenonT(30)
<1>7. Cardinality(Cells(flows, D)) = Cardinality(Cells(flows, K)) + Cardinality(Cells(flows, D \ K))
  BY <1>5, <1>6, FS_EmptySet
<1> QED BY <1>1, <1>7, MemoryIsCells, MemoryNat

\* One flow apart from the others.
LEMMA MemoryPick ==
    ASSUME NEW flows, NEW D, Sized(flows, D), NEW k \in D
    PROVE  /\ MemoryOf(flows, D) = MemoryUsed(flows[k]) + MemoryOf(flows, D \ {k})
           /\ MemoryUsed(flows[k]) \in Nat
           /\ MemoryOf(flows, D \ {k}) \in Nat
<1>1. PICK K : K = {k}
  BY Zenon
<1>2. K \in SUBSET D
  BY <1>1
<1>3. /\ MemoryOf(flows, D) = MemoryOf(flows, K) + MemoryOf(flows, D \ K)
      /\ MemoryOf(flows, D \ K) \in Nat
  BY <1>2, MemorySplit
<1>4. MemoryUsed(flows[k]) \in Nat
  BY DEF Sized
<1>5. MemoryOf(flows, K) = MemoryUsed(flows[k])
  BY <1>1, <1>4, MemorySingle
<1> QED BY <1>1, <1>3, <1>4, <1>5

-----------------------------------------------------------------------------
(* One flow                                                                *)

FlowFields == {"dir", "state", "initiator", "fin_count", "last_seen", "last_activity_index"}

\* No direction mixes the bytes of the two endpoints, if they can be told apart.
OneSided(f) ==
    BytesNameSenders =>
        \A d \in Direction : FromSide(f.dir[d].segments, f.initiator, d)

\* A flow under key k, also inside process_packet, where a Closed flow may exist
\* and may have taken data without an initiator.
FlowOK(f, k) ==
    /\ DOMAIN f = FlowFields
    /\ DOMAIN f.dir = Direction
    /\ \A d \in Direction : DirectionInv(f.dir[d])
    /\ f.state \in FlowState
    /\ f.initiator \in k \cup {NoEndpoint}
    /\ f.state \notin {"New", "Closed"} => f.initiator # NoEndpoint
    /\ \A d \in Direction :
          f.state # "Closed" /\ f.dir[d].isn # NoIsn =>
              f.initiator # NoEndpoint /\ f.state # "New"
    /\ f.fin_count \in 0 .. 2
    /\ f.state = "Closed" <=> f.fin_count = 2
    /\ f.last_seen \in Time
    /\ f.last_activity_index \in Nat
    /\ OneSided(f)

\* What the handling of a packet leaves alone once the flow has been touched.
SameTimes(f, g) ==
    f.last_seen = g.last_seen /\ f.last_activity_index = g.last_activity_index

\* The directions of f and g have delivered as much.
SameOffsets(f, g) ==
    \A d \in Direction : g.dir[d].reassembled_bytes = f.dir[d].reassembled_bytes

\* The fields of a packet.
LEMMA PacketTyped ==
    ASSUME NEW p \in Packet
    PROVE  /\ p.src \in Endpoint /\ p.dst \in Endpoint
           /\ p.seq \in SeqNum /\ p.data \in Seq(Byte)
           /\ FlowKey(p) \in Key
           /\ p.src \in FlowKey(p) /\ p.dst \in FlowKey(p)
           /\ NoEndpoint \notin FlowKey(p)
BY ReassemblerConstants DEF FlowKey, Key

\* The sides stay apart when no byte is added, and the initiator is the same or
\* there is no byte yet.
LEMMA SidesKept ==
    ASSUME NEW f, OneSided(f), NEW g,
           \A d \in Direction : g.dir[d].segments = f.dir[d].segments,
           g.initiator = f.initiator \/ \A d \in Direction : DOMAIN f.dir[d].segments = {}
    PROVE  OneSided(g)
<1>1. CASE g.initiator = f.initiator
  BY <1>1 DEF OneSided
<1>2. CASE \A d \in Direction : DOMAIN f.dir[d].segments = {}
  BY <1>2 DEF OneSided, FromSide
<1> QED BY <1>1, <1>2

\* A flow whose initiator is not known holds no byte, unless the packet has just
\* closed it.
LEMMA NoByteYet ==
    ASSUME NEW f, NEW k, FlowOK(f, k), f.state # "Closed", f.initiator = NoEndpoint
    PROVE  \A d \in Direction : DOMAIN f.dir[d].segments = {}
BY DEF FlowOK, DirectionInv, CursorInv

\* A flow holds as many bytes as its two directions do.
LEMMA MemoryUsedNat ==
    ASSUME NEW f, NEW k, FlowOK(f, k)
    PROVE  /\ \A d \in Direction : f.dir[d].buffered_bytes \in Nat
           /\ MemoryUsed(f) \in Nat
<1>1. \A d \in Direction : f.dir[d].buffered_bytes \in Nat
  BY DEF FlowOK, DirectionInv, DirectionType
<1>2. "ClientToServer" \in Direction /\ "ServerToClient" \in Direction
  BY DEF Direction
<1> QED BY <1>1, <1>2 DEF MemoryUsed

\* TcpFlow::new
LEMMA NewFlowOK ==
    ASSUME NEW k, NEW ts \in Time
    PROVE  FlowOK(NewFlow(ts), k) /\ MemoryUsed(NewFlow(ts)) = 0
<1> DEFINE f == NewFlow(ts)
<1>1. /\ DOMAIN f = FlowFields /\ DOMAIN f.dir = Direction
      /\ \A d \in Direction : f.dir[d] = NewDirection
      /\ f.state = "New" /\ f.initiator = NoEndpoint /\ f.fin_count = 0
      /\ f.last_seen = ts /\ f.last_activity_index = 0
  BY DEF NewFlow, FlowFields
<1> HIDE DEF f
<1>2. NewDirection.isn = NoIsn /\ NewDirection.buffered_bytes = 0
  BY DEF NewDirection
<1>3. FlowOK(f, k)
  <2>1. OneSided(f)
    <3>1. DOMAIN NewDirection.segments = {}
      BY DEF NewDirection
    <3> QED BY <1>1, <3>1 DEF OneSided, FromSide
  <2> QED BY <1>1, <1>2, <2>1, NewDirectionInv DEF FlowOK, FlowState
<1>4. MemoryUsed(f) = 0
  BY <1>1, <1>2 DEF MemoryUsed, Direction
<1> QED BY <1>3, <1>4 DEF f

Stamp(f, ts, n) == [f EXCEPT !.last_seen = ts, !.last_activity_index = n]

\* process_packet stamps the flow with the time and index of the packet.
LEMMA TouchOK ==
    ASSUME NEW f, NEW k, FlowOK(f, k), NEW ts \in Time, NEW n \in Nat,
           NEW g, g = Stamp(f, ts, n)
    PROVE  /\ FlowOK(g, k) /\ MemoryUsed(g) = MemoryUsed(f)
           /\ g.state = f.state /\ g.last_seen = ts /\ g.last_activity_index = n
<1>1. DOMAIN f = FlowFields
  BY DEF FlowOK
<1>2. /\ DOMAIN g = FlowFields /\ g.dir = f.dir /\ g.state = f.state
      /\ g.initiator = f.initiator /\ g.fin_count = f.fin_count
      /\ g.last_seen = ts /\ g.last_activity_index = n
  BY <1>1 DEF FlowFields, Stamp
<1>3. OneSided(g)
  BY <1>2, SidesKept DEF FlowOK
<1> QED BY <1>2, <1>3 DEF FlowOK, MemoryUsed

\* The direction of a flow is replaced by another that is sound.
LEMMA ReplaceDirection ==
    ASSUME NEW f, NEW k, FlowOK(f, k), NEW side \in Direction, NEW x, DirectionInv(x),
           f.state # "Closed" => f.initiator # NoEndpoint /\ f.state # "New",
           BytesNameSenders => FromSide(x.segments, f.initiator, side),
           NEW g, g = [f EXCEPT !.dir[side] = x]
    PROVE  /\ FlowOK(g, k) /\ SameTimes(f, g) /\ g.state = f.state
           /\ MemoryUsed(g) = MemoryUsed(f) + (x.buffered_bytes - f.dir[side].buffered_bytes)
<1>1. DOMAIN f = FlowFields /\ DOMAIN f.dir = Direction
  BY DEF FlowOK
<1>2. /\ DOMAIN g = FlowFields /\ g.state = f.state
      /\ g.initiator = f.initiator /\ g.fin_count = f.fin_count
      /\ g.last_seen = f.last_seen /\ g.last_activity_index = f.last_activity_index
      /\ DOMAIN g.dir = Direction /\ g.dir[side] = x
      /\ \A d \in Direction \ {side} : g.dir[d] = f.dir[d]
  BY <1>1 DEF FlowFields
<1>3. \A d \in Direction : DirectionInv(g.dir[d])
  BY <1>2 DEF FlowOK
<1>4. FlowOK(g, k)
  <2>1. OneSided(g)
    <3>1. OneSided(f)
      BY DEF FlowOK
    <3> QED BY <1>2, <3>1 DEF OneSided
  <2> QED BY <1>2, <1>3, <2>1 DEF FlowOK
<1>5. \A d \in Direction : f.dir[d].buffered_bytes \in Nat /\ g.dir[d].buffered_bytes \in Nat
  BY <1>4, MemoryUsedNat, Zenon
<1>6. MemoryUsed(g) = MemoryUsed(f) + (x.buffered_bytes - f.dir[side].buffered_bytes)
  <2>1. CASE side = "ClientToServer"
    BY <1>2, <1>5, <2>1 DEF MemoryUsed, Direction
  <2>2. CASE side = "ServerToClient"
    BY <1>2, <1>5, <2>2 DEF MemoryUsed, Direction
  <2> QED BY <2>1, <2>2 DEF Direction
<1> QED BY <1>2, <1>4, <1>6 DEF SameTimes

WithIsn(f, side, seq) == [f EXCEPT !.dir[side] = SetIsn(@, seq)]

WithSyn(f, ack) == [f EXCEPT !.state = AfterSyn(@, ack)]

\* on_syn, on_syn_ack and set_isn: the part of apply_handshake_flags for SYN.
\* h is the flow with its initiator, y with the ISN of its side as well.
LEMMA SynOK ==
    ASSUME NEW f, NEW k, FlowOK(f, k), f.state # "Closed",
           NoEndpoint \notin k, NEW client \in k, NEW side \in Direction,
           NEW seq \in SeqNum, NEW ack \in BOOLEAN,
           NEW h, h = SetInitiator(f, client),
           NEW y, y = WithIsn(h, side, seq),
           NEW g, g = WithSyn(y, ack)
    PROVE  /\ FlowOK(g, k) /\ SameTimes(f, g) /\ SameOffsets(f, g) /\ g.state # "Closed"
           /\ MemoryUsed(g) = MemoryUsed(f)
<1> DEFINE x == SetIsn(f.dir[side], seq)
<1>1. DOMAIN f = FlowFields /\ DOMAIN f.dir = Direction
  BY DEF FlowOK
<1>2. /\ DOMAIN h = FlowFields /\ h.dir = f.dir /\ h.state = f.state
      /\ h.fin_count = f.fin_count /\ SameTimes(f, h)
      /\ h.initiator \in k /\ h.initiator # NoEndpoint
  BY <1>1 DEF SetInitiator, FlowFields, SameTimes, FlowOK
<1>3. /\ DirectionInv(f.dir[side]) /\ DirectionInv(x)
      /\ x.segments = f.dir[side].segments
      /\ x.reassembled_bytes = f.dir[side].reassembled_bytes
  BY SetIsnInv DEF FlowOK
<1>4. x.buffered_bytes = f.dir[side].buffered_bytes
  BY <1>3, Zenon DEF DirectionInv, BufferInv
<1> HIDE DEF x
<1>5. /\ DOMAIN y = FlowFields /\ y.state = f.state
      /\ y.fin_count = f.fin_count /\ y.initiator = h.initiator /\ SameTimes(f, y)
      /\ DOMAIN y.dir = Direction /\ y.dir[side] = x
      /\ \A d \in Direction \ {side} : y.dir[d] = f.dir[d]
  <2>1. y = [h EXCEPT !.dir[side] = x]
    BY <1>2 DEF x, WithIsn
  <2> QED BY <1>1, <1>2, <2>1 DEF FlowFields, SameTimes
<1>6. /\ DOMAIN g = FlowFields /\ g.state = AfterSyn(f.state, ack)
      /\ g.fin_count = f.fin_count /\ g.initiator = h.initiator /\ SameTimes(f, g)
      /\ g.dir = y.dir
  BY <1>5 DEF FlowFields, SameTimes, WithSyn
<1>7. /\ g.state \in FlowState /\ g.state \notin {"New", "Closed"}
  BY <1>6 DEF AfterSyn, FlowOK, FlowState
<1>8. \A d \in Direction : DirectionInv(g.dir[d])
  BY <1>3, <1>5, <1>6, SMTT(30) DEF FlowOK
<1>9. FlowOK(g, k)
  <2>1. OneSided(g)
    <3>1. \A d \in Direction : g.dir[d].segments = f.dir[d].segments
      BY <1>3, <1>5, <1>6, SMTT(30)
    <3>2. g.initiator = f.initiator \/ f.initiator = NoEndpoint
      BY <1>1, <1>6 DEF SetInitiator
    <3>3. OneSided(f)
      BY DEF FlowOK
    <3> QED BY <3>1, <3>2, <3>3, NoByteYet, SidesKept
  <2> QED BY <1>2, <1>5, <1>6, <1>7, <1>8, <2>1, Zenon DEF FlowOK, SameTimes
<1>10. \A d \in Direction : g.dir[d].buffered_bytes = f.dir[d].buffered_bytes
  BY <1>4, <1>5, <1>6, SMTT(30)
<1>11. MemoryUsed(g) = MemoryUsed(f)
  BY <1>10 DEF MemoryUsed, Direction
<1>12. SameOffsets(f, g)
  BY <1>3, <1>5, <1>6, SMTT(30) DEF SameOffsets
<1> QED BY <1>6, <1>7, <1>9, <1>11, <1>12

\* on_fin: the second FIN closes the flow.
LEMMA OnFinOK ==
    ASSUME NEW f, NEW k, FlowOK(f, k), f.state # "Closed", NEW g, g = OnFin(f)
    PROVE  /\ FlowOK(g, k) /\ SameTimes(f, g) /\ SameOffsets(f, g)
           /\ MemoryUsed(g) = MemoryUsed(f)
<1>1. DOMAIN f = FlowFields /\ f.fin_count \in 0 .. 1
  BY DEF FlowOK
<1>2. /\ DOMAIN g = FlowFields /\ g.dir = f.dir /\ g.initiator = f.initiator
      /\ SameTimes(f, g)
      /\ g.fin_count = f.fin_count + 1
      /\ g.state = CASE f.fin_count + 1 >= 2 -> "Closed"
                     [] f.fin_count + 1 < 2 /\ f.state \in {"Established", "SynSent"} -> "Closing"
                     [] OTHER -> f.state
  BY <1>1 DEF OnFin, FlowFields, SameTimes
<1>0. OneSided(g) /\ SameOffsets(f, g)
  BY <1>2, SidesKept DEF FlowOK, SameOffsets
<1>3. CASE f.fin_count = 1
  <2>1. g.fin_count = 2 /\ g.state = "Closed"
    BY <1>2, <1>3
  <2> QED BY <1>0, <1>2, <2>1 DEF FlowOK, SameTimes, MemoryUsed, FlowState
<1>4. CASE f.fin_count = 0
  <2>1. g.fin_count = 1 /\ g.state \in {"Closing", f.state}
    BY <1>2, <1>4
  <2>2. g.state = "Closing" => f.state \in {"Established", "SynSent", "Closing"}
    BY <1>2, <1>4
  <2> QED BY <1>0, <1>2, <2>1, <2>2 DEF FlowOK, SameTimes, MemoryUsed, FlowState
<1> QED BY <1>1, <1>3, <1>4

\* The whole of apply_handshake_flags on a flow of the table.
LEMMA HandshakeOK ==
    ASSUME NEW p \in Packet, NEW f, FlowOK(f, FlowKey(p)), f.state # "Closed",
           NEW g, g = ApplyHandshakeFlags(f, p)
    PROVE  /\ FlowOK(g, FlowKey(p)) /\ SameTimes(f, g) /\ SameOffsets(f, g)
           /\ MemoryUsed(g) = MemoryUsed(f)
<1> DEFINE k == FlowKey(p)
           client == IF "ack" \in p.flags THEN p.dst ELSE p.src
           h == SetInitiator(f, client)
           side == DirectionOf(h, p.src)
           y == WithIsn(h, side, p.seq)
           ack == "ack" \in p.flags
           syn == WithSyn(y, ack)
           opened == IF "syn" \in p.flags
                     THEN [h EXCEPT !.dir[DirectionOf(h, p.src)] = SetIsn(@, p.seq),
                                    !.state = AfterSyn(@, "ack" \in p.flags)]
                     ELSE f
<1>1. /\ p.src \in k /\ client \in k /\ p.seq \in SeqNum /\ NoEndpoint \notin k
  BY PacketTyped
<1>2. /\ FlowOK(opened, k) /\ SameTimes(f, opened) /\ SameOffsets(f, opened) /\ opened.state # "Closed"
      /\ MemoryUsed(opened) = MemoryUsed(f)
  <2>1. side \in Direction
    BY DEF DirectionOf, Direction
  <2>2. /\ FlowOK(syn, k) /\ SameTimes(f, syn) /\ SameOffsets(f, syn) /\ syn.state # "Closed"
        /\ MemoryUsed(syn) = MemoryUsed(f)
    <3>1. ack \in BOOLEAN
      OBVIOUS
    <3> HIDE DEF k, client, h, side, y, ack, syn
    <3>2. h = SetInitiator(f, client) /\ y = WithIsn(h, side, p.seq) /\ syn = WithSyn(y, ack)
      BY DEF h, y, syn
    <3>3. FlowOK(f, k)
      BY DEF k
    <3> QED BY <1>1, <2>1, <3>1, <3>2, <3>3, SynOK
  <2>3. CASE "syn" \in p.flags
    BY <2>2, <2>3, ZenonT(30) DEF WithIsn, WithSyn
  <2>4. CASE "syn" \notin p.flags
    BY <2>4 DEF SameTimes, SameOffsets
  <2> QED BY <2>3, <2>4
<1>3. g = IF "fin" \in p.flags /\ "rst" \notin p.flags THEN OnFin(opened) ELSE opened
  BY DEF ApplyHandshakeFlags
<1> HIDE DEF opened
<1> QED BY <1>2, <1>3, OnFinOK, SMTT(30) DEF SameTimes, SameOffsets

\* on_data_without_syn: a flow that takes data has an initiator, unless the packet
\* has just closed it.
LEMMA DataWithoutSynOK ==
    ASSUME NEW p \in Packet, NEW f, FlowOK(f, FlowKey(p)),
           NEW g, g = OnDataWithoutSyn(f, p)
    PROVE  /\ FlowOK(g, FlowKey(p)) /\ SameTimes(f, g) /\ g.dir = f.dir
           /\ g.state # "Closed" => g.initiator # NoEndpoint /\ g.state # "New"
<1>1. DOMAIN f = FlowFields
  BY DEF FlowOK
<1>2. CASE f.state = "New"
  <2>1. /\ DOMAIN g = FlowFields /\ g.dir = f.dir /\ g.fin_count = f.fin_count
        /\ g.state = "Established" /\ SameTimes(f, g)
        /\ g.initiator \in FlowKey(p) /\ g.initiator # NoEndpoint
    BY <1>1, <1>2, PacketTyped DEF OnDataWithoutSyn, SetInitiator, FlowFields, SameTimes, FlowOK
  <2>2. OneSided(g)
    <3>1. g.initiator = f.initiator \/ f.initiator = NoEndpoint
      BY <1>1, <1>2 DEF OnDataWithoutSyn, SetInitiator, FlowFields
    <3>2. OneSided(f)
      BY DEF FlowOK
    <3> QED BY <1>2, <2>1, <3>1, <3>2, NoByteYet, SidesKept
  <2> QED BY <1>2, <2>1, <2>2 DEF FlowOK, SameTimes, FlowState
<1>3. CASE f.state # "New"
  BY <1>3 DEF OnDataWithoutSyn, FlowOK, SameTimes
<1> QED BY <1>2, <1>3

-----------------------------------------------------------------------------
(* The direction a payload goes to                                         *)

\* The anomaly counters and latches play no part in the invariant.
LEMMA CountersInv ==
    ASSUME NEW d, DirectionInv(d), NEW e \in DirectionType,
           e.isn = d.isn, e.base_offset = d.base_offset, e.segments = d.segments,
           e.buffered_bytes = d.buffered_bytes, e.reassembled_bytes = d.reassembled_bytes
    PROVE  DirectionInv(e)
BY DEF DirectionInv, BufferInv, CursorInv

\* insert_segment and the run of small segments.
LEMMA InsertedInv ==
    ASSUME NEW d, DirectionInv(d), NEW p \in Packet, NEW e, e = Inserted(d, p).dir
    PROVE  /\ DirectionInv(e)
           /\ \A s \in DOMAIN d.segments :
                 s \in DOMAIN e.segments /\ e.segments[s] = d.segments[s]
           /\ Brings(d.segments, e.segments, p.data)
           /\ e.reassembled_bytes = d.reassembled_bytes
<1> DEFINE i == InferIsn(d, p.seq)
           ins == InsertSegment(i, p.seq, p.data)
           run == SmallRun(ins.dir.small_segment_run, ins.result, Len(p.data))
<1>1. p.seq \in SeqNum /\ p.data \in Seq(Byte)
  BY PacketTyped
<1>2. (p.seq - 1) % SeqSpace \in SeqNum
  BY <1>1, DirectionConstants DEF SeqNum
<1>3. /\ DirectionInv(i) /\ i.isn # NoIsn /\ i.segments = d.segments
      /\ i.reassembled_bytes = d.reassembled_bytes
  BY <1>2, SetIsnInv DEF InferIsn
<1> HIDE DEF i
<1>4. /\ DirectionInv(ins.dir)
      /\ \A s \in DOMAIN i.segments :
            s \in DOMAIN ins.dir.segments /\ ins.dir.segments[s] = i.segments[s]
      /\ Brings(i.segments, ins.dir.segments, p.data)
      /\ ins.dir.reassembled_bytes = i.reassembled_bytes
  BY <1>1, <1>3, InsertSegmentInv, SMTT(30)
<1>5. e = [ins.dir EXCEPT !.small_segment_run = run]
  BY DEF Inserted, i
<1> HIDE DEF ins
<1>6. ins.dir \in DirectionType /\ run \in 0 .. CountMax
  <2>1. ins.dir \in DirectionType
    BY <1>4 DEF DirectionInv
  <2>2. ins.dir.small_segment_run \in 0 .. CountMax /\ 0 \in 0 .. CountMax
    BY <2>1, DirectionConstants DEF DirectionType
  <2>3. Saturated(ins.dir.small_segment_run) \in 0 .. CountMax
    BY <2>2, SaturatedType
  <2> QED BY <2>1, <2>2, <2>3 DEF SmallRun
<1> HIDE DEF run
<1>7. /\ e \in DirectionType
      /\ e.isn = ins.dir.isn /\ e.base_offset = ins.dir.base_offset
      /\ e.segments = ins.dir.segments /\ e.buffered_bytes = ins.dir.buffered_bytes
      /\ e.reassembled_bytes = ins.dir.reassembled_bytes
  BY <1>5, <1>6 DEF DirectionType
<1>8. DirectionInv(e)
  BY <1>4, <1>7, CountersInv
<1> QED BY <1>3, <1>4, <1>7, <1>8

\* check_anomaly_thresholds only flips latches.
LEMMA LatchedInv ==
    ASSUME NEW d, DirectionInv(d), NEW alerts, NEW e, e = Latched(d, alerts)
    PROVE  /\ DirectionInv(e) /\ e.segments = d.segments
           /\ e.reassembled_bytes = d.reassembled_bytes
<1>1. d \in DirectionType
  BY DEF DirectionInv
<1>2. /\ e \in DirectionType
      /\ e.isn = d.isn /\ e.base_offset = d.base_offset /\ e.segments = d.segments
      /\ e.buffered_bytes = d.buffered_bytes /\ e.reassembled_bytes = d.reassembled_bytes
  BY <1>1, ZenonT(30) DEF DirectionType, Latched
<1> QED BY <1>2, CountersInv

\* From x to y segments are only removed, and what x has beyond held is of data.
Passes(held, x, y, data) ==
    /\ \A s \in DOMAIN held : x[s] = held[s]
    /\ Brings(held, x, data)
    /\ DOMAIN y \subseteq DOMAIN x
    /\ \A s \in DOMAIN y : y[s] = x[s]

\* The payload of a packet goes to the side of its sender.
LEMMA PayloadSided ==
    ASSUME NEW p \in Packet, NEW f, OneSided(f), NEW side \in Direction, side = DirectionOf(f, p.src),
           NEW x, NEW y, Passes(f.dir[side].segments, x, y, p.data)
    PROVE  BytesNameSenders => FromSide(y, f.initiator, side)
<1> SUFFICES ASSUME BytesNameSenders, NEW s \in DOMAIN y, NEW i \in DOMAIN y[s]
             PROVE  y[s][i] = f.initiator <=> side = "ClientToServer"
  BY DEF FromSide
<1>0. s \in DOMAIN x /\ y[s] = x[s]
  BY DEF Passes
<1>1. CASE s \in DOMAIN f.dir[side].segments
  <2>1. FromSide(f.dir[side].segments, f.initiator, side)
    BY DEF OneSided
  <2>2. y[s] = f.dir[side].segments[s]
    BY <1>0, <1>1 DEF Passes
  <2>3. \A j \in DOMAIN f.dir[side].segments[s] :
           f.dir[side].segments[s][j] = f.initiator <=> side = "ClientToServer"
    BY <1>1, <2>1 DEF FromSide
  <2> QED BY <2>2, <2>3, Zenon
<1>2. CASE s \notin DOMAIN f.dir[side].segments
  <2>1. PICK j \in DOMAIN p.data : y[s][i] = p.data[j]
    BY <1>0, <1>2 DEF Passes, Brings
  <2>2. y[s][i] = p.src
    BY <2>1 DEF BytesNameSenders
  <2> QED BY <2>2 DEF DirectionOf
<1> QED BY <1>1, <1>2
=============================================================================
