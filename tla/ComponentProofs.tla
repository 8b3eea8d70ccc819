-------------------------- MODULE ComponentProofs ---------------------------
(***************************************************************************)
(* Two components on their own, for every value of their constants.        *)
(*                                                                         *)
(* The invariants of SegmentBuffer, its first-wins property and its        *)
(* refinement of StreamDelivery, for every payload set, sequence space and *)
(* limit.                                                                  *)
(*                                                                         *)
(* The tables of the ARP analyzer keep to their caps and their latches are *)
(* exact, and a tracked IP is bound to the MAC it announced last, whatever *)
(* the caps, the thresholds and the capture are.                           *)
(***************************************************************************)
EXTENDS Arp, SegmentBuffer, FlowDirectionTheorems

-----------------------------------------------------------------------------
(* The segment buffer of one direction                                     *)

\* The inductive invariant.  The limits need the exact byte count, which needs
\* disjoint segments; delivery needs the cursor.
IInv ==
    /\ DirectionInv(dir)
    /\ delivered \in Seq(Byte)
    /\ dir.reassembled_bytes = Len(delivered)
    /\ dir.base_offset \notin DOMAIN dir.segments

\* The fresh direction satisfies the inductive invariant.
LEMMA InitIInv == Init => IInv
<1> SUFFICES ASSUME Init PROVE IInv
  OBVIOUS
<1>1. DirectionInv(dir)
  BY NewDirectionInv DEF Init
<1>2. dir.reassembled_bytes = 0 /\ dir.base_offset \notin DOMAIN dir.segments
  BY DEF Init, NewDirection
<1>3. delivered \in Seq(Byte) /\ Len(delivered) = 0
  BY DEF Init
<1> QED BY <1>1, <1>2, <1>3 DEF IInv

\* What one payload does, whatever its position and length: d is the direction
\* when its ISN is known, e after the insertion, and the flush extends
\* delivered by the bytes at base_offset .. FlushEnd(e) - 1.
PayloadStep(d, e) ==
    /\ DirectionInv(d) /\ d.isn # NoIsn /\ d.segments = dir.segments
    /\ DirectionInv(e) /\ e.base_offset = Len(delivered) + 1
    /\ \A s \in DOMAIN d.segments :
          s \in DOMAIN e.segments /\ e.segments[s] = d.segments[s]
    /\ dir' = FlushContiguous(e)
    /\ delivered' = delivered \o Flushed(e)
    /\ FlushEnd(e) \in Nat /\ FlushEnd(e) > Len(delivered)
    /\ Flushed(e) \in Seq(Byte)
    /\ Len(Flushed(e)) = FlushEnd(e) - (Len(delivered) + 1)

\* What one insertion and the flush after it do to the record and to the bytes
\* delivered.
LEMMA PayloadStepFacts ==
    ASSUME IInv, NEW seq \in SeqNum, NEW data \in Payload,
           ReceivePayload(seq, data)
    PROVE  \E d, e : PayloadStep(d, e) /\ e.reassembled_bytes = Len(delivered)
<1> DEFINE d == InferIsn(dir, seq)
           e == AfterInsert(seq, data)
<1>0. DirectionInv(dir) /\ delivered \in Seq(Byte) /\ Len(delivered) \in Nat
      /\ dir.reassembled_bytes = Len(delivered)
  BY DEF IInv
<1>1. (seq - 1) % SeqSpace \in SeqNum
  BY DirectionConstants DEF SeqNum
<1>2. /\ DirectionInv(d) /\ d.isn # NoIsn /\ d.segments = dir.segments
      /\ d.reassembled_bytes = Len(delivered)
  BY <1>0, <1>1, SetIsnInv DEF InferIsn
<1>3. data \in Seq(Byte)
  BY PayloadAssumption
<1>4. e = InsertSegment(d, seq, data).dir
  BY DEF AfterInsert
<1> HIDE DEF d, e
<1>5. /\ DirectionInv(e) /\ e.isn = d.isn
      /\ e.base_offset = d.base_offset
      /\ e.reassembled_bytes = d.reassembled_bytes
      /\ \A s \in DOMAIN d.segments :
            s \in DOMAIN e.segments /\ e.segments[s] = d.segments[s]
  BY <1>2, <1>3, <1>4, InsertSegmentInv
<1>6. e.base_offset = Len(delivered) + 1
  BY <1>2, <1>5 DEF DirectionInv, CursorInv
<1>7. /\ FlushEnd(e) \in Nat /\ FlushEnd(e) >= e.base_offset
      /\ e.base_offset .. (FlushEnd(e) - 1) \subseteq Covered(e.segments)
  BY <1>5, FlushProperties
<1>8. SegMap(e.segments) /\ Disjoint(e.segments)
  BY <1>5 DEF DirectionInv, BufferInv
<1>9. ASSUME NEW i \in 1 .. (FlushEnd(e) - e.base_offset)
      PROVE  ByteAt(e.segments, e.base_offset + i - 1) \in Byte
  <2> DEFINE p == e.base_offset + i - 1
  <2>1. p \in e.base_offset .. (FlushEnd(e) - 1)
    BY <1>0, <1>6, <1>7
  <2>2. PICK s \in DOMAIN e.segments : p \in Span(e.segments, s)
    BY <1>7, <2>1, CoveredBySegment
  <2> HIDE DEF p
  <2>3. ByteAt(e.segments, p) \in Byte
    BY <1>8, <2>2, ByteAtSegment
  <2> QED BY <2>3 DEF p
<1>10. /\ Flushed(e) \in Seq(Byte)
       /\ Len(Flushed(e)) = FlushEnd(e) - (Len(delivered) + 1)
  <2> DEFINE n == FlushEnd(e) - e.base_offset
  <2>1. n \in Nat /\ n = FlushEnd(e) - (Len(delivered) + 1)
    BY <1>0, <1>6, <1>7
  <2>2. Flushed(e) = [i \in 1 .. n |-> ByteAt(e.segments, e.base_offset + i - 1)]
    BY DEF Flushed
  <2>3. Flushed(e) \in [1 .. n -> Byte]
    BY <1>9, <2>2
  <2> HIDE DEF n
  <2> QED BY <2>1, <2>3
<1>11. dir' = FlushContiguous(e) /\ delivered' = delivered \o Flushed(e)
  BY DEF ReceivePayload, e
<1>12. FlushEnd(e) > Len(delivered)
  BY <1>0, <1>6, <1>7
<1>13. PayloadStep(d, e)
  BY <1>2, <1>5, <1>6, <1>7, <1>10, <1>11, <1>12 DEF PayloadStep
<1> QED BY <1>2, <1>5, <1>13

\* Every SYN, payload and stuttering step preserves the inductive invariant.
LEMMA NextIInv == IInv /\ [Next]_vars => IInv'
<1> SUFFICES ASSUME IInv, [Next]_vars PROVE IInv'
  OBVIOUS
<1>1. CASE UNCHANGED vars
  BY <1>1 DEF IInv, vars
<1>2. ASSUME NEW seq \in SeqNum, ReceiveSyn(seq) PROVE IInv'
  <2>1. /\ DirectionInv(dir') /\ dir'.segments = dir.segments
        /\ dir'.reassembled_bytes = dir.reassembled_bytes
    BY <1>2, SetIsnInv DEF IInv, ReceiveSyn
  <2>2. dir'.base_offset \notin DOMAIN dir'.segments
    <3>1. CASE dir.isn = NoIsn
      BY <3>1, <2>1 DEF IInv, DirectionInv, CursorInv
    <3>2. CASE dir.isn # NoIsn
      BY <3>2, <1>2 DEF IInv, ReceiveSyn, SetIsn
    <3> QED BY <3>1, <3>2
  <2> QED BY <1>2, <2>1, <2>2 DEF IInv, ReceiveSyn
<1>3. ASSUME NEW seq \in SeqNum, NEW data \in Payload, ReceivePayload(seq, data)
      PROVE  IInv'
  <2>1. PICK d, e : PayloadStep(d, e) /\ e.reassembled_bytes = Len(delivered)
    BY <1>3, PayloadStepFacts
  <2>2. /\ DirectionInv(e) /\ e.base_offset = Len(delivered) + 1
        /\ dir' = FlushContiguous(e) /\ delivered' = delivered \o Flushed(e)
        /\ Flushed(e) \in Seq(Byte)
        /\ Len(Flushed(e)) = FlushEnd(e) - (Len(delivered) + 1)
        /\ FlushEnd(e) \in Nat
    BY <2>1 DEF PayloadStep
  <2>3. /\ DirectionInv(dir')
        /\ dir'.reassembled_bytes = e.reassembled_bytes + (FlushEnd(e) - e.base_offset)
        /\ dir'.base_offset \notin DOMAIN dir'.segments
    BY <2>2, FlushProperties
  <2>4. delivered \in Seq(Byte) /\ Len(delivered) \in Nat
    BY DEF IInv
  <2>5. /\ delivered' \in Seq(Byte)
        /\ Len(delivered') = Len(delivered) + Len(Flushed(e))
    BY <2>2, <2>4
  <2>6. dir'.reassembled_bytes = Len(delivered')
    BY <2>1, <2>2, <2>3, <2>4, <2>5
  <2> QED BY <2>3, <2>5, <2>6 DEF IInv
<1> QED BY <1>1, <1>2, <1>3 DEF Next

\* The inductive invariant holds throughout.
THEOREM Invariance == Spec => []IInv
BY InitIInv, NextIInv, PTL DEF Spec

-----------------------------------------------------------------------------
\* The inductive invariant implies the invariants the runs check.
LEMMA IInvImplies ==
    IInv => TypeOK /\ BufferedBytesExact /\ DeliveredContiguous
<1> SUFFICES ASSUME IInv
             PROVE  TypeOK /\ BufferedBytesExact /\ DeliveredContiguous
  OBVIOUS
<1>1. dir \in DirectionType /\ BufferInv(dir) /\ CursorInv(dir)
  BY DEF IInv, DirectionInv
<1>2. TypeOK
  <2>1. /\ dir.isn \in SeqNum \cup {NoIsn}
        /\ dir.base_offset \in Nat
        /\ dir.buffered_bytes \in Nat
        /\ dir.reassembled_bytes \in Nat
        /\ dir.overlap_count \in 0 .. CountMax
        /\ dir.out_of_window_count \in 0 .. CountMax
        /\ dir.depth_exceeded \in BOOLEAN
    BY <1>1, Zenon DEF DirectionType
  <2>2. SegMap(dir.segments)
    BY <1>1 DEF BufferInv
  <2>3. delivered \in Seq(Byte)
    BY DEF IInv
  <2>4. /\ IsFiniteSet(DOMAIN dir.segments)
        /\ DOMAIN dir.segments \subseteq Nat
        /\ \A s \in DOMAIN dir.segments : dir.segments[s] \in Seq(Byte) \ {<<>>}
    BY <2>2 DEF SegMap
  <2>5. /\ dir.reassembled_bytes + dir.buffered_bytes <= MaxDepth
        /\ Cardinality(DOMAIN dir.segments) <= MaxSegments
    BY <1>1 DEF BufferInv
  <2> QED BY <2>1, <2>3, <2>4, <2>5, Zenon DEF TypeOK
<1>3. BufferedBytesExact
  BY <1>1 DEF BufferInv, Disjoint, BufferedBytesExact
<1>4. DeliveredContiguous
  BY <1>1 DEF IInv, CursorInv, DeliveredContiguous
<1> QED BY <1>2, <1>3, <1>4

\* The FlowDirection record and what is delivered keep their types, and
\* insert_segment keeps delivered plus buffered bytes within max_depth and the map
\* within max_segments_per_direction, for all values of the two limits.
THEOREM TypeCorrect == Spec => []TypeOK
BY Invariance, IInvImplies, PTL

\* select_gaps never lets two buffered segments share a position, and
\* buffered_bytes is always the number of bytes in the map: the debug_assert of
\* memory_used can never fire.
THEOREM ExactAccounting == Spec => []BufferedBytesExact
BY Invariance, IInvImplies, PTL

\* on_data is given the stream from its first byte, without a hole or a repeat,
\* and a flush leaves nothing stored at base_offset.
THEOREM ContiguousDelivery == Spec => []DeliveredContiguous
BY Invariance, IInvImplies, PTL

-----------------------------------------------------------------------------
(* First-wins and the refinement of StreamDelivery                         *)

\* A step of the buffer, seen from the positions: what was delivered stays, a
\* buffered byte stays or is delivered, and a position is never both delivered
\* by the step and still buffered after it.
PositionStep ==
    /\ Len(delivered) <= Len(delivered')
    /\ \A p \in 1 .. Len(delivered) : delivered'[p] = delivered[p]
    /\ FirstWinsStep
    /\ \A p \in (Len(delivered) + 1) .. Len(delivered') : p \notin Covered(dir'.segments)

\* A step that leaves the buffer and the delivered bytes alone keeps every position.
LEMMA PositionStepSame ==
    ASSUME IInv, dir'.segments = dir.segments, delivered' = delivered
    PROVE  PositionStep
<1>1. Len(delivered) \in Nat
  BY DEF IInv
<1> QED BY <1>1 DEF PositionStep, FirstWinsStep

\* Every step keeps each buffered byte in place or delivers it for its position.
LEMMA NextPositionStep == IInv /\ [Next]_vars => PositionStep
<1> SUFFICES ASSUME IInv, [Next]_vars PROVE PositionStep
  OBVIOUS
<1>1. CASE UNCHANGED vars
  BY <1>1, PositionStepSame DEF vars
<1>2. ASSUME NEW seq \in SeqNum, ReceiveSyn(seq) PROVE PositionStep
  <2>1. dir'.segments = dir.segments /\ delivered' = delivered
    BY <1>2, SetIsnInv DEF IInv, ReceiveSyn
  <2> QED BY <2>1, PositionStepSame
<1>3. ASSUME NEW seq \in SeqNum, NEW data \in Payload, ReceivePayload(seq, data)
      PROVE  PositionStep
  <2>1. PICK d, e : PayloadStep(d, e) /\ e.reassembled_bytes = Len(delivered)
    BY <1>3, PayloadStepFacts
  <2> DEFINE n == Len(delivered)
             run == (n + 1) .. (FlushEnd(e) - 1)
  <2>2. /\ DirectionInv(d) /\ d.segments = dir.segments
        /\ DirectionInv(e) /\ e.base_offset = n + 1
        /\ \A s \in DOMAIN d.segments :
              s \in DOMAIN e.segments /\ e.segments[s] = d.segments[s]
        /\ dir' = FlushContiguous(e) /\ delivered' = delivered \o Flushed(e)
        /\ Flushed(e) \in Seq(Byte) /\ Len(Flushed(e)) = FlushEnd(e) - (n + 1)
        /\ FlushEnd(e) \in Nat /\ FlushEnd(e) > n
    BY <2>1 DEF PayloadStep
  <2>3. /\ DirectionInv(dir')
        /\ DOMAIN dir'.segments \subseteq DOMAIN e.segments
        /\ \A s \in DOMAIN dir'.segments : dir'.segments[s] = e.segments[s]
        /\ Covered(dir'.segments) = Covered(e.segments) \ run
    BY <2>2, FlushProperties
  <2>4. /\ SegMap(dir.segments) /\ Disjoint(dir.segments)
        /\ SegMap(e.segments) /\ Disjoint(e.segments)
        /\ SegMap(dir'.segments) /\ Disjoint(dir'.segments)
    BY <2>2, <2>3 DEF DirectionInv, BufferInv
  <2>5. delivered \in Seq(Byte) /\ n \in Nat
    BY DEF IInv
  <2>6. /\ Len(delivered') = FlushEnd(e) - 1
        /\ \A p \in 1 .. n : delivered'[p] = delivered[p]
        /\ \A p \in (n + 1) .. Len(delivered') : delivered'[p] = Flushed(e)[p - n]
    BY <2>2, <2>5
  <2>7. ASSUME NEW p \in run
        PROVE  delivered'[p] = ByteAt(e.segments, p)
    <3>1. p - n \in 1 .. (FlushEnd(e) - e.base_offset) /\ p \in Int
      BY <2>2, <2>5
    <3>2. Flushed(e)[p - n] = ByteAt(e.segments, e.base_offset + (p - n) - 1)
      BY <3>1 DEF Flushed
    <3>3. e.base_offset + (p - n) - 1 = p
      BY <2>2, <2>5, <3>1
    <3> QED BY <2>6, <3>2, <3>3
  <2>8. ASSUME NEW p \in Covered(dir.segments)
        PROVE  p \in Covered(e.segments)
               /\ ByteAt(e.segments, p) = ByteAt(dir.segments, p)
    <3>1. PICK s \in DOMAIN dir.segments : p \in Span(dir.segments, s)
      BY CoveredBySegment
    <3>2. s \in DOMAIN e.segments /\ e.segments[s] = dir.segments[s]
      BY <2>2
    <3> QED BY <2>4, <3>1, <3>2, SharedSegment
  <2>9. ASSUME NEW p \in Covered(dir'.segments)
        PROVE  ByteAt(dir'.segments, p) = ByteAt(e.segments, p)
    <3>1. PICK s \in DOMAIN dir'.segments : p \in Span(dir'.segments, s)
      BY CoveredBySegment
    <3>2. s \in DOMAIN e.segments /\ e.segments[s] = dir'.segments[s]
      BY <2>3
    <3> QED BY <2>4, <3>1, <3>2, SharedSegment
  <2>10. run = (n + 1) .. Len(delivered')
    BY <2>6
  <2>11. FirstWinsStep
    <3>1. SUFFICES ASSUME NEW p \in Covered(dir.segments)
                   PROVE  \/ /\ p \in Covered(dir'.segments)
                             /\ ByteAt(dir'.segments, p) = ByteAt(dir.segments, p)
                          \/ /\ p \notin Covered(dir'.segments)
                             /\ p \in (n + 1) .. Len(delivered')
                             /\ delivered'[p] = ByteAt(dir.segments, p)
      BY DEF FirstWinsStep
    <3> HIDE DEF run
    <3>2. CASE p \in run
      BY <2>3, <2>7, <2>8, <2>10, <3>2
    <3>3. CASE p \notin run
      BY <2>3, <2>8, <2>9, <3>3
    <3> QED BY <3>2, <3>3
  <2> HIDE DEF run
  <2>12. \A p \in (n + 1) .. Len(delivered') : p \notin Covered(dir'.segments)
    BY <2>3, <2>10
  <2>13. n <= Len(delivered')
    BY <2>2, <2>5, <2>6
  <2> QED BY <2>6, <2>11, <2>12, <2>13 DEF PositionStep
<1> QED BY <1>1, <1>2, <1>3 DEF Next

\* A buffered byte is never replaced: it stays until it is delivered as the byte
\* of its position.
THEOREM BuffersFirstWins == Spec => FirstWins
<1>1. IInv /\ [Next]_vars => [FirstWinsStep]_vars
  BY NextPositionStep DEF PositionStep
<1> QED BY <1>1, Invariance, PTL DEF Spec, FirstWins

\* Under the invariant the refinement mapping yields a tape within the depth
\* limit: the delivered positions and the buffered ones add up to at most
\* reassembled_bytes + buffered_bytes.
LEMMA TapeIsOK == IInv => Delivery!TapeOK
<1> SUFFICES ASSUME IInv PROVE Delivery!TapeOK
  OBVIOUS
<1> DEFINE n == Len(delivered)
           ahead == {q \in Covered(dir.segments) : q >= n + 1}
<1>1. /\ dir \in DirectionType /\ BufferInv(dir)
      /\ delivered \in Seq(Byte) /\ n \in Nat /\ dir.reassembled_bytes = n
  BY DEF IInv, DirectionInv
<1>2. /\ SegMap(dir.segments) /\ Disjoint(dir.segments)
      /\ dir.buffered_bytes = Cardinality(Covered(dir.segments))
      /\ n + dir.buffered_bytes <= MaxDepth
  BY <1>1 DEF BufferInv
<1>3. IsFiniteSet(Covered(dir.segments)) /\ Covered(dir.segments) \subseteq Nat
  BY <1>2, PositionsFinite DEF Covered
<1>4. DOMAIN Tape = (1 .. n) \cup ahead
  BY DEF Tape, NextByte
<1>5. ASSUME NEW p \in DOMAIN Tape PROVE p \in Nat \ {0} /\ Tape[p] \in Byte
  <2>1. CASE p \in 1 .. n
    BY <1>1, <2>1 DEF Tape, NextByte
  <2>2. CASE p \in ahead
    <3>1. p \in Covered(dir.segments) /\ p \in Nat /\ ~(p < n + 1)
      BY <1>1, <1>3, <2>2
    <3>2. PICK s \in DOMAIN dir.segments : p \in Span(dir.segments, s)
      BY <3>1, CoveredBySegment
    <3>3. ByteAt(dir.segments, p) \in Byte
      BY <1>2, <3>2, ByteAtSegment
    <3>4. Tape[p] = ByteAt(dir.segments, p)
      BY <1>4, <3>1 DEF Tape, NextByte
    <3> QED BY <1>1, <3>1, <3>3, <3>4
  <2> QED BY <1>4, <1>5, <2>1, <2>2
<1>6. Cardinality(DOMAIN Tape) <= MaxDepth
  <2>1. IsFiniteSet(1 .. n) /\ Cardinality(1 .. n) = n
    <3> HIDE DEF n
    <3>1. 1 \in Int /\ n \in Int
      BY <1>1
    <3>2. /\ IsFiniteSet(1 .. n)
          /\ Cardinality(1 .. n) = IF 1 > n THEN 0 ELSE n - 1 + 1
      BY <3>1, FS_Interval
    <3> QED BY <1>1, <3>2
  <2>2. IsFiniteSet(ahead) /\ Cardinality(ahead) <= Cardinality(Covered(dir.segments))
    BY <1>3, FS_Subset
  <2>3. Cardinality((1 .. n) \cup ahead)
          = Cardinality(1 .. n) + Cardinality(ahead) - Cardinality((1 .. n) \cap ahead)
    BY <2>1, <2>2, FS_Union
  <2>4. Cardinality((1 .. n) \cap ahead) \in Nat /\ Cardinality(ahead) \in Nat
    BY <2>1, <2>2, FS_Intersection, FS_CardinalityType, Zenon
  <2> HIDE DEF ahead
  <2>5. Cardinality(Covered(dir.segments)) \in Nat
    BY <1>3, FS_CardinalityType
  <2> QED BY <1>1, <1>2, <1>4, <2>1, <2>2, <2>3, <2>4, <2>5, DirectionConstants
<1>7. NextByte \in Nat \ {0} /\ 1 .. (NextByte - 1) \subseteq DOMAIN Tape
  BY <1>1, <1>4 DEF NextByte
<1>8. /\ DOMAIN Tape \subseteq Nat \ {0}
      /\ \A p \in DOMAIN Tape : Tape[p] \in Byte
  BY <1>5
<1> HIDE DEF n, ahead
<1>9. Delivery!Cardinality(DOMAIN Tape) = Cardinality(DOMAIN Tape)
  BY DEF Delivery!Cardinality, Cardinality
<1> QED BY <1>6, <1>7, <1>8, <1>9, Zenon DEF Delivery!TapeOK

\* Initial states map to initial states of StreamDelivery.
LEMMA InitTape == Init => Delivery!Init
<1> SUFFICES ASSUME Init PROVE Delivery!Init
  OBVIOUS
<1>1. Len(delivered) = 0 /\ NextByte = 1
  BY DEF Init, NextByte
<1>2. DOMAIN dir.segments = {}
  BY DEF Init, NewDirection
<1>3. Covered(dir.segments) = {}
  BY <1>2 DEF Covered, Positions
<1>4. (1 .. Len(delivered)) \cup {q \in Covered(dir.segments) : q >= NextByte} = {}
  BY <1>1, <1>3
<1>5. Tape = [p \in {} |-> 0]
  BY <1>4 DEF Tape
<1> QED BY <1>1, <1>5 DEF Delivery!Init

\* Every step maps to a WriteAndRead step: a written position keeps its byte
\* whether it stays buffered or is delivered, and the read position only grows.
LEMMA StepTape ==
    IInv /\ IInv' /\ PositionStep => Delivery!WriteAndRead
<1> SUFFICES ASSUME IInv, IInv', PositionStep PROVE Delivery!WriteAndRead
  OBVIOUS
<1> DEFINE n == Len(delivered)
           m == Len(delivered')
<1>1. Delivery!TapeOK'
  BY TapeIsOK, PTL
<1>2. n \in Nat /\ m \in Nat /\ n <= m
  BY DEF IInv, PositionStep
<1>3. NextByte = n + 1 /\ NextByte' = m + 1
  BY DEF NextByte
<1>4. /\ DOMAIN Tape = (1 .. n) \cup {q \in Covered(dir.segments) : q >= n + 1}
      /\ DOMAIN Tape' = (1 .. m) \cup {q \in Covered(dir'.segments) : q >= m + 1}
  BY DEF Tape, NextByte
<1>5. Covered(dir.segments) \subseteq Nat
  BY PositionsFinite DEF IInv, DirectionInv, BufferInv, Covered
<1>6. ASSUME NEW p \in DOMAIN Tape
      PROVE  p \in DOMAIN Tape' /\ Tape'[p] = Tape[p]
  <2>1. CASE p \in 1 .. n
    <3>1. p \in 1 .. m /\ p < n + 1 /\ p < m + 1 /\ delivered'[p] = delivered[p]
      BY <1>2, <2>1 DEF PositionStep
    <3>2. p \in DOMAIN Tape'
      BY <1>4, <3>1
    <3>3. Tape[p] = delivered[p]
      BY <1>3, <3>1, <1>6 DEF Tape, NextByte
    <3>4. Tape'[p] = delivered'[p]
      BY <1>3, <3>1, <3>2 DEF Tape, NextByte
    <3> QED BY <3>1, <3>2, <3>3, <3>4
  <2>2. CASE p \notin 1 .. n
    <3>1. p \in Covered(dir.segments) /\ p >= n + 1 /\ p \in Nat
      BY <1>4, <1>5, <1>6, <2>2
    <3>2. Tape[p] = ByteAt(dir.segments, p)
      BY <1>2, <1>3, <1>6, <3>1 DEF Tape, NextByte
    <3>3. CASE /\ p \in Covered(dir'.segments)
               /\ ByteAt(dir'.segments, p) = ByteAt(dir.segments, p)
      <4>1. p >= m + 1
        BY <1>2, <3>1, <3>3 DEF PositionStep
      <4>2. p \in DOMAIN Tape'
        BY <1>4, <3>3, <4>1
      <4>3. Tape'[p] = ByteAt(dir'.segments, p)
        BY <1>2, <1>3, <3>1, <4>1, <4>2 DEF Tape, NextByte
      <4> QED BY <3>2, <3>3, <4>2, <4>3
    <3>4. CASE p \in (n + 1) .. m /\ delivered'[p] = ByteAt(dir.segments, p)
      <4>1. p \in 1 .. m /\ p < m + 1
        BY <1>2, <3>4
      <4>2. p \in DOMAIN Tape'
        BY <1>4, <4>1
      <4>3. Tape'[p] = delivered'[p]
        BY <1>3, <4>1, <4>2 DEF Tape, NextByte
      <4> QED BY <3>2, <3>4, <4>2, <4>3
    <3> QED BY <3>1, <3>3, <3>4 DEF PositionStep, FirstWinsStep
  <2> QED BY <2>1, <2>2
<1>7. NextByte' >= NextByte
  BY <1>2, <1>3
<1> QED BY <1>1, <1>6, <1>7 DEF Delivery!WriteAndRead

\* One direction of the reassembler implements the first-wins tape of
\* StreamDelivery, for every byte alphabet, window, depth and segment limit.
THEOREM Refinement == Spec => ImplementsStreamDelivery
<1>1. IInv /\ IInv' /\ [Next]_vars => [Delivery!WriteAndRead]_(Delivery!streamVars)
  BY NextPositionStep, StepTape
<1> QED BY <1>1, InitTape, Invariance, PTL
        DEF Spec, ImplementsStreamDelivery, Delivery!Spec

-----------------------------------------------------------------------------
(* The ARP analyzer                                                        *)

\* The tables with keys in K and values in V.
Tables(K, V) == UNION {[S -> V] : S \in SUBSET K}

Analyzer ==
    [ bindings : Tables(Ip, Binding), storm_counters : Tables(Mac, StormCounter),
      frames_analyzed : Nat, opcodes : [{"request_count", "reply_count", "other_opcode_count"} -> Nat],
      spoof_findings : Nat, garp_findings : Nat, storm_findings : Nat, mismatch_findings : Nat,
      malformed_findings : Nat, malformed_frames : Nat, bindings_evicted : Nat,
      storm_counters_evicted : Nat ]

Capped(table, cap) == IsFiniteSet(DOMAIN table) /\ Cardinality(DOMAIN table) <= cap

\* What holds of the analyzer between two frames, and between the stages of one.
ArpSound(a) ==
    /\ a \in Analyzer
    /\ Capped(a.bindings, MAX_ARP_BINDINGS)
    /\ Capped(a.storm_counters, MAX_STORM_COUNTERS)
    /\ \A ip \in DOMAIN a.bindings : FlapExact(a.bindings[ip])
    /\ \A mac \in DOMAIN a.storm_counters : StormExact(a.storm_counters[mac])

-----------------------------------------------------------------------------
(* Tables                                                                  *)

\* Inserting an entry keeps a table of the kind it was.
LEMMA PutTyped ==
    ASSUME NEW K, NEW V, NEW t \in Tables(K, V), NEW k \in K, NEW v \in V
    PROVE  Put(t, k, v) \in Tables(K, V)
<1>1. PICK S \in SUBSET K : t \in [S -> V]
  BY DEF Tables
<1>2. Put(t, k, v) \in [S \cup {k} -> V]
  BY <1>1 DEF Put
<1>3. S \cup {k} \in SUBSET K
  BY <1>1
<1> QED
  BY <1>2, <1>3 DEF Tables

\* Removing an entry keeps a table of the kind it was.
LEMMA DropTyped ==
    ASSUME NEW K, NEW V, NEW t \in Tables(K, V), NEW k
    PROVE  Drop(t, k) \in Tables(K, V)
<1>1. PICK S \in SUBSET K : t \in [S -> V]
  BY DEF Tables
<1>2. Drop(t, k) \in [S \ {k} -> V]
  BY <1>1 DEF Drop
<1>3. S \ {k} \in SUBSET K
  BY <1>1
<1> QED
  BY <1>2, <1>3 DEF Tables

\* The entries of a table are values, and updating one in place keeps its kind.
LEMMA UpdateTyped ==
    ASSUME NEW K, NEW V, NEW t \in Tables(K, V), NEW k \in DOMAIN t, NEW v \in V
    PROVE  /\ t[k] \in V
           /\ k \in K
           /\ [t EXCEPT ![k] = v] \in Tables(K, V)
           /\ DOMAIN [t EXCEPT ![k] = v] = DOMAIN t
           /\ [t EXCEPT ![k] = v][k] = v
           /\ \A l \in DOMAIN t \ {k} : [t EXCEPT ![k] = v][l] = t[l]
<1>1. PICK S \in SUBSET K : t \in [S -> V]
  BY DEF Tables
<1>2. [t EXCEPT ![k] = v] \in [S -> V]
  BY <1>1
<1> QED
  BY <1>1, <1>2 DEF Tables

\* A full table that gives up one entry has room for another.
LEMMA EvictThenInsert ==
    ASSUME NEW D, IsFiniteSet(D), NEW cap \in Nat \ {0}, Cardinality(D) <= cap,
           NEW victim, Cardinality(D) >= cap => victim \in D, NEW k,
           NEW R, R = IF Cardinality(D) >= cap THEN D \ {victim} ELSE D
    PROVE  IsFiniteSet(R \cup {k}) /\ Cardinality(R \cup {k}) <= cap
<1>1. Cardinality(D) \in Nat
  BY FS_CardinalityType
<1>2. IsFiniteSet(R) /\ Cardinality(R) \in Nat /\ Cardinality(R) < cap
  <2>1. CASE Cardinality(D) >= cap
    <3>1. IsFiniteSet(D \ {victim}) /\ Cardinality(D \ {victim}) = Cardinality(D) - 1
      BY <2>1, FS_RemoveElement
    <3> QED  BY <3>1, <2>1, <1>1
  <2>2. CASE ~(Cardinality(D) >= cap)
    BY <2>2, <1>1
  <2> QED  BY <2>1, <2>2
<1>3. IsFiniteSet(R \cup {k}) /\ Cardinality(R \cup {k}) \in {Cardinality(R), Cardinality(R) + 1}
  BY <1>2, FS_AddElement
<1> QED
  BY <1>2, <1>3

\* Some entry of a table that is not empty is the oldest.
LEMMA OldestExists ==
    ASSUME NEW D, D # {}, NEW ts \in [D -> Nat]
    PROVE  \E k \in D : \A l \in D : ts[k] <= ts[l]
<1> DEFINE T == {ts[k] : k \in D}
<1>1. T \in SUBSET Nat /\ T # {}
  OBVIOUS
<1>2. \E x \in T : \A y \in T : ~ (<<y, x>> \in OpToRel(<, Nat))
  <2> HIDE DEF T
  <2> QED  BY <1>1, NatLessThanWellFounded, WFMin, Zenon
<1>3. PICK k \in D : \A l \in D : ~ (<<ts[l], ts[k]>> \in OpToRel(<, Nat))
  BY <1>2, Zenon
<1>4. ASSUME NEW l \in D PROVE ts[k] <= ts[l]
  <2>1. ~ (ts[l] < ts[k])
    BY <1>3, Zenon DEF OpToRel
  <2> QED  BY <2>1
<1> QED
  BY <1>4

-----------------------------------------------------------------------------
(* The stages of process_arp                                               *)

\* Counting the frame leaves the tables alone.
LEMMA CountOpcodeSound ==
    ASSUME NEW a, ArpSound(a), NEW f \in ArpFrames
    PROVE  /\ ArpSound(CountOpcode(a, f))
           /\ CountOpcode(a, f).bindings = a.bindings
<1> DEFINE op == Opcode(f.operation)
<1>1. op \in {"request_count", "reply_count", "other_opcode_count"}
  BY DEF Opcode
<1>2. a.opcodes[op] + 1 \in Nat /\ a.frames_analyzed + 1 \in Nat
  BY <1>1 DEF ArpSound, Analyzer
<1>3. CountOpcode(a, f) \in Analyzer
  BY <1>1, <1>2, Zenon DEF ArpSound, Analyzer, CountOpcode
<1>4. /\ CountOpcode(a, f).bindings = a.bindings
      /\ CountOpcode(a, f).storm_counters = a.storm_counters
  BY DEF ArpSound, Analyzer, CountOpcode
<1> QED
  BY <1>3, <1>4 DEF ArpSound

\* Counting a mismatch of sender MAC and Ethernet source leaves the tables.
LEMMA CountMismatchSound ==
    ASSUME NEW a, ArpSound(a), NEW f \in ArpFrames
    PROVE  /\ ArpSound(CountMismatch(a, f))
           /\ CountMismatch(a, f).bindings = a.bindings
<1>1. CountMismatch(a, f) \in Analyzer
  BY DEF ArpSound, Analyzer, CountMismatch
<1>2. /\ CountMismatch(a, f).bindings = a.bindings
      /\ CountMismatch(a, f).storm_counters = a.storm_counters
  BY DEF ArpSound, Analyzer, CountMismatch
<1> QED
  BY <1>1, <1>2 DEF ArpSound

\* The rate of the sender is counted in its window, or in a new one that takes the
\* place of the oldest when the table is full.
LEMMA CountFrameSound ==
    ASSUME NEW a, ArpSound(a), NEW mac \in Mac, NEW ts \in Nat,
           NEW victim \in Victims(OldestCounters(a.storm_counters))
    PROVE  /\ ArpSound(CountFrame(a, mac, ts, victim))
           /\ CountFrame(a, mac, ts, victim).bindings = a.bindings
           /\ mac \in DOMAIN CountFrame(a, mac, ts, victim).storm_counters
<1> DEFINE c == a.storm_counters
           n == CountFrame(a, mac, ts, victim)
<1>1. /\ a \in Analyzer
      /\ c \in Tables(Mac, StormCounter)
      /\ Capped(c, MAX_STORM_COUNTERS)
      /\ \A m \in DOMAIN c : StormExact(c[m])
  BY DEF ArpSound, Analyzer
<1>2. CASE InStormWindow(a, mac, ts)
  <2> DEFINE e == [c[mac] EXCEPT !.count_in_window = @ + 1]
  <2>1. mac \in DOMAIN c
    BY <1>2 DEF InStormWindow
  <2>2. c[mac] \in StormCounter
    BY <1>1, <2>1 DEF Tables
  <2>3. e \in StormCounter
    BY <2>2 DEF StormCounter
  <2>4. StormExact(e)
    BY <1>1, <2>1, <2>2, ArpAssumption DEF StormExact, StormCounter
  <2>5. n = [a EXCEPT !.storm_counters = [c EXCEPT ![mac] = e]]
    BY <1>2, <1>1, <2>1, <2>2 DEF CountFrame, Analyzer, StormCounter
  <2> HIDE DEF e, n
  <2>6. /\ [c EXCEPT ![mac] = e] \in Tables(Mac, StormCounter)
        /\ DOMAIN [c EXCEPT ![mac] = e] = DOMAIN c
        /\ [c EXCEPT ![mac] = e][mac] = e
        /\ \A l \in DOMAIN c \ {mac} : [c EXCEPT ![mac] = e][l] = c[l]
    BY <1>1, <2>1, <2>3, UpdateTyped
  <2>7. n \in Analyzer /\ n.bindings = a.bindings /\ n.storm_counters = [c EXCEPT ![mac] = e]
    BY <1>1, <2>5, <2>6 DEF Analyzer
  <2> QED
    BY <1>1, <2>1, <2>4, <2>6, <2>7 DEF ArpSound, Capped, n
<1>3. CASE ~InStormWindow(a, mac, ts)
  <2> DEFINE full == mac \notin DOMAIN c /\ Cardinality(DOMAIN c) >= MAX_STORM_COUNTERS
             room == IF full THEN Drop(c, victim) ELSE c
             e == [count_in_window |-> 1, window_start_ts |-> ts, storm_emitted |-> FALSE]
             t == Put(room, mac, e)
  <2>1. n = [a EXCEPT !.storm_counters = t,
                      !.storm_counters_evicted = @ + (IF full THEN 1 ELSE 0)]
    BY <1>3 DEF CountFrame, InsertStormCounterLru
  <2>2. e \in StormCounter /\ StormExact(e)
    BY ArpAssumption DEF StormCounter, StormExact
  <2>3. /\ room \in Tables(Mac, StormCounter)
        /\ DOMAIN room = IF full THEN DOMAIN c \ {victim} ELSE DOMAIN c
        /\ \A l \in DOMAIN room : room[l] = c[l]
    <3>1. Drop(c, victim) \in Tables(Mac, StormCounter)
      BY <1>1, DropTyped
    <3> QED  BY <1>1, <3>1 DEF Drop
  <2>4. full => victim \in DOMAIN c
    <3> SUFFICES ASSUME full PROVE victim \in DOMAIN c
      OBVIOUS
    <3>1. DOMAIN c # {}
      BY <1>1, FS_EmptySet, ArpAssumption DEF Capped
    <3>2. [k \in DOMAIN c |-> c[k].window_start_ts] \in [DOMAIN c -> Nat]
      BY <1>1, UpdateTyped DEF StormCounter, Tables
    <3>3. \E k \in DOMAIN c : \A l \in DOMAIN c :
             [m \in DOMAIN c |-> c[m].window_start_ts][k] <= [m \in DOMAIN c |-> c[m].window_start_ts][l]
      <4> HIDE DEF c
      <4> QED  BY <3>1, <3>2, OldestExists, Zenon
    <3>4. OldestCounters(c) # {}
      BY <3>3, Zenon DEF OldestCounters
    <3> QED
      BY <3>4 DEF Victims, OldestCounters
  <2> HIDE DEF e, room
  <2>5. /\ t \in Tables(Mac, StormCounter)
        /\ DOMAIN t = DOMAIN room \cup {mac}
        /\ t[mac] = e
        /\ \A l \in DOMAIN room \ {mac} : t[l] = room[l]
    <3>1. t \in Tables(Mac, StormCounter)
      BY <2>2, <2>3, PutTyped
    <3> QED  BY <3>1 DEF Put
  <2>6. Capped(t, MAX_STORM_COUNTERS)
    <3>1. CASE mac \in DOMAIN c
      <4>1. DOMAIN t = DOMAIN c
        BY <3>1, <2>3, <2>5
      <4> QED  BY <4>1, <1>1 DEF Capped
    <3>2. CASE mac \notin DOMAIN c
      <4>1. DOMAIN room = IF Cardinality(DOMAIN c) >= MAX_STORM_COUNTERS THEN DOMAIN c \ {victim} ELSE DOMAIN c
        BY <3>2, <2>3
      <4>2. IsFiniteSet(DOMAIN room \cup {mac}) /\ Cardinality(DOMAIN room \cup {mac}) <= MAX_STORM_COUNTERS
        BY <4>1, <2>4, <3>2, <1>1, EvictThenInsert, ArpAssumption, Zenon DEF Capped
      <4> QED  BY <4>2, <2>5 DEF Capped
    <3> QED  BY <3>1, <3>2
  <2> HIDE DEF t, n, full
  <2>7. n \in Analyzer /\ n.bindings = a.bindings /\ n.storm_counters = t
    <3>1. a.storm_counters_evicted + (IF full THEN 1 ELSE 0) \in Nat
      BY <1>1 DEF Analyzer
    <3> QED  BY <1>1, <2>1, <2>5, <3>1, Zenon DEF Analyzer
  <2>8. \A m \in DOMAIN t : StormExact(t[m])
    BY <1>1, <2>2, <2>3, <2>5
  <2> QED
    BY <2>5, <2>6, <2>7, <2>8 DEF ArpSound, n
<1> QED
  BY <1>2, <1>3

\* A storm is marked with no fewer frames than the rate.
LEMMA MarkStormSound ==
    ASSUME NEW a, ArpSound(a), NEW ts \in Nat, NEW mac \in DOMAIN a.storm_counters
    PROVE  /\ ArpSound(MarkStorm(a, mac, ts))
           /\ MarkStorm(a, mac, ts).bindings = a.bindings
<1> DEFINE c == a.storm_counters
           n == MarkStorm(a, mac, ts)
           e == [c[mac] EXCEPT !.storm_emitted = TRUE]
<1> SUFFICES ASSUME Storms(a, mac, ts) PROVE ArpSound(n) /\ n.bindings = a.bindings
  BY DEF MarkStorm
<1>1. /\ a \in Analyzer
      /\ c \in Tables(Mac, StormCounter)
      /\ Capped(c, MAX_STORM_COUNTERS)
      /\ \A m \in DOMAIN c : StormExact(c[m])
  BY DEF ArpSound, Analyzer
<1>2. c[mac] \in StormCounter
  BY <1>1 DEF Tables
<1>3. c[mac].count_in_window >= storm_rate
  <2> DEFINE elapsed == Since(ts, c[mac].window_start_ts)
             factor  == IF elapsed > 1 THEN elapsed ELSE 1
  <2>1. elapsed \in Nat
    BY <1>2 DEF StormCounter, Since
  <2>2. factor \in Nat /\ factor >= 1
    BY <2>1
  <2>3. c[mac].count_in_window >= storm_rate * factor
    BY DEF Storms, RateReached
  <2> HIDE DEF factor
  <2>4. storm_rate * factor >= storm_rate
    BY <2>2, ArpAssumption
  <2>5. storm_rate * factor \in Nat /\ c[mac].count_in_window \in Nat
    BY <2>2, <1>2, ArpAssumption DEF StormCounter
  <2> QED
    BY <2>3, <2>4, <2>5, ArpAssumption
<1>4. e \in StormCounter /\ StormExact(e)
  BY <1>1, <1>2, <1>3, Zenon DEF StormCounter, StormExact
<1>5. n = [a EXCEPT !.storm_counters = [c EXCEPT ![mac] = e], !.storm_findings = @ + 1]
  BY <1>1, <1>2 DEF MarkStorm, Analyzer, StormCounter
<1> HIDE DEF e, n
<1>6. [c EXCEPT ![mac] = e] \in Tables(Mac, StormCounter)
  BY <1>1, <1>4, UpdateTyped
<1>7. n \in Analyzer /\ n.bindings = a.bindings /\ n.storm_counters = [c EXCEPT ![mac] = e]
  <2>1. a.storm_findings + 1 \in Nat
    BY <1>1 DEF Analyzer
  <2> QED  BY <1>1, <1>5, <1>6, <2>1, Zenon DEF Analyzer
<1> QED
  BY <1>1, <1>4, <1>7 DEF ArpSound, Capped

\* Counting a rebind keeps the flap window of the binding exact.
LEMMA EmitD1Exact ==
    ASSUME NEW e \in Binding, FlapExact(e), NEW ts \in Nat
    PROVE  EmitD1(e, ts) \in Binding /\ FlapExact(EmitD1(e, ts))
<1> DEFINE o == IF FlapExpired(e, ts) THEN FreshFlap(e) ELSE e
           c == CountRebind(e, ts)
<1>1. /\ o \in Binding /\ FlapExact(o)
      /\ o.first_rebind_ts # None => Since(ts, o.first_rebind_ts) <= ARP_FLAP_WINDOW_SECS
  <2>1. CASE FlapExpired(e, ts)
    <3>1. o = [e EXCEPT !.rebind_count = 0, !.first_rebind_ts = None, !.spoof_high_emitted = FALSE]
      BY <2>1 DEF FreshFlap
    <3>2. o \in Binding
      <4> HIDE DEF o
      <4>1. 0 \in Nat /\ None \in Nat \cup {None} /\ FALSE \in BOOLEAN
        OBVIOUS
      <4> QED  BY <3>1, <4>1, Zenon DEF Binding
    <3>3. o.rebind_count = 0 /\ o.first_rebind_ts = None /\ o.spoof_high_emitted = FALSE
      BY <3>1, Zenon DEF Binding
    <3> QED  BY <3>2, <3>3, ArpAssumption DEF FlapExact
  <2>2. CASE ~FlapExpired(e, ts)
    <3>1. e.first_rebind_ts # None => Since(ts, e.first_rebind_ts) \in Nat
      BY DEF Since, Binding
    <3> QED  BY <2>2, <3>1, ArpAssumption DEF FlapExpired, Binding
  <2> QED  BY <2>1, <2>2
<1> HIDE DEF o
<1>2. c = [o EXCEPT !.rebind_count = @ + 1, !.first_rebind_ts = IF @ = None THEN ts ELSE @]
  BY DEF CountRebind, o
<1>3. /\ c \in Binding
      /\ c.rebind_count = o.rebind_count + 1
      /\ c.first_rebind_ts # None
      /\ c.spoof_high_emitted = o.spoof_high_emitted
  <2>1. o.rebind_count + 1 \in Nat /\ (IF o.first_rebind_ts = None THEN ts ELSE o.first_rebind_ts) \in Nat
    BY <1>1 DEF Binding
  <2>2. c \in Binding
    BY <1>1, <1>2, <2>1, Zenon DEF Binding
  <2>3. /\ c.rebind_count = o.rebind_count + 1
        /\ c.first_rebind_ts = IF o.first_rebind_ts = None THEN ts ELSE o.first_rebind_ts
        /\ c.spoof_high_emitted = o.spoof_high_emitted
    BY <1>1, <1>2 DEF Binding
  <2> QED  BY <2>1, <2>2, <2>3 DEF None
<1>4. Since(ts, c.first_rebind_ts) <= ARP_FLAP_WINDOW_SECS
  <2>1. c.first_rebind_ts = IF o.first_rebind_ts = None THEN ts ELSE o.first_rebind_ts
    BY <1>1, <1>2 DEF Binding
  <2> QED  BY <1>1, <2>1, ArpAssumption DEF Since
<1> HIDE DEF c
<1>5. EmitD1(e, ts) = [c EXCEPT !.spoof_high_emitted = @ \/ Escalates(c, ts)]
  BY DEF EmitD1, c
<1>6. Escalates(c, ts) <=> (c.rebind_count >= spoof_threshold /\ ~c.spoof_high_emitted)
  BY <1>4 DEF Escalates
<1>7. c.spoof_high_emitted => c.rebind_count >= spoof_threshold
  BY <1>1, <1>3, ArpAssumption DEF FlapExact, Binding
<1>8. Escalates(c, ts) \in BOOLEAN /\ c.spoof_high_emitted \in BOOLEAN
  BY <1>3 DEF Escalates, Binding
<1>9. /\ EmitD1(e, ts) \in Binding
      /\ EmitD1(e, ts).rebind_count = c.rebind_count
      /\ EmitD1(e, ts).first_rebind_ts = c.first_rebind_ts
      /\ EmitD1(e, ts).spoof_high_emitted = (c.spoof_high_emitted \/ Escalates(c, ts))
  BY <1>3, <1>5, <1>8 DEF Binding
<1>10. c.rebind_count > 0
  BY <1>1, <1>3 DEF Binding
<1> QED
  BY <1>3, <1>6, <1>7, <1>9, <1>10, Zenon DEF FlapExact

\* What a frame may do to the bindings: the sender's is current, others are as they
\* were or gone.
Rebound(b, n, f) ==
    /\ f.sender_ip \in DOMAIN n.bindings
    /\ n.bindings[f.sender_ip].mac = f.sender_mac
    /\ \A ip \in DOMAIN n.bindings \ {f.sender_ip} : ip \in DOMAIN b /\ n.bindings[ip] = b[ip]

\* An exact entry may take the place of another.
LEMMA SetEntrySound ==
    ASSUME NEW a, ArpSound(a), NEW ip \in DOMAIN a.bindings, NEW e \in Binding, FlapExact(e)
    PROVE  ArpSound([a EXCEPT !.bindings = [a.bindings EXCEPT ![ip] = e]])
<1> DEFINE b == a.bindings
           n == [a EXCEPT !.bindings = [b EXCEPT ![ip] = e]]
<1>1. /\ a \in Analyzer
      /\ b \in Tables(Ip, Binding)
      /\ Capped(b, MAX_ARP_BINDINGS)
      /\ \A k \in DOMAIN b : FlapExact(b[k])
  BY DEF ArpSound, Analyzer
<1>2. [b EXCEPT ![ip] = e] \in Tables(Ip, Binding)
  BY <1>1, UpdateTyped
<1>3. n \in Analyzer /\ n.bindings = [b EXCEPT ![ip] = e] /\ n.storm_counters = a.storm_counters
  BY <1>1, <1>2 DEF Analyzer
<1> QED
  BY <1>1, <1>3 DEF ArpSound, Capped

\* Refreshing last_seen of a binding keeps the analyzer sound.
LEMMA TouchSound ==
    ASSUME NEW a, ArpSound(a), NEW f \in ArpFrames, NEW ts \in Nat, f.sender_ip \in DOMAIN a.bindings
    PROVE  ArpSound(Touch(a, f, ts)) /\ Rebound(a.bindings, Touch(a, f, ts), f)
<1> DEFINE ip == f.sender_ip
           b == a.bindings
           e == [b[ip] EXCEPT !.last_seen_ts = ts, !.mac = f.sender_mac]
           n == Touch(a, f, ts)
<1>1. a \in Analyzer /\ b[ip] \in Binding /\ FlapExact(b[ip])
  BY DEF ArpSound, Analyzer, Tables
<1>2. e \in Binding /\ e.mac = f.sender_mac
  BY <1>1, Zenon DEF Binding, ArpFrames
<1>3. FlapExact(e)
  BY <1>1 DEF FlapExact, Binding
<1>4. n = [a EXCEPT !.bindings = [b EXCEPT ![ip] = e]]
  BY <1>1, Zenon DEF Touch, Analyzer, Binding
<1> HIDE DEF e, n
<1>5. ArpSound(n)
  BY <1>2, <1>3, <1>4, SetEntrySound
<1>6. n.bindings = [b EXCEPT ![ip] = e]
  BY <1>1, <1>4 DEF Analyzer
<1> QED
  BY <1>2, <1>5, <1>6 DEF Rebound, n

\* A rebind is counted in the window of the binding, which then has the new MAC.
LEMMA RebindSound ==
    ASSUME NEW a, ArpSound(a), NEW f \in ArpFrames, NEW ts \in Nat, f.sender_ip \in DOMAIN a.bindings
    PROVE  ArpSound(Rebind(a, f, ts)) /\ Rebound(a.bindings, Rebind(a, f, ts), f)
<1> DEFINE ip == f.sender_ip
           b == a.bindings
           e == EmitD1(b[ip], ts)
           c == [a EXCEPT !.spoof_findings = @ + 1]
           m == [c EXCEPT !.bindings = [c.bindings EXCEPT ![ip] = e]]
<1>1. a \in Analyzer /\ b[ip] \in Binding /\ FlapExact(b[ip])
  BY DEF ArpSound, Analyzer, Tables
<1>2. e \in Binding /\ FlapExact(e)
  BY <1>1, EmitD1Exact
<1>3. ArpSound(c) /\ c.bindings = b
  <2>1. a.spoof_findings + 1 \in Nat
    BY <1>1 DEF Analyzer
  <2>2. c \in Analyzer /\ c.bindings = b /\ c.storm_counters = a.storm_counters
    BY <1>1, <2>1 DEF Analyzer
  <2> QED  BY <2>2 DEF ArpSound
<1>4. Rebind(a, f, ts) = Touch(m, f, ts)
  BY <1>1, Zenon DEF Rebind, Analyzer
<1> HIDE DEF c, e
<1>5. ArpSound(m)
  BY <1>2, <1>3, SetEntrySound
<1>6. m.bindings = [b EXCEPT ![ip] = e]
  BY <1>3 DEF ArpSound, Analyzer
<1> HIDE DEF m
<1>7. ArpSound(Touch(m, f, ts)) /\ Rebound(m.bindings, Touch(m, f, ts), f)
  BY <1>5, <1>6, TouchSound
<1> QED
  BY <1>4, <1>6, <1>7 DEF Rebound

\* A new IP takes the place of the oldest when the table is full.
LEMMA InsertBindingSound ==
    ASSUME NEW a, ArpSound(a), NEW f \in ArpFrames, f.sender_ip \in Ip, f.sender_ip \notin DOMAIN a.bindings,
           NEW victim \in Victims(OldestBindings(a.bindings))
    PROVE  LET n == InsertBindingLru(a, f.sender_ip, f.sender_mac, victim)
           IN  /\ ArpSound(n)
               /\ f.sender_ip \in DOMAIN n.bindings
               /\ \A ip \in DOMAIN n.bindings \ {f.sender_ip} :
                      ip \in DOMAIN a.bindings /\ n.bindings[ip] = a.bindings[ip]
<1> DEFINE ip == f.sender_ip
           b == a.bindings
           full == BindingsFull(a)
           room == IF full THEN Drop(b, victim) ELSE b
           e == NewBinding(f.sender_mac)
           t == Put(room, ip, e)
           n == InsertBindingLru(a, ip, f.sender_mac, victim)
<1>1. /\ a \in Analyzer
      /\ b \in Tables(Ip, Binding)
      /\ Capped(b, MAX_ARP_BINDINGS)
      /\ \A k \in DOMAIN b : FlapExact(b[k])
  BY Zenon DEF ArpSound, Analyzer
<1>2. n = [a EXCEPT !.bindings = t, !.bindings_evicted = @ + (IF full THEN 1 ELSE 0)]
  BY DEF InsertBindingLru
<1>3. e \in Binding /\ FlapExact(e)
  BY ArpAssumption DEF NewBinding, Binding, FlapExact, ArpFrames
<1>4. /\ room \in Tables(Ip, Binding)
      /\ DOMAIN room = IF full THEN DOMAIN b \ {victim} ELSE DOMAIN b
      /\ \A l \in DOMAIN room : room[l] = b[l]
  <2>1. Drop(b, victim) \in Tables(Ip, Binding)
    BY <1>1, DropTyped
  <2> QED  BY <1>1, <2>1 DEF Drop
<1>5. full => victim \in DOMAIN b
  <2> SUFFICES ASSUME full PROVE victim \in DOMAIN b
    OBVIOUS
  <2>1. DOMAIN b # {}
    BY <1>1, FS_EmptySet, ArpAssumption DEF Capped, BindingsFull
  <2>2. [k \in DOMAIN b |-> b[k].last_seen_ts] \in [DOMAIN b -> Nat]
    BY <1>1, UpdateTyped DEF Binding, Tables
  <2>3. \E k \in DOMAIN b : \A l \in DOMAIN b :
           [m \in DOMAIN b |-> b[m].last_seen_ts][k] <= [m \in DOMAIN b |-> b[m].last_seen_ts][l]
    <3> HIDE DEF b
    <3> QED  BY <2>1, <2>2, OldestExists, Zenon
  <2>4. OldestBindings(b) # {}
    BY <2>3, Zenon DEF OldestBindings
  <2> QED
    BY <2>4 DEF Victims, OldestBindings
<1> HIDE DEF e, room
<1>6. /\ t \in Tables(Ip, Binding)
      /\ DOMAIN t = DOMAIN room \cup {ip}
      /\ t[ip] = e
      /\ \A l \in DOMAIN room \ {ip} : t[l] = room[l]
  <2>1. t \in Tables(Ip, Binding)
    BY <1>3, <1>4, PutTyped
  <2> QED  BY <2>1, Zenon DEF Put
<1>7. Capped(t, MAX_ARP_BINDINGS)
  <2>1. DOMAIN room = IF Cardinality(DOMAIN b) >= MAX_ARP_BINDINGS THEN DOMAIN b \ {victim} ELSE DOMAIN b
    BY <1>4 DEF BindingsFull
  <2>2. IsFiniteSet(DOMAIN room \cup {ip}) /\ Cardinality(DOMAIN room \cup {ip}) <= MAX_ARP_BINDINGS
    BY <2>1, <1>1, <1>5, EvictThenInsert, ArpAssumption, Zenon DEF Capped, BindingsFull
  <2> QED  BY <2>2, <1>6 DEF Capped
<1> HIDE DEF t, n, full
<1>8. n \in Analyzer /\ n.bindings = t /\ n.storm_counters = a.storm_counters
  <2>1. a.bindings_evicted + (IF full THEN 1 ELSE 0) \in Nat
    BY <1>1 DEF Analyzer
  <2> QED  BY <1>1, <1>2, <1>6, <2>1, Zenon DEF Analyzer
<1>9. \A k \in DOMAIN t : FlapExact(t[k])
  BY <1>1, <1>3, <1>4, <1>6
<1>10. ArpSound(n)
  BY <1>7, <1>8, <1>9 DEF ArpSound
<1> QED
  BY <1>4, <1>6, <1>8, <1>10 DEF n

\* The bindings after a frame of an address that is tracked.
LEMMA UpdateBindingSound ==
    ASSUME NEW a, ArpSound(a), NEW f \in ArpFrames, f.sender_ip \in Ip, NEW ts \in Nat,
           NEW victim \in Victims(OldestBindings(a.bindings))
    PROVE  /\ ArpSound(UpdateBinding(a, f, ts, victim))
           /\ Rebound(a.bindings, UpdateBinding(a, f, ts, victim), f)
<1> DEFINE told == [a EXCEPT !.garp_findings = @ + (IF Gratuitous(f) THEN 1 ELSE 0)]
           n == UpdateBinding(a, f, ts, victim)
<1>1. ArpSound(told) /\ told.bindings = a.bindings
  <2>1. a \in Analyzer /\ a.garp_findings + (IF Gratuitous(f) THEN 1 ELSE 0) \in Nat
    BY SMTT(30) DEF ArpSound, Analyzer
  <2>2. told \in Analyzer /\ told.bindings = a.bindings /\ told.storm_counters = a.storm_counters
    BY <2>1 DEF Analyzer
  <2> QED  BY <2>2 DEF ArpSound
<1>2. n = IF Conflict(a, f) THEN Rebind(told, f, ts) ELSE Learn(told, f, ts, victim)
  BY DEF UpdateBinding
<1> HIDE DEF told, n
<1>3. CASE Conflict(a, f)
  BY <1>1, <1>2, <1>3, RebindSound DEF Conflict, n
<1>4. CASE ~Conflict(a, f) /\ f.sender_ip \in DOMAIN a.bindings
  BY <1>1, <1>2, <1>4, TouchSound DEF Learn, n
<1>5. CASE ~Conflict(a, f) /\ f.sender_ip \notin DOMAIN a.bindings
  <2> DEFINE m == InsertBindingLru(told, f.sender_ip, f.sender_mac, victim)
  <2>1. /\ ArpSound(m)
        /\ f.sender_ip \in DOMAIN m.bindings
        /\ \A ip \in DOMAIN m.bindings \ {f.sender_ip} :
               ip \in DOMAIN a.bindings /\ m.bindings[ip] = a.bindings[ip]
    BY <1>1, <1>5, InsertBindingSound, SMTT(30)
  <2>2. n = Touch(m, f, ts)
    BY <1>1, <1>2, <1>5 DEF Learn
  <2> HIDE DEF m
  <2>3. ArpSound(Touch(m, f, ts)) /\ Rebound(m.bindings, Touch(m, f, ts), f)
    BY <2>1, TouchSound
  <2> QED
    BY <2>1, <2>2, <2>3 DEF Rebound, n
<1> QED
  BY <1>3, <1>4, <1>5, Zenon

\* process_arp as a whole.
LEMMA ProcessArpSound ==
    ASSUME NEW a, ArpSound(a), NEW f \in ArpFrames, NEW ts \in Nat,
           NEW bv \in Victims(OldestBindings(a.bindings)),
           NEW cv \in Victims(OldestCounters(a.storm_counters))
    PROVE  /\ ArpSound(ProcessArp(a, f, ts, bv, cv))
           /\ f.sender_ip \in FilteredIp => ProcessArp(a, f, ts, bv, cv).bindings = a.bindings
           /\ f.sender_ip \notin FilteredIp => Rebound(a.bindings, ProcessArp(a, f, ts, bv, cv), f)
<1> DEFINE counted == CountOpcode(a, f)
           checked == CountMismatch(counted, f)
           rated   == CountFrame(checked, f.sender_mac, ts, cv)
           marked  == MarkStorm(rated, f.sender_mac, ts)
<1>1. ArpSound(counted) /\ counted.bindings = a.bindings
  BY CountOpcodeSound
<1>2. CASE f.sender_ip \in FilteredIp
  BY <1>1, <1>2 DEF ProcessArp
<1>3. CASE f.sender_ip \notin FilteredIp
  <2>1. ArpSound(checked) /\ checked.bindings = a.bindings
    BY <1>1, CountMismatchSound
  <2>2. cv \in Victims(OldestCounters(checked.storm_counters))
    BY DEF ArpSound, Analyzer, CountMismatch, CountOpcode
  <2>3. f.sender_mac \in Mac /\ f.sender_ip \in Ip
    BY <1>3 DEF ArpFrames
  <2> HIDE DEF checked
  <2>4. /\ ArpSound(rated) /\ rated.bindings = a.bindings
        /\ f.sender_mac \in DOMAIN rated.storm_counters
    BY <2>1, <2>2, <2>3, CountFrameSound
  <2> HIDE DEF rated
  <2>5. ArpSound(marked) /\ marked.bindings = a.bindings
    BY <2>4, MarkStormSound
  <2>6. ProcessArp(a, f, ts, bv, cv) = UpdateBinding(marked, f, ts, bv)
    BY <1>3 DEF ProcessArp, checked, rated
  <2> HIDE DEF marked
  <2> QED
    BY <1>3, <2>3, <2>5, <2>6, UpdateBindingSound
<1> QED
  BY <1>2, <1>3

\* A malformed frame leaves the tables alone.
LEMMA RecordMalformedSound ==
    ASSUME NEW a, ArpSound(a)
    PROVE  ArpSound(RecordMalformed(a)) /\ RecordMalformed(a).bindings = a.bindings
<1> DEFINE n == RecordMalformed(a)
<1>1. a \in Analyzer /\ a.malformed_frames + 1 \in Nat /\ a.malformed_findings + 1 \in Nat
  BY DEF ArpSound, Analyzer
<1>2. n \in Analyzer /\ n.bindings = a.bindings /\ n.storm_counters = a.storm_counters
  BY <1>1, Zenon DEF Analyzer, RecordMalformed
<1> QED
  BY <1>2 DEF ArpSound

-----------------------------------------------------------------------------
(* The behaviour                                                           *)

ArpFinding == [kind : {"D1", "D2", "D3", "D11", "D12"}, ip : Ip \cup FilteredIp \cup Mac \cup {NoMac}, high : BOOLEAN]

\* The inductive invariant: the tables are sound, and every tracked IP has been
\* announced, last with the MAC it is bound to.
ArpInv ==
    /\ ArpSound(ar)
    /\ arWire \in ArpCapture
    /\ arFound \in Seq(ArpFinding)
    /\ DOMAIN ar.bindings \subseteq DOMAIN arSeen.last
    /\ ArpBindingsCurrent

\* The findings of a frame are a sequence, which ends with the rebind if there is one.
LEMMA FindingsEndWithRebind ==
    ASSUME NEW a, NEW f \in ArpFrames, NEW ts, NEW cv
    PROVE  /\ ArpFindings(a, f, ts, cv) \in Seq(ArpFinding)
           /\ f.sender_ip \notin FilteredIp /\ Conflict(a, f)
                 => \E s \in Seq(ArpFinding) :
                       ArpFindings(a, f, ts, cv) = s \o <<D1(f.sender_ip, a.bindings[f.sender_ip], ts)>>
<1> DEFINE d  == D1(f.sender_ip, a.bindings[f.sender_ip], ts)
           only(condition, finding) == IF condition THEN <<finding>> ELSE <<>>
           rated == CountFrame(a, f.sender_mac, ts, cv)
           x == only(Mismatch(f), Note("D12", f.sender_ip))
           y == only(Storms(rated, f.sender_mac, ts), Note("D3", f.sender_mac))
           z == only(Gratuitous(f), Note("D2", f.sender_ip))
<1>1. d \in ArpFinding
  <2>1. f.sender_ip \in Ip \cup FilteredIp \cup Mac \cup {NoMac}
    BY DEF ArpFrames
  <2>2. Escalates(CountRebind(a.bindings[f.sender_ip], ts), ts) \in BOOLEAN
    BY DEF Escalates
  <2> QED  BY <2>1, <2>2 DEF D1, ArpFinding
<1>2. /\ Note("D12", f.sender_ip) \in ArpFinding
      /\ Note("D3", f.sender_mac) \in ArpFinding
      /\ Note("D2", f.sender_ip) \in ArpFinding
  BY DEF Note, ArpFinding, ArpFrames
<1>3. x \in Seq(ArpFinding) /\ y \in Seq(ArpFinding) /\ z \in Seq(ArpFinding)
  BY <1>2, SMTT(30)
<1>4. ArpFindings(a, f, ts, cv) =
        IF f.sender_ip \in FilteredIp THEN <<>>
        ELSE x \o y \o z \o (IF Conflict(a, f) THEN <<d>> ELSE <<>>)
  BY DEF ArpFindings
<1> HIDE DEF x, y, z, d
<1>5. x \o y \o z \in Seq(ArpFinding)
  BY <1>3
<1>6. x \o y \o z \o <<d>> \in Seq(ArpFinding) /\ x \o y \o z \o <<>> \in Seq(ArpFinding)
  BY <1>1, <1>5
<1>7. ArpFindings(a, f, ts, cv) \in Seq(ArpFinding)
  BY <1>4, <1>6
<1>8. f.sender_ip \notin FilteredIp /\ Conflict(a, f) => ArpFindings(a, f, ts, cv) = (x \o y \o z) \o <<d>>
  BY <1>4
<1> QED
  BY <1>5, <1>7, <1>8, Zenon DEF d

\* ArpAnalyzer::new starts sound.
LEMMA ArpInvInit == ArpInit => ArpInv
<1> SUFFICES ASSUME ArpInit PROVE ArpInv
  OBVIOUS
<1>1. /\ ar.bindings = [k \in {} |-> NewBinding(NoMac)]
      /\ ar.storm_counters = [k \in {} |-> 0]
  BY DEF ArpInit, NewArp
<1>2. ar.bindings \in Tables(Ip, Binding) /\ ar.storm_counters \in Tables(Mac, StormCounter)
  <2>1. ar.bindings \in [{} -> Binding] /\ ar.storm_counters \in [{} -> StormCounter]
    BY <1>1
  <2>2. {} \in SUBSET Ip /\ {} \in SUBSET Mac
    OBVIOUS
  <2> QED  BY <2>1, <2>2 DEF Tables
<1>3. ar \in Analyzer
  BY <1>2 DEF ArpInit, NewArp, Analyzer
<1>4. DOMAIN ar.bindings = {} /\ DOMAIN ar.storm_counters = {}
  BY <1>1
<1>5. Capped(ar.bindings, MAX_ARP_BINDINGS) /\ Capped(ar.storm_counters, MAX_STORM_COUNTERS)
  BY <1>4, FS_EmptySet, ArpAssumption DEF Capped
<1>6. ArpSound(ar)
  BY <1>3, <1>4, <1>5 DEF ArpSound
<1> QED
  BY <1>4, <1>6 DEF ArpInit, ArpInv, ArpBindingsCurrent

\* Every frame, malformed or not, leaves the analyzer sound.
LEMMA ArpInvStep == ArpInv /\ [ArpNext]_arVars => ArpInv'
<1> SUFFICES ASSUME ArpInv, [ArpNext]_arVars PROVE ArpInv'
  OBVIOUS
<1>1. CASE UNCHANGED arVars
  BY <1>1 DEF ArpInv, ArpBindingsCurrent, arVars
<1>2. CASE ArpMalformed
  <2>1. ArpSound(ar') /\ ar'.bindings = ar.bindings
    BY <1>2, RecordMalformedSound DEF ArpInv, ArpMalformed
  <2>2. Note("D11", NoMac) \in ArpFinding
    BY DEF Note, ArpFinding
  <2> QED
    BY <1>2, <2>1, <2>2 DEF ArpInv, ArpMalformed, ArpBindingsCurrent
<1>3. ASSUME NEW f \in arWire.frames, NEW ts \in arWire.times, ArpFrame(f, ts)
      PROVE  ArpInv'
  <2>1. f \in ArpFrames /\ ts \in Nat
    BY ArpAssumption DEF ArpInv
  <2>2. PICK bv \in Victims(OldestBindings(ar.bindings)), cv \in Victims(OldestCounters(ar.storm_counters)) :
           /\ ar' = ProcessArp(ar, f, ts, bv, cv)
           /\ arFound' = arFound \o ArpFindings(ar, f, ts, cv)
    BY <1>3 DEF ArpFrame
  <2>3. /\ ArpSound(ar')
        /\ f.sender_ip \in FilteredIp => ar'.bindings = ar.bindings
        /\ f.sender_ip \notin FilteredIp => Rebound(ar.bindings, ar', f)
    BY <2>1, <2>2, ProcessArpSound DEF ArpInv
  <2>4. arFound' \in Seq(ArpFinding)
    <3>1. ArpFindings(ar, f, ts, cv) \in Seq(ArpFinding)
      BY <2>1, FindingsEndWithRebind, ZenonT(30)
    <3> QED  BY <2>2, <3>1, SMTT(30) DEF ArpInv
  <2>5. DOMAIN ar'.bindings \subseteq DOMAIN arSeen'.last /\ ArpBindingsCurrent'
    <3>1. CASE f.sender_ip \in FilteredIp
      BY <1>3, <2>3, <3>1, ZenonT(30) DEF ArpFrame, ArpInv, ArpBindingsCurrent
    <3>2. CASE f.sender_ip \notin FilteredIp
      <4>1. arSeen'.last = Put(arSeen.last, f.sender_ip, f.sender_mac)
        BY <1>3, <3>2, Zenon DEF ArpFrame
      <4> QED
        BY <2>3, <3>2, <4>1, ZenonT(30) DEF ArpInv, ArpBindingsCurrent, Rebound, Put
    <3> QED  BY <3>1, <3>2
  <2> QED
    BY <1>3, <2>3, <2>4, <2>5, ZenonT(30) DEF ArpInv, ArpFrame
<1> QED
  BY <1>1, <1>2, <1>3 DEF ArpNext

\* process_arp keeps both tables within their caps, through every order of frames,
\* evictions and clock jumps, whatever the caps are.
THEOREM ArpTablesCapped == ArpSpec => []ArpTypeOK
<1>1. ArpInv => ArpTypeOK
  BY DEF ArpInv, ArpSound, Capped, ArpTypeOK
<1> QED
  BY <1>1, ArpInvInit, ArpInvStep, PTL DEF ArpSpec

\* The escalation of emit_d1 is spent exactly in the windows that reach the spoof
\* threshold, and a storm is marked only with the frames of one, for every threshold,
\* rate and window.
THEOREM ArpLatches == ArpSpec => []ArpLatchesExact
<1>1. ArpInv => ArpLatchesExact
  BY DEF ArpInv, ArpSound, ArpLatchesExact
<1> QED
  BY <1>1, ArpInvInit, ArpInvStep, PTL DEF ArpSpec

\* A tracked IP is bound to the MAC it announced last.
THEOREM ArpCurrent == ArpSpec => []ArpBindingsCurrent
<1>1. ArpInv => ArpBindingsCurrent
  BY DEF ArpInv
<1> QED
  BY <1>1, ArpInvInit, ArpInvStep, PTL DEF ArpSpec

\* Every frame that changes the MAC of a tracked IP yields a rebind finding.
THEOREM ArpRebindsAllReported == ArpSpec => ArpRebindsReported
<1>1. ArpInv /\ [ArpNext]_arVars => [ArpRebindStep]_arVars
  <2> SUFFICES ASSUME ArpInv, ArpNext, NEW ip \in DOMAIN ar.bindings, arSeen'.last[ip] # arSeen.last[ip]
               PROVE  \E i \in (Len(arFound) + 1) .. Len(arFound') :
                         arFound'[i].kind = "D1" /\ arFound'[i].ip = ip
    BY DEF ArpRebindStep
  <2>1. PICK f \in arWire.frames, ts \in arWire.times : ArpFrame(f, ts)
    BY DEF ArpNext, ArpMalformed
  <2>2. f \in ArpFrames
    BY ArpAssumption DEF ArpInv
  <2>3. PICK cv \in Victims(OldestCounters(ar.storm_counters)) :
           arFound' = arFound \o ArpFindings(ar, f, ts, cv)
    BY <2>1 DEF ArpFrame
  <2>4. f.sender_ip \notin FilteredIp /\ arSeen'.last = Put(arSeen.last, f.sender_ip, f.sender_mac)
    BY <2>1 DEF ArpFrame
  <2>5. ip = f.sender_ip /\ f.sender_mac # arSeen.last[ip]
    BY <2>4 DEF Put, ArpInv
  <2>6. Conflict(ar, f)
    BY <2>5 DEF Conflict, ArpInv, ArpBindingsCurrent
  <2> DEFINE d == D1(f.sender_ip, ar.bindings[f.sender_ip], ts)
  <2>7. PICK s \in Seq(ArpFinding) : ArpFindings(ar, f, ts, cv) = s \o <<d>>
    BY <2>2, <2>4, <2>6, FindingsEndWithRebind, ZenonT(30)
  <2>8. d.kind = "D1" /\ d.ip = ip
    BY <2>5 DEF D1
  <2> HIDE DEF d
  <2>9. /\ Len(arFound') = Len(arFound) + Len(s) + 1
        /\ arFound'[Len(arFound) + Len(s) + 1] = d
    BY <2>3, <2>7, SMTT(30) DEF ArpInv
  <2> QED
    BY <2>8, <2>9 DEF ArpInv
<1> QED
  BY <1>1, ArpInvInit, ArpInvStep, PTL DEF ArpSpec, ArpRebindsReported
=============================================================================
