--------------------------- MODULE SegmentBuffer ---------------------------
(***************************************************************************)
(* One direction of one flow, driven the way process_packet drives it: a   *)
(* SYN may set the ISN at any time, and every payload is inserted and the  *)
(* contiguous prefix flushed before the next packet.  delivered is the     *)
(* concatenation of the slices given to StreamHandler::on_data.            *)
(***************************************************************************)
EXTENDS FlowDirection

CONSTANT Payload        \* the payloads packets may carry

ASSUME PayloadAssumption == Payload \subseteq Seq(Byte) \ {<<>>}

VARIABLES dir, delivered

vars == <<dir, delivered>>

Init ==
    /\ dir = NewDirection
    /\ delivered = <<>>

\* A SYN or SYN+ACK without payload on this direction.
ReceiveSyn(seq) ==
    /\ dir' = SetIsn(dir, seq)
    /\ UNCHANGED delivered

\* The record once the payload is inserted, before the flush.
AfterInsert(seq, data) ==
    InsertSegment(InferIsn(dir, seq), seq, data).dir

ReceivePayload(seq, data) ==
    LET d == AfterInsert(seq, data)
    IN  /\ dir' = FlushContiguous(d)
        /\ delivered' = delivered \o Flushed(d)

Next ==
    \/ \E seq \in SeqNum : ReceiveSyn(seq)
    \/ \E seq \in SeqNum, data \in Payload : ReceivePayload(seq, data)

Spec == Init /\ [][Next]_vars

-----------------------------------------------------------------------------
\* The type of the record and of what has been delivered, and its two limits.  A
\* direction never holds or delivers more than max_depth bytes in all, the
\* truncation of the last segment included; and the gap loop stops at
\* max_segments, so even a segment that splits into many gaps cannot push the map
\* over the limit.
TypeOK ==
    /\ dir.isn \in SeqNum \cup {NoIsn}
    /\ dir.base_offset \in Nat
    /\ IsFiniteSet(DOMAIN dir.segments)
    /\ DOMAIN dir.segments \subseteq Nat
    /\ \A s \in DOMAIN dir.segments : dir.segments[s] \in Seq(Byte) \ {<<>>}
    /\ dir.buffered_bytes \in Nat
    /\ dir.reassembled_bytes \in Nat
    /\ dir.overlap_count \in 0 .. CountMax
    /\ dir.out_of_window_count \in 0 .. CountMax
    /\ dir.depth_exceeded \in BOOLEAN
    /\ delivered \in Seq(Byte)
    /\ dir.reassembled_bytes + dir.buffered_bytes <= MaxDepth
    /\ Cardinality(DOMAIN dir.segments) <= MaxSegments

\* No two buffered segments share a position, the "safety invariant" of
\* select_gaps, on which the release build relies once the debug_assert!s on map
\* collisions are compiled out; and buffered_bytes never drifts from the bytes the
\* map really holds (the debug_assert_eq! of memory_used), whatever mix of gap
\* fills, truncations and flushes led here.
BufferedBytesExact ==
    /\ \A s, t \in DOMAIN dir.segments : s < t => SegEnd(dir.segments, s) <= t
    /\ dir.buffered_bytes = Cardinality(Covered(dir.segments))

\* What on_data has been given is exactly the bytes from the first data byte to
\* base_offset: no hole, no byte twice, and the counters agree.  Between packets
\* nothing at base_offset is left to flush, which is why the flush of close_flow
\* never delivers anything.
DeliveredContiguous ==
    /\ dir.reassembled_bytes = Len(delivered)
    /\ dir.isn # NoIsn => dir.base_offset = Len(delivered) + 1
    /\ dir.base_offset \notin DOMAIN dir.segments

\* First-wins: a byte once buffered is never replaced.  It stays in the buffer,
\* or leaves it as the byte delivered for its position.
FirstWinsStep ==
    \A p \in Covered(dir.segments) :
        \/ /\ p \in Covered(dir'.segments)
           /\ ByteAt(dir'.segments, p) = ByteAt(dir.segments, p)
        \/ /\ p \notin Covered(dir'.segments)
           /\ p \in (Len(delivered) + 1) .. Len(delivered')
           /\ delivered'[p] = ByteAt(dir.segments, p)

FirstWins == [][FirstWinsStep]_vars

-----------------------------------------------------------------------------
(* The promise to the stream analyzers.  Position p of the abstract tape is  *)
(* the byte delivered for p or, from base_offset on, the byte buffered there.*)

NextByte == Len(delivered) + 1

Tape ==
    [p \in (1 .. Len(delivered)) \cup {q \in Covered(dir.segments) : q >= NextByte} |->
        IF p < NextByte THEN delivered[p] ELSE ByteAt(dir.segments, p)]

Delivery == INSTANCE StreamDelivery
                WITH Depth <- MaxDepth, stream <- Tape, next <- NextByte

\* The segment buffer implements the first-wins tape of StreamDelivery: whatever
\* the order, duplication, overlap and truncation of the segments, a position is
\* given at most one byte and positions are delivered in order, each once.
ImplementsStreamDelivery == Delivery!Spec

-----------------------------------------------------------------------------
(* What the comments of the code claim and the code does not do.           *)

\* flush_contiguous_data: the contiguous prefix of the buffer is delivered, so
\* the next byte expected is never sitting in the buffer between packets.
PrefixDelivered ==
    \A s \in DOMAIN dir.segments \ {0} : dir.base_offset \notin Span(dir.segments, s)
=============================================================================
