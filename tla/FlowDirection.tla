--------------------------- MODULE FlowDirection ---------------------------
(***************************************************************************)
(* One direction of a TCP flow: the out-of-order segment buffer of         *)
(* src/reassembly/segment.rs over the FlowDirection record of              *)
(* src/reassembly/flow.rs.                                                 *)
(*                                                                         *)
(* The module has no variables.  Every method of the source that changes a *)
(* FlowDirection is an operator from the record before the call to the     *)
(* record after it, so that the one-direction machine (SegmentBuffer) and  *)
(* the whole engine (Reassembler) use the same definitions.                *)
(*                                                                         *)
(* A segment map is a function from start offsets to non-empty byte        *)
(* sequences (BTreeMap<u64, Vec<u8>>).  The two loops of the source, the   *)
(* cursor sweep of select_gaps and the while loop of flush_contiguous, are *)
(* written here as the sets of positions they end up selecting; module     *)
(* SegmentLoops holds the loops themselves and TLC compares the two.       *)
(*                                                                         *)
(* Left out: fin_seen and rst_seen, which nothing ever reads.              *)
(***************************************************************************)
EXTENDS Integers, Sequences, FiniteSets

CONSTANTS
    Byte,               \* the payload byte values the model tells apart
    SeqSpace,             \* the sequence number space, 2^32 in the code
    CountMax,           \* where the u32 anomaly counters saturate
    MaxDepth,           \* config.max_depth
    MaxSegments,        \* config.max_segments_per_direction
    MaxReceiveWindow    \* config.max_receive_window

\* TcpReassembler::new asserts that the three limits are positive.
ASSUME DirectionConstants ==
    /\ SeqSpace \in Nat \ {0}
    /\ CountMax \in Nat
    /\ MaxDepth \in Nat \ {0}
    /\ MaxSegments \in Nat \ {0}
    /\ MaxReceiveWindow \in Nat \ {0}

\* isn: None
NoIsn == -1

SeqNum == 0 .. (SeqSpace - 1)

\* FlowDirection::new
NewDirection ==
    [ isn |-> NoIsn,
      base_offset |-> 0,
      segments |-> [s \in {} |-> <<>>],
      buffered_bytes |-> 0,
      reassembled_bytes |-> 0,
      overlap_count |-> 0,
      overlap_alert_fired |-> FALSE,
      small_segment_run |-> 0,
      small_segment_alert_fired |-> FALSE,
      out_of_window_count |-> 0,
      out_of_window_alert_fired |-> FALSE,
      depth_exceeded |-> FALSE ]

\* u32::saturating_add(1)
Saturated(n) == IF n < CountMax THEN n + 1 ELSE n

\* Faulty variant: a later SYN rewinds the stream.
SetIsnAgain(d, isn) == [d EXCEPT !.isn = isn, !.base_offset = 1]

\* The first of two ISNs wins; ISN + 1 is the first data byte.
SetIsn(d, isn) ==
    IF d.isn = NoIsn THEN [d EXCEPT !.isn = isn, !.base_offset = 1] ELSE d

\* infer_isn: the first payload seen is taken for the first data byte.
InferIsn(d, seq) == SetIsn(d, (seq - 1) % SeqSpace)

-----------------------------------------------------------------------------
(* Positions.  A position is an offset from the ISN; segment s holds the   *)
(* positions s .. SegEnd(segs, s) - 1.                                     *)

SegEnd(segs, s) == s + Len(segs[s])

Span(segs, s) == s .. (SegEnd(segs, s) - 1)

\* All the positions held by the segments that start at one of starts.
Positions(segs, starts) == UNION {Span(segs, s) : s \in starts}

Covered(segs) == Positions(segs, DOMAIN segs)

ByteAt(segs, p) ==
    LET s == CHOOSE s \in DOMAIN segs : p \in Span(segs, s)
    IN  segs[s][p - s + 1]

\* The end of the run of S that starts at p: p itself if p is not in S.
RunEnd(S, p) ==
    CHOOSE q \in p .. (p + Cardinality(S)) : q \notin S /\ p .. (q - 1) \subseteq S

-----------------------------------------------------------------------------
(* insert_segment                                                          *)

\* seq.wrapping_sub(isn)
SeqOffset(seq, isn) == (seq - isn) % SeqSpace

\* The early returns of insert_segment, in their order, for a segment of len
\* bytes at offset off; "Admitted" when none applies.  A direction whose depth
\* is used up by delivered bytes alone is a case of the last one.
Admission(d, off, len) ==
    IF \/ off + len < d.base_offset
       \/ off > d.base_offset + MaxReceiveWindow
    THEN "OutOfWindow"
    ELSE IF Cardinality(DOMAIN d.segments) >= MaxSegments
    THEN "SegmentLimitReached"
    ELSE IF d.reassembled_bytes + d.buffered_bytes >= MaxDepth
    THEN "DepthExceeded"
    ELSE "Admitted"

\* The bytes left after the truncation to the depth limit.
Kept(d, data) ==
    LET allowed == MaxDepth - (d.reassembled_bytes + d.buffered_bytes)
    IN  IF Len(data) > allowed THEN SubSeq(data, 1, allowed) ELSE data

\* ranges_overlap
Overlaps(segs, s, new_start, new_end) ==
    new_start < SegEnd(segs, s) /\ new_end > s

\* segment_overlap's second result, over all the overlapping segments.
Conflicts(segs, new_start, data) ==
    \E s \in DOMAIN segs :
        \E p \in Span(segs, s) \cap (new_start .. (new_start + Len(data) - 1)) :
            segs[s][p - s + 1] # data[p - new_start + 1]

\* The positions of the new segment that no buffered segment holds.
Free(segs, new_start, len) ==
    (new_start .. (new_start + len - 1)) \ Covered(segs)

\* The gaps are the maximal runs of free positions, named by their start.
GapStarts(free) == {p \in free : p - 1 \notin free}

\* Faulty variant: the segment limit is not looked at inside the gap loop.
FilledGapsAll(segs, free) == GapStarts(free)

\* Gaps are filled in ascending order until the segment map is full.
FilledGaps(segs, free) ==
    {p \in GapStarts(free) :
        Cardinality(DOMAIN segs)
          + Cardinality({q \in GapStarts(free) : q < p}) < MaxSegments}

\* Faulty variant: last-wins, the new bytes replace the buffered ones.
FillGapsLastWins(segs, free, filled, new_start, data) ==
    [s \in DOMAIN segs \cup filled |->
        IF s \in filled
        THEN SubSeq(data, s - new_start + 1, RunEnd(free, s) - new_start)
        ELSE [i \in DOMAIN segs[s] |->
                IF s + i - new_start \in DOMAIN data
                THEN data[s + i - new_start] ELSE segs[s][i]]]

\* The segment map with the bytes of data stored in the gaps that start at
\* filled, and nowhere else.
FillGaps(segs, free, filled, new_start, data) ==
    [s \in DOMAIN segs \cup filled |->
        IF s \in filled
        THEN SubSeq(data, s - new_start + 1, RunEnd(free, s) - new_start)
        ELSE segs[s]]

\* The positions the filled gaps cover.
Filled(free, filled) == UNION {p .. (RunEnd(free, p) - 1) : p \in filled}

\* The insertion of an admitted segment: first-wins, gap by gap.  A segment
\* that overlaps nothing is the case of a single gap.
StoreSegment(d, new_start, data) ==
    LET segs       == d.segments
        kept       == Kept(d, data)
        truncated  == Len(kept) < Len(data)
        new_end    == new_start + Len(kept)
        overlapped == \E s \in DOMAIN segs : Overlaps(segs, s, new_start, new_end)
        free       == Free(segs, new_start, Len(kept))
        filled     == FilledGaps(segs, free)
    IN  [ dir |->
            [d EXCEPT
                !.segments = FillGaps(segs, free, filled, new_start, kept),
                !.buffered_bytes = @ + Cardinality(Filled(free, filled)),
                !.overlap_count = IF overlapped THEN Saturated(@) ELSE @,
                !.depth_exceeded = @ \/ truncated],
          result |->
            CASE free = {} ->
                   IF Conflicts(segs, new_start, kept)
                   THEN "ConflictingOverlap" ELSE "Duplicate"
              [] free # {} /\ filled # GapStarts(free) -> "SegmentLimitReached"
              [] free # {} /\ filled = GapStarts(free) ->
                   IF truncated THEN "Truncated"
                   ELSE IF overlapped THEN "PartialOverlap" ELSE "Inserted" ]

\* insert_segment on a direction whose ISN is known, data not empty.
InsertSegment(d, seq, data) ==
    LET off == SeqOffset(seq, d.isn)
        adm == Admission(d, off, Len(data))
    IN  CASE adm = "Admitted" -> StoreSegment(d, off, data)
          [] adm = "OutOfWindow" ->
               [dir |-> [d EXCEPT !.out_of_window_count = Saturated(@)], result |-> adm]
          [] adm = "DepthExceeded" ->
               [dir |-> [d EXCEPT !.depth_exceeded = TRUE], result |-> adm]
          [] OTHER -> [dir |-> d, result |-> adm]

-----------------------------------------------------------------------------
(* flush_contiguous                                                        *)

\* Where base_offset ends up: past the run of bytes held by segments that
\* start at or after it.
FlushEnd(d) ==
    RunEnd(Positions(d.segments, {s \in DOMAIN d.segments : s >= d.base_offset}),
           d.base_offset)

\* The bytes handed to on_data, in order.
Flushed(d) ==
    [i \in 1 .. (FlushEnd(d) - d.base_offset) |->
        ByteAt(d.segments, d.base_offset + i - 1)]

\* Faulty variant: the flushed bytes are still counted as buffered.
FlushUncounted(d) ==
    LET end  == FlushEnd(d)
        left == {s \in DOMAIN d.segments : s < d.base_offset \/ s >= end}
    IN  [d EXCEPT !.segments = [s \in left |-> d.segments[s]],
                  !.base_offset = end,
                  !.reassembled_bytes = @ + (end - d.base_offset)]

\* Faulty variant: an if in place of the while, one segment per flush.
FlushFirstSegment(d) ==
    IF d.base_offset \notin DOMAIN d.segments THEN d
    ELSE LET len == Len(d.segments[d.base_offset])
         IN  [d EXCEPT !.segments = [s \in DOMAIN @ \ {d.base_offset} |-> @[s]],
                       !.buffered_bytes = @ - len,
                       !.base_offset = @ + len,
                       !.reassembled_bytes = @ + len]

FlushContiguous(d) ==
    LET end  == FlushEnd(d)
        left == {s \in DOMAIN d.segments : s < d.base_offset \/ s >= end}
    IN  [d EXCEPT
            !.segments = [s \in left |-> d.segments[s]],
            !.buffered_bytes = @ - (end - d.base_offset),
            !.base_offset = end,
            !.reassembled_bytes = @ + (end - d.base_offset)]
=============================================================================
