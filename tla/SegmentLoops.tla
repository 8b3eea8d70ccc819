---------------------------- MODULE SegmentLoops ----------------------------
(***************************************************************************)
(* The two loops of src/reassembly/segment.rs as they are written: the     *)
(* cursor sweep of select_gaps and the while loop of flush_contiguous.     *)
(* FlowDirection describes what they select as sets of positions; here the *)
(* two forms are compared in every state the buffer can reach.             *)
(***************************************************************************)
EXTENDS SegmentBuffer, SequencesExt

\* The ranges insert_segment collects, ascending by start as BTreeMap iterates.
OverlappingRanges(segs, new_start, new_end) ==
    LET starts == {s \in DOMAIN segs : Overlaps(segs, s, new_start, new_end)}
    IN  [i \in DOMAIN SetToSortSeq(starts, <) |->
            LET s == SetToSortSeq(starts, <)[i] IN <<s, SegEnd(segs, s)>>]

\* Faulty variant: the gap before a range that reaches new_end is lost.
SweepRangeNoGap(acc, r, new_start, new_end) ==
    [ fully_covered |-> acc.fully_covered \/ (r[1] <= new_start /\ r[2] >= new_end),
      gaps |-> IF acc.cursor < r[1] /\ r[2] < new_end
               THEN Append(acc.gaps, <<acc.cursor, r[1]>>)
               ELSE acc.gaps,
      cursor |-> Max({acc.cursor, r[2]}) ]

\* One turn of the loop of select_gaps, on the range r = <<es, ee>>.
SweepRange(acc, r, new_start, new_end) ==
    [ fully_covered |-> acc.fully_covered \/ (r[1] <= new_start /\ r[2] >= new_end),
      gaps |-> IF acc.cursor < r[1]
               THEN Append(acc.gaps, <<acc.cursor, Min({r[1], new_end})>>)
               ELSE acc.gaps,
      cursor |-> Max({acc.cursor, r[2]}) ]

\* select_gaps(new_start, new_end, existing)
SelectGaps(new_start, new_end, existing) ==
    LET swept == FoldLeft(LAMBDA acc, r : SweepRange(acc, r, new_start, new_end),
                          [fully_covered |-> FALSE, gaps |-> <<>>, cursor |-> new_start],
                          existing)
    IN  [ fully_covered |-> swept.fully_covered,
          gaps |-> IF swept.cursor < new_end
                   THEN Append(swept.gaps, <<swept.cursor, new_end>>)
                   ELSE swept.gaps ]

\* while let Some(data) = self.segments.remove(&self.base_offset)
RECURSIVE FlushLoop(_, _)
FlushLoop(d, flushed) ==
    IF d.base_offset \notin DOMAIN d.segments
    THEN [dir |-> d, flushed |-> flushed]
    ELSE LET data == d.segments[d.base_offset]
         IN  FlushLoop(
                [d EXCEPT
                    !.segments = [s \in DOMAIN d.segments \ {d.base_offset} |-> d.segments[s]],
                    !.buffered_bytes = @ - Len(data),
                    !.base_offset = @ + Len(data),
                    !.reassembled_bytes = @ + Len(data)],
                flushed \o data)

-----------------------------------------------------------------------------
\* The sweep emits exactly the maximal runs of positions no buffered segment
\* holds, in ascending order, and reports full coverage only when there is none.
SweepFindsTheGaps ==
    \A new_start \in SeqNum : \A len \in {Len(p) : p \in Payload} :
        LET segs == dir.segments
            free == Free(segs, new_start, len)
            sg   == SelectGaps(new_start, new_start + len,
                               OverlappingRanges(segs, new_start, new_start + len))
        IN  /\ sg.gaps = [i \in 1 .. Cardinality(GapStarts(free)) |->
                            LET p == SetToSortSeq(GapStarts(free), <)[i]
                            IN  <<p, RunEnd(free, p)>>]
            /\ sg.fully_covered => free = {}

\* After any insertion the while loop of flush_contiguous removes, delivers and
\* counts exactly the run of segments FlowDirection's FlushContiguous describes.
FlushLoopTakesTheRun ==
    \A seq \in SeqNum, data \in Payload :
        LET d == AfterInsert(seq, data)
        IN  FlushLoop(d, <<>>) = [dir |-> FlushContiguous(d), flushed |-> Flushed(d)]
=============================================================================
