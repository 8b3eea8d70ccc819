--------------------------- MODULE MCSegmentBuffer --------------------------
(* SegmentBuffer with every payload of at most MaxLen bytes.               *)
EXTENDS SegmentBuffer, TLC

CONSTANT MaxLen

MCPayload == UNION {[1 .. n -> Byte] : n \in 1 .. MaxLen}

\* Byte values are only ever compared with one another.
ByteSymmetry == Permutations(Byte)
=============================================================================
