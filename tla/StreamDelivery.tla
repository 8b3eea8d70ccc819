--------------------------- MODULE StreamDelivery ---------------------------
(***************************************************************************)
(* What one direction of the reassembler promises the stream analyzers,    *)
(* with no segments, sequence numbers or windows: a tape of bytes on which *)
(* a position, once written, keeps its byte (first-wins), of which at most *)
(* Depth positions are ever written, and whose prefix below next has been  *)
(* read, in order and without holes.                                       *)
(***************************************************************************)
EXTENDS Integers, FiniteSets

CONSTANTS Byte, Depth

VARIABLES
    stream,     \* the byte written at each written position
    next        \* the next position to read; the first one is 1

streamVars == <<stream, next>>

\* Written in the style of a predicate, for it bounds every implementation.
TapeOK ==
    /\ DOMAIN stream \subseteq Nat \ {0}
    /\ \A p \in DOMAIN stream : stream[p] \in Byte
    /\ Cardinality(DOMAIN stream) <= Depth
    /\ next \in Nat \ {0}
    /\ 1 .. (next - 1) \subseteq DOMAIN stream

Init ==
    /\ stream = [p \in {} |-> 0]
    /\ next = 1

\* Write some unwritten positions and read on as far as there is no hole.
WriteAndRead ==
    /\ TapeOK'
    /\ \A p \in DOMAIN stream : p \in DOMAIN stream' /\ stream'[p] = stream[p]
    /\ next' >= next

Spec == Init /\ [][WriteAndRead]_streamVars
=============================================================================
