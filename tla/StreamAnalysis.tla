--------------------------- MODULE StreamAnalysis ---------------------------
(***************************************************************************)
(* What the protocol analyzers share: maps with an optional entry, the     *)
(* saturating clock arithmetic of their windows, the capped list of        *)
(* findings, loops over a buffer, and the byte stream they are fed.        *)
(*                                                                         *)
(* A byte of a stream is a cell <<f, i>>: byte i of the frame f.  A frame  *)
(* is a record with at least the field len, its number of bytes.  What an  *)
(* analyzer reads out of the bytes of a complete header are the other      *)
(* fields of the frame.                                                    *)
(***************************************************************************)
EXTENDS Integers, Sequences, FiniteSets

CONSTANTS
    MAX_FINDINGS,       \* the cap on all_findings: 10_000
    MAX_MAP_ENTRIES     \* the cap on a table of HTTP or TLS: 50_000

Direction == {"ClientToServer", "ServerToClient"}

-----------------------------------------------------------------------------
(* Maps with optional entries                                              *)

Get(f, k, default) == IF k \in DOMAIN f THEN f[k] ELSE default

With(f, k, v) == [l \in DOMAIN f \cup {k} |-> IF l = k THEN v ELSE f[l]]

Without(f, k) == [l \in DOMAIN f \ {k} |-> f[l]]

Empty == [k \in {} |-> 0]

\* A full table counts the keys it has and drops the others.
CountKey(a, table, key) ==
    IF Cardinality(DOMAIN a[table]) < MAX_MAP_ENTRIES \/ key \in DOMAIN a[table]
    THEN [a EXCEPT ![table] = With(@, key, Get(@, key, 0) + 1)]
    ELSE [a EXCEPT !.dropped_map_entries = @ + 1]

SumOver(f, Count(_)) == Cardinality(UNION {{k} \X (1 .. Count(f[k])) : k \in DOMAIN f})

-----------------------------------------------------------------------------
(* Clocks                                                                  *)

\* u32::saturating_sub: the age of a window whose start may lie ahead of now
Elapsed(now, start) == IF now >= start THEN now - start ELSE 0

-----------------------------------------------------------------------------
(* Findings                                                                *)

\* Every push is guarded by the cap; what does not fit is counted.
Push(a, found) ==
    LET fits == {i \in DOMAIN found : Len(a.all_findings) + i <= MAX_FINDINGS}
    IN  [a EXCEPT !.all_findings = @ \o SubSeq(found, 1, Cardinality(fits)),
                  !.dropped_findings = @ + Len(found) - Cardinality(fits)]

When(condition, finding) == IF condition THEN <<finding>> ELSE <<>>

\* In a loop the analyzer is a field of the state s, next to the flow in hand.
Report(s, finding) == [s EXCEPT !.an = Push(@, <<finding>>)]

Room(s) == Len(s.an.all_findings) < MAX_FINDINGS

-----------------------------------------------------------------------------
(* Loops: at most fuel rounds of Body, until Done                          *)

Loop(Body(_), Done(_), s, fuel) ==
    LET round[n \in 0 .. fuel] ==
            LET before == IF n = 0 THEN s ELSE round[n - 1]
            IN  IF n = 0 \/ Done(before) THEN before ELSE Body(before)
    IN  round[fuel]

Stop(s) == [s EXCEPT !.done = TRUE]

-----------------------------------------------------------------------------
(* The byte stream of one direction.  partial is what has been delivered   *)
(* of the frame that is not yet complete; a chunk ends at any byte of that *)
(* frame or of the one after it.                                           *)

Bytes(f) == [i \in 1 .. f.len |-> <<f, i>>]

Rest(cells, n) == SubSeq(cells, n + 1, Len(cells))

First(cells, n) == SubSeq(cells, 1, IF n < Len(cells) THEN n ELSE Len(cells))

\* what the bytes up to byte n of f followed by g are to an analyzer that has
\* already been given the bytes up to byte from
ChunkOf(f, g, from, n) ==
    LET both == Bytes(f) \o Bytes(g)
    IN  [ data    |-> SubSeq(both, from + 1, n),
          whole   |-> IF n < f.len THEN <<>>
                      ELSE IF n < f.len + g.len THEN <<f>> ELSE <<f, g>>,
          partial |-> IF n < f.len THEN SubSeq(both, 1, n)
                      ELSE IF n < f.len + g.len THEN SubSeq(both, f.len + 1, n) ELSE <<>> ]

Chunks(partial, frames) ==
    LET current == IF partial = <<>> THEN frames ELSE {partial[1][1]}
        from    == Len(partial)
    IN  UNION {{ChunkOf(f, g, from, n) : n \in (from + 1) .. (f.len + g.len)} :
               f \in current, g \in frames}

\* A capture has the frames that occur in it, per direction, and its timestamps.
\* The wire adds what has been sent, per flow and direction, of an unfinished
\* frame.
NoBytes == [d \in Direction |-> <<>>]

Wires(captures, keys) ==
    {[frames |-> c.frames, times |-> c.times, sent |-> [k \in keys |-> NoBytes]] : c \in captures}

Sent(wire, k, d, partial) == [wire EXCEPT !.sent[k][d] = partial]

Cut(wire, k) == [wire EXCEPT !.sent[k] = NoBytes]
=============================================================================
