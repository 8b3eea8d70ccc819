------------------------------ MODULE Pipeline ------------------------------
(***************************************************************************)
(* The reassembler with the dispatcher as its StreamHandler, as            *)
(* run_analyze wires them in src/main.rs.  The calls of one packet are     *)
(* made while it is processed, so the dispatcher moves in the same step.   *)
(*                                                                         *)
(* A byte is named after the kind of content a chunk that begins with it   *)
(* has for classify.                                                       *)
(***************************************************************************)
EXTENDS Reassembler, SequencesExt

CONSTANTS Ports, Enabled, MaxAttempts, CoverageGaps, TlsHeaderLen

VARIABLE disp

D == INSTANCE Dispatcher WITH ChunkLen <- {1}, MaxUnclassified <- 0

-----------------------------------------------------------------------------
\* The on_data calls of one flush, by ascending offset.
DispatchFlush(d, k, slices) ==
    FoldLeft(LAMBDA acc, s : D!OnData(acc, k, [head |-> slices[s][1], len |-> Len(slices[s])]),
             d, SetToSortSeq(DOMAIN slices, <))

\* The calls for one key, in order.
DispatchKey(d, k, calls) ==
    FoldLeft(LAMBDA acc, c : IF c.op = "data" THEN DispatchFlush(acc, k, c.slices)
                             ELSE D!OnFlowClose(acc, k),
             d, calls)

\* The calls for different keys touch different entries of the dispatcher's maps
\* and add to the same counters, so their order does not matter.
Dispatched(d, calls) ==
    FoldFunction(LAMBDA k, acc : DispatchKey(acc, k, calls[k]), d, [k \in Key |-> k])

PipelineInit == Init /\ disp = D!NewDispatcher

PipelineNext == Next /\ disp' = Dispatched(disp, eng'.calls)

PipelineSpec == PipelineInit /\ [][PipelineNext]_<<eng, disp>>

-----------------------------------------------------------------------------
\* The dispatcher remembers exactly the live flows that have delivered data: no
\* route or retry counter outlives its flow, so a new connection that reuses the
\* addresses and ports of an old one is classified afresh, whether the old one
\* ended by FIN, RST, timeout, eviction or finalize.
RoutesFollowFlows ==
    Enabled # {} =>
        DOMAIN disp.routes \cup DOMAIN disp.attempts =
            {k \in DOMAIN eng.flows :
                \E d \in Direction : eng.flows[k].dir[d].reassembled_bytes > 0}

-----------------------------------------------------------------------------
\* main.rs: a flow on a port that classify knows "can never enter
\* unclassified_port_counts via analyze --coverage-gaps".
KnownPortsNeverGaps ==
    \A k \in Key : D!PortTarget(k) # "None" => D!GapPort(k) \notin DOMAIN disp.port_counts
=============================================================================
