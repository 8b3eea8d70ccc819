---------------------------- MODULE Reassembler ----------------------------
(***************************************************************************)
(* The TCP reassembly engine: the flow table of src/reassembly/mod.rs, the *)
(* flow state machine of flow.rs and the retirement of flows in            *)
(* lifecycle.rs, over the segment buffers of module FlowDirection.         *)
(*                                                                         *)
(* The engine is single-threaded, so process_packet is one action.  Its    *)
(* sub-steps are operators from the engine record before to the engine     *)
(* record after, named after the methods of the source.  The only          *)
(* nondeterminism inside is the order of equally good eviction victims,    *)
(* which the source takes from HashMap iteration.                          *)
(*                                                                         *)
(* eng.calls is the output of the last action: for each flow key, the      *)
(* calls made on the StreamHandler, in order.  One "data" entry stands for *)
(* one flush: slices maps the offset of each on_data call to its bytes.    *)
(* The order of calls for different keys is left out, as it depends on     *)
(* HashMap iteration.                                                      *)
(*                                                                         *)
(* Left out: the fields nothing reads (first_seen, fin_seen, partial) and  *)
(* the segment and byte statistics, except the one finalize reads; the     *)
(* wording of findings, of which only the number is kept.                  *)
(***************************************************************************)
EXTENDS FlowDirection

CONSTANTS
    Endpoint,           \* (ip, port) pairs
    NoEndpoint,         \* initiator: None
    Packet,             \* the TCP packets the capture may contain
    Time,               \* the capture timestamps, in seconds
    MaxPackets,         \* bound of the model: packets in the capture
    MaxFlows, Memcap, FlowTimeout, ExpirySweepInterval, IdlePacketThreshold,
    OverlapThreshold, SmallSegmentThreshold, OutOfWindowThreshold,
    SmallSegmentMaxBytes, MaxFindings,
    SmallSegmentIgnored \* the keys with a port in small_segment_ignore_ports

\* A FlowKey orders its two endpoints, so that both senders get the same key.
Key == {{a, b} : a, b \in Endpoint}

FlowKey(p) == {p.src, p.dst}

Flag == {"syn", "ack", "fin", "rst"}

Direction == {"ClientToServer", "ServerToClient"}

\* TcpReassembler::new asserts that the limits are positive.
ASSUME ReassemblerConstants ==
    /\ NoEndpoint \notin Endpoint
    /\ Packet \subseteq [src : Endpoint, dst : Endpoint, flags : SUBSET Flag,
                         seq : SeqNum, data : Seq(Byte)]
    /\ Time \subseteq Nat
    /\ MaxPackets \in Nat
    /\ MaxFlows \in Nat \ {0}
    /\ Memcap \in Nat \ {0}
    /\ FlowTimeout \in Nat
    /\ ExpirySweepInterval \in Nat
    /\ IdlePacketThreshold \in Nat
    /\ MaxFindings \in Nat

VARIABLE eng

-----------------------------------------------------------------------------
(* TcpFlow                                                                 *)

NewFlow(ts) ==
    [ dir |-> [d \in Direction |-> NewDirection],
      state |-> "New",
      initiator |-> NoEndpoint,
      fin_count |-> 0,
      last_seen |-> ts,
      last_activity_index |-> 0 ]

\* Faulty variant: the last claim to be the client wins.
SetInitiatorAgain(f, endpoint) == [f EXCEPT !.initiator = endpoint]

SetInitiator(f, endpoint) ==
    IF f.initiator = NoEndpoint THEN [f EXCEPT !.initiator = endpoint] ELSE f

DirectionOf(f, src) ==
    IF f.initiator = src THEN "ClientToServer" ELSE "ServerToClient"

MemoryUsed(f) ==
    f.dir["ClientToServer"].buffered_bytes + f.dir["ServerToClient"].buffered_bytes

\* on_syn and on_syn_ack
AfterSyn(state, ack) ==
    CASE state = "New" /\ ~ack -> "SynSent"
      [] state \in {"New", "SynSent"} /\ ack -> "Established"
      [] OTHER -> state

\* Faulty variant: the flow is closed by the third FIN.
OnFinLate(f) ==
    [f EXCEPT !.fin_count = @ + 1,
              !.state = IF f.fin_count + 1 > 2 THEN "Closed"
                        ELSE IF @ \in {"Established", "SynSent"} THEN "Closing" ELSE @]

OnFin(f) ==
    [f EXCEPT !.fin_count = @ + 1,
              !.state = CASE f.fin_count + 1 >= 2 -> "Closed"
                          [] f.fin_count + 1 < 2 /\ @ \in {"Established", "SynSent"} -> "Closing"
                          [] OTHER -> @]

\* apply_handshake_flags, up to the closing of a flow by RST.
ApplyHandshakeFlags(f, p) ==
    LET client == IF "ack" \in p.flags THEN p.dst ELSE p.src
        known  == SetInitiator(f, client)
        opened == IF "syn" \in p.flags
                  THEN [known EXCEPT !.dir[DirectionOf(known, p.src)] = SetIsn(@, p.seq),
                                     !.state = AfterSyn(@, "ack" \in p.flags)]
                  ELSE f
    IN  IF "fin" \in p.flags /\ "rst" \notin p.flags
        THEN OnFin(opened)
        ELSE opened

\* Mid-stream join: data on a flow without SYN makes its sender the initiator.
OnDataWithoutSyn(f, p) ==
    IF f.state = "New"
    THEN [SetInitiator(f, p.src) EXCEPT !.state = "Established"]
    ELSE f

-----------------------------------------------------------------------------
(* Payload: insert_payload_segment, check_anomaly_thresholds and           *)
(* flush_contiguous_data, on the direction d of one flow.                  *)

\* The run of consecutive small segments.  A segment turned away before the
\* reassembly window neither extends nor resets it.
SmallRun(run, result, len) ==
    CASE result \in {"OutOfWindow", "SegmentLimitReached", "DepthExceeded"} -> run
      [] result \notin {"OutOfWindow", "SegmentLimitReached", "DepthExceeded"}
           /\ len < SmallSegmentMaxBytes -> Saturated(run)
      [] OTHER -> 0

\* insert_segment and the run counter: the direction and the InsertResult.
Inserted(d, p) ==
    LET ins == InsertSegment(InferIsn(d, p.seq), p.seq, p.data)
    IN  [ dir |-> [ins.dir EXCEPT !.small_segment_run =
                      SmallRun(@, ins.result, Len(p.data))],
          result |-> ins.result ]

\* The alerts whose threshold is crossed and whose latch is still open.
Alerts(d, k) ==
    {a \in {"overlap", "small_segment", "out_of_window"} :
        CASE a = "overlap" ->
               d.overlap_count > OverlapThreshold /\ ~d.overlap_alert_fired
          [] a = "small_segment" ->
               /\ d.small_segment_run > SmallSegmentThreshold
               /\ ~d.small_segment_alert_fired
               /\ k \notin SmallSegmentIgnored
          [] a = "out_of_window" ->
               d.out_of_window_count > OutOfWindowThreshold
                 /\ ~d.out_of_window_alert_fired}

\* The latches flip whether or not there is room for the finding.
Latched(d, alerts) ==
    [d EXCEPT !.overlap_alert_fired = @ \/ "overlap" \in alerts,
              !.small_segment_alert_fired = @ \/ "small_segment" \in alerts,
              !.out_of_window_alert_fired = @ \/ "out_of_window" \in alerts]

\* Push n findings one by one; those beyond MAX_FINDINGS are counted as dropped.
Report(e, n) ==
    LET room   == MaxFindings - e.findings
        pushed == IF n <= room THEN n ELSE room
    IN  [e EXCEPT !.findings = @ + pushed, !.stats.dropped_findings = @ + (n - pushed)]

\* The on_data calls of one flush_contiguous: none if there is nothing to flush.
FlushCalls(d, direction) ==
    LET taken == {s \in DOMAIN d.segments : d.base_offset <= s /\ s < FlushEnd(d)}
    IN  IF taken = {} THEN <<>>
        ELSE <<[op |-> "data", dir |-> direction,
                slices |-> [s \in taken |-> d.segments[s]]]>>

ProcessPayload(e, k, p) ==
    LET f       == OnDataWithoutSyn(e.flows[k], p)
        side    == DirectionOf(f, p.src)
        ins     == Inserted(f.dir[side], p)
        alerts  == Alerts(ins.dir, k)
        latched == Latched(ins.dir, alerts)
        flushed == FlushContiguous(latched)
        raised  == Cardinality(alerts)
                     + (IF ins.result \in {"ConflictingOverlap", "Truncated"} THEN 1 ELSE 0)
    IN  Report(
          [e EXCEPT !.flows[k] = [f EXCEPT !.dir[side] = flushed],
                    !.total_memory = @ + (flushed.buffered_bytes - f.dir[side].buffered_bytes),
                    !.segment_limit_hit = @ \/ ins.result = "SegmentLimitReached",
                    !.calls[k] = @ \o FlushCalls(latched, side)],
          raised)

-----------------------------------------------------------------------------
(* Retirement of flows                                                     *)

\* The sum of f[k] over the keys in K, as the size of a disjoint union.
SumOver(f, K) == Cardinality(UNION {{k} \X (1 .. f[k]) : k \in K})

MemoryOf(flows, K) == SumOver([k \in K |-> MemoryUsed(flows[k])], K)

\* Faulty variant: the close is reported only for flows that carried data.
CloseCallsIfData(f, reason) ==
    IF \A d \in Direction : f.dir[d].isn = NoIsn THEN <<>>
    ELSE <<[op |-> "close", reason |-> reason]>>

\* close_flow: flush both directions, then report the close.
CloseCalls(f, reason) ==
    FlushCalls(f.dir["ClientToServer"], "ClientToServer")
      \o FlushCalls(f.dir["ServerToClient"], "ServerToClient")
      \o <<[op |-> "close", reason |-> reason]>>

\* Faulty variant: the memory of the closed flows is not given back.
CloseFlowsLeaking(e, K, reason) ==
    [e EXCEPT !.flows = [k \in DOMAIN e.flows \ K |-> e.flows[k]],
              !.calls = [k \in Key |->
                  IF k \in K THEN @[k] \o CloseCalls(e.flows[k], reason) ELSE @[k]]]

\* close_flow on every key of K.
CloseFlows(e, K, reason) ==
    [e EXCEPT !.flows = [k \in DOMAIN e.flows \ K |-> e.flows[k]],
              !.total_memory = @ - MemoryOf(e.flows, K),
              !.calls = [k \in Key |->
                  IF k \in K THEN @[k] \o CloseCalls(e.flows[k], reason) ELSE @[k]]]

\* The victims are taken non-established first, then least recently seen.
Before(f, g) ==
    \/ f.state # "Established" /\ g.state = "Established"
    \/ /\ (f.state = "Established") <=> (g.state = "Established")
       /\ f.last_seen < g.last_seen

\* Faulty variant: eviction stops at the flow count, whatever the memory.
RelievedOfFlows(e, K, target) == Cardinality(DOMAIN e.flows \ K) <= target

\* Both resource constraints are met once the flows of K are closed.
Relieved(e, K, target) ==
    /\ e.total_memory - MemoryOf(e.flows, K) <= Memcap
    /\ Cardinality(DOMAIN e.flows \ K) <= target

\* The prefixes of the victim order at which the eviction loop may stop: the
\* constraints are met, or no flow is left, and they were not met before the
\* last victim.
Victims(e, target) ==
    {K \in SUBSET DOMAIN e.flows :
        /\ \A k \in K, l \in DOMAIN e.flows \ K : ~Before(e.flows[l], e.flows[k])
        /\ K = DOMAIN e.flows \/ Relieved(e, K, target)
        /\ K # {} =>
             \E k \in K : /\ ~Relieved(e, K \ {k}, target)
                          /\ \A l \in K : ~Before(e.flows[k], e.flows[l])}

EvictFlows(e, target) ==
    {[CloseFlows(e, K, "MemoryPressure") EXCEPT !.stats.evictions = @ + Cardinality(K)] :
        K \in Victims(e, target)}

\* flow_count_target of the MaxFlows and MemCap triggers.
HeadroomTarget ==
    LET ninety_pct == (MaxFlows * 9) \div 10
    IN  IF ninety_pct < MaxFlows - 1 THEN ninety_pct ELSE MaxFlows - 1

MemcapTarget == MaxFlows - 1

Expire(e, K) ==
    [CloseFlows(e, K, "Timeout") EXCEPT !.stats.flows_expired = @ + Cardinality(K)]

TimedOut(f, now) == now > f.last_seen /\ now - f.last_seen > FlowTimeout

\* Faulty variant: the time sweep passes over half-open flows.
ExpireEstablishedByTimeout(e, ts) ==
    IF ts > e.last_expiry_sweep_secs
    THEN Expire([e EXCEPT !.last_expiry_sweep_secs = ts],
                {k \in DOMAIN e.flows :
                    e.flows[k].state # "SynSent" /\ TimedOut(e.flows[k], ts)})
    ELSE e

ExpireIdleByTimeout(e, ts) ==
    IF ts > e.last_expiry_sweep_secs
    THEN Expire([e EXCEPT !.last_expiry_sweep_secs = ts],
                {k \in DOMAIN e.flows : TimedOut(e.flows[k], ts)})
    ELSE e

\* Faulty variant: the packet-index sweep spares established flows.
ExpireHalfOpenByPacketIndex(e) ==
    IF ExpirySweepInterval # 0 /\ e.packet_index % ExpirySweepInterval = 0
    THEN Expire(e, {k \in DOMAIN e.flows :
                      /\ e.flows[k].state # "Established"
                      /\ e.packet_index - e.flows[k].last_activity_index > IdlePacketThreshold})
    ELSE e

\* Every expiry_sweep_interval packets; no multiple of 0 but 0.
ExpireIdleByPacketIndex(e) ==
    IF ExpirySweepInterval # 0 /\ e.packet_index % ExpirySweepInterval = 0
    THEN Expire(e, {k \in DOMAIN e.flows :
                      e.packet_index - e.flows[k].last_activity_index > IdlePacketThreshold})
    ELSE e

-----------------------------------------------------------------------------
(* process_packet, expire_flows and finalize                               *)

NoCalls == [k \in Key |-> <<>>]

Init ==
    eng = [ flows |-> [k \in {} |-> NewFlow(0)],
            total_memory |-> 0,
            findings |-> 0,
            stats |-> [flows_total |-> 0, flows_fin |-> 0, flows_rst |-> 0,
                       flows_expired |-> 0, evictions |-> 0, dropped_findings |-> 0],
            segment_limit_hit |-> FALSE,
            packet_index |-> 0,
            last_expiry_sweep_secs |-> 0,
            finalized |-> FALSE,
            calls |-> NoCalls ]

\* The head of process_packet: count the packet and run the two sweeps.
Swept(ts) ==
    ExpireIdleByPacketIndex(
        ExpireIdleByTimeout([eng EXCEPT !.packet_index = @ + 1, !.calls = NoCalls], ts))

\* get_or_create_flow: the engines it may leave.  The packet is dropped, and k
\* not in the table, if eviction made no room.
GetOrCreateFlow(e, k, ts) ==
    LET full      == Cardinality(DOMAIN e.flows) >= MaxFlows
        create(r) == [r EXCEPT !.flows = [l \in DOMAIN r.flows \cup {k} |->
                                            IF l = k THEN NewFlow(ts) ELSE r.flows[l]],
                               !.stats.flows_total = @ + 1]
        touch(r)  == [r EXCEPT !.flows[k].last_seen = ts,
                               !.flows[k].last_activity_index = r.packet_index]
    IN  IF k \in DOMAIN e.flows THEN {touch(e)}
        ELSE {IF Cardinality(DOMAIN r.flows) >= MaxFlows THEN r ELSE touch(create(r)) :
                 r \in IF full THEN EvictFlows(e, HeadroomTarget) ELSE {e}}

CloseByRst(e, k) ==
    [CloseFlows(e, {k}, "Rst") EXCEPT !.stats.flows_rst = @ + 1]

\* Faulty variant: the flow closed by FIN is not counted.
CloseByFinUncounted(e, k) ==
    IF e.flows[k].state = "Closed" THEN CloseFlows(e, {k}, "Fin") ELSE e

CloseByFin(e, k) ==
    IF e.flows[k].state = "Closed"
    THEN [CloseFlows(e, {k}, "Fin") EXCEPT !.stats.flows_fin = @ + 1]
    ELSE e

\* The rest of process_packet, once the flow of the packet is in the table.
ApplyPacket(e, k, p) ==
    LET shaken == [e EXCEPT !.flows[k] = ApplyHandshakeFlags(@, p)]
        loaded == IF p.data # <<>> THEN ProcessPayload(shaken, k, p) ELSE shaken
        closed == CloseByFin(loaded, k)
    IN  IF "rst" \in p.flags THEN {CloseByRst(shaken, k)}
        ELSE IF closed.total_memory > Memcap THEN EvictFlows(closed, MemcapTarget)
        ELSE {closed}

\* The driver feeds packets until it finalizes the engine.
Running == ~eng.finalized /\ eng.packet_index < MaxPackets

ProcessPacket(p, ts) ==
    /\ Running
    /\ \E e \in GetOrCreateFlow(Swept(ts), FlowKey(p), ts) :
          eng' \in IF FlowKey(p) \in DOMAIN e.flows
                   THEN ApplyPacket(e, FlowKey(p), p) ELSE {e}

\* A packet that is not TCP still drives the sweeps.
ProcessNonTcp(ts) ==
    /\ Running
    /\ eng' = Swept(ts)

\* The public sweep, which also removes Closed flows.
ExpireFlows(ts) ==
    /\ ~eng.finalized
    /\ eng' = LET e == [eng EXCEPT !.calls = NoCalls]
              IN  Expire(e, {k \in DOMAIN e.flows :
                               e.flows[k].state = "Closed" \/ TimedOut(e.flows[k], ts)})

Finalize ==
    /\ ~eng.finalized
    /\ eng' = LET e == [eng EXCEPT !.calls = NoCalls, !.finalized = TRUE,
                                   !.findings = IF eng.segment_limit_hit THEN @ + 1 ELSE @]
              IN  CloseFlows(e, DOMAIN e.flows, "Timeout")

\* finalize is a no-op the second time.
FinalizeAgain ==
    /\ eng.finalized
    /\ eng' = [eng EXCEPT !.calls = NoCalls]

Next ==
    \/ \E p \in Packet, ts \in Time : ProcessPacket(p, ts)
    \/ \E ts \in Time : ProcessNonTcp(ts) \/ ExpireFlows(ts)
    \/ Finalize
    \/ FinalizeAgain

Spec == Init /\ [][Next]_eng

-----------------------------------------------------------------------------
FlowState == {"New", "SynSent", "Established", "Closing", "Closed"}

\* The types of the engine's fields.  Between packets fin_count is at most 1, for
\* the second FIN removes the flow; no Closed flow outlives its packet, which is
\* why expire_idle_by_timeout can leave the Closed clause of expire_flows out; and
\* a direction has an ISN, and so can hold bytes, only once the initiator is
\* known, so that the direction of a sender never changes under its bytes.
TypeOK ==
    /\ DOMAIN eng.flows \subseteq Key
    /\ \A k \in DOMAIN eng.flows :
          LET f == eng.flows[k]
          IN  /\ DOMAIN f.dir = Direction
              /\ f.state \in FlowState \ {"Closed"}
              /\ f.initiator \in k \cup {NoEndpoint}
              /\ f.state # "New" => f.initiator # NoEndpoint
              /\ \A d \in Direction : f.dir[d].isn # NoIsn => f.initiator # NoEndpoint
              /\ f.state = "New" => \A d \in Direction : DOMAIN f.dir[d].segments = {}
              /\ f.fin_count \in {0, 1}
              /\ f.last_seen \in Time
              /\ f.last_activity_index \in 1 .. eng.packet_index
    /\ eng.total_memory \in Nat
    /\ eng.findings \in Nat
    /\ \A c \in DOMAIN eng.stats : eng.stats[c] \in Nat
    /\ eng.packet_index \in 0 .. MaxPackets
    /\ eng.last_expiry_sweep_secs \in Time \cup {0}
    /\ DOMAIN eng.calls = Key

\* BC-2.04.014: total_memory, kept up to date by differences at every insert,
\* flush and close, never drifts from the bytes the buffers of the live flows
\* really hold.
MemoryExact ==
    /\ eng.total_memory = MemoryOf(eng.flows, DOMAIN eng.flows)
    /\ \A k \in DOMAIN eng.flows : \A d \in Direction :
          LET dir == eng.flows[k].dir[d]
          IN  dir.buffered_bytes = Cardinality(Covered(dir.segments))

\* Between packets all resource limits hold: whatever arrives, one pass of
\* evict_flows is enough, and get_or_create_flow never finds the table still
\* full after an eviction.  Only the segment-limit summary of finalize goes over
\* the findings cap, and a finding is dropped only when the list is full.
WithinLimits ==
    /\ eng.total_memory <= Memcap
    /\ Cardinality(DOMAIN eng.flows) <= MaxFlows
    /\ eng.findings <= MaxFindings + (IF eng.finalized /\ eng.segment_limit_hit THEN 1 ELSE 0)
    /\ eng.stats.dropped_findings > 0 => eng.findings >= MaxFindings

\* Every flow ever created is in the table or was retired for exactly one
\* counted reason (finalize closes the rest without counting them).
FlowsAccounted ==
    LET s       == eng.stats
        retired == s.flows_fin + s.flows_rst + s.flows_expired + s.evictions
    IN  IF eng.finalized
        THEN DOMAIN eng.flows = {} /\ retired <= s.flows_total
        ELSE s.flows_total = Cardinality(DOMAIN eng.flows) + retired

\* R4: whatever the timestamps do, no flow stays in the table after
\* idle_packet_threshold plus one sweep interval of packets without activity.
IdlePacketsBounded ==
    ExpirySweepInterval > 0 =>
        \A k \in DOMAIN eng.flows :
            eng.packet_index - eng.flows[k].last_activity_index
                < IdlePacketThreshold + ExpirySweepInterval

\* A capture in which every payload byte is named after its sender.  The engine
\* looks at a byte only to compare it with another one.
BytesNameSenders == \A p \in Packet : \A i \in DOMAIN p.data : p.data[i] = p.src

\* the bytes of segs are all the initiator's, or none of them is
FromSide(segs, initiator, d) ==
    \A s \in DOMAIN segs : \A i \in DOMAIN segs[s] :
        segs[s][i] = initiator <=> d = "ClientToServer"

\* The bytes of a direction come from one endpoint only: the initiator's in
\* ClientToServer, its peer's in ServerToClient, whatever order SYN, SYN+ACK and
\* mid-stream data arrive in.
SidesNotMixed ==
    \A k \in DOMAIN eng.flows : \A d \in Direction :
        FromSide(eng.flows[k].dir[d].segments, eng.flows[k].initiator, d)

-----------------------------------------------------------------------------
(* Action properties: what the handler sees of one step                    *)

\* Where the next byte of direction d of key k is due.
NextOffset(e, k, d) ==
    IF k \in DOMAIN e.flows THEN e.flows[k].dir[d].reassembled_bytes + 1 ELSE 1

MinOf(S) == CHOOSE m \in S : \A n \in S : m <= n

MaxOf(S) == CHOOSE m \in S : \A n \in S : n <= m

SliceEnd(slices) ==
    MinOf(DOMAIN slices)
      + Cardinality(UNION {{s} \X (1 .. Len(slices[s])) : s \in DOMAIN slices})

\* The entries before i that tell where direction d stands.
Earlier(calls, i, d) ==
    {j \in 1 .. (i - 1) : calls[j].op = "close" \/ calls[j].dir = d}

\* The offset at which entry i of the calls for k has to continue direction d:
\* after the previous flush of d in the same life of the flow.
Due(before, calls, i, d) ==
    LET earlier == Earlier(calls, i, d)
        last    == MaxOf(earlier)
    IN  IF earlier = {} THEN before
        ELSE IF calls[last].op = "close" THEN 1
        ELSE SliceEnd(calls[last].slices)

\* The calls take direction d from offset before to offset after, slice by slice.
Follows(before, calls, after, d) ==
    /\ \A i \in 1 .. Len(calls) :
          calls[i].op = "data" /\ calls[i].dir = d =>
              MinOf(DOMAIN calls[i].slices) = Due(before, calls, i, d)
    /\ after = Due(before, calls, Len(calls) + 1, d)

\* The contract of StreamHandler: within one life of a flow the slices of a
\* direction follow one another from offset 1 without hole or repeat, across
\* flushes, sweeps, evictions and the reuse of a key after its close.
StreamsContiguousStep ==
    \A k \in Key : \A d \in Direction :
        Follows(NextOffset(eng, k, d), eng'.calls[k], NextOffset(eng', k, d), d)

StreamsContiguous == [][StreamsContiguousStep]_eng

\* The entries of one key that report a close.
Closes(calls) == {i \in DOMAIN calls : calls[i].op = "close"}

\* on_flow_close is called exactly once for every flow that leaves the table,
\* the flows created and closed within one packet included.
ClosedOnceStep ==
    LET created == eng'.stats.flows_total - eng.stats.flows_total
    IN  /\ SumOver([k \in Key |-> Cardinality(Closes(eng'.calls[k]))], Key)
             = Cardinality(DOMAIN eng.flows) + created - Cardinality(DOMAIN eng'.flows)
        /\ \A k \in DOMAIN eng.flows \ DOMAIN eng'.flows : Closes(eng'.calls[k]) # {}

ClosedOnce == [][ClosedOnceStep]_eng

\* BC-2.04.013: when capture time moves past the last sweep, no flow idle for
\* more than flow_timeout_secs is left.
SweepCompleteStep ==
    eng'.last_expiry_sweep_secs > eng.last_expiry_sweep_secs =>
        \A k \in DOMAIN eng'.flows :
            ~TimedOut(eng'.flows[k], eng'.last_expiry_sweep_secs)

SweepComplete == [][SweepCompleteStep]_eng

-----------------------------------------------------------------------------
(* What the comments of the code claim and the code does not do.           *)

\* mod.rs, last_expiry_sweep_secs: "no idle flow escapes expiry for longer than
\* one sweep period", so the packet of flow l leaves no flow k behind that had
\* been idle for longer than the timeout at that packet's timestamp.
NoIdleFlowEscapes ==
    \A k, l \in DOMAIN eng.flows :
        eng.flows[k].last_activity_index < eng.flows[l].last_activity_index =>
            ~TimedOut(eng.flows[k], eng.flows[l].last_seen)
=============================================================================
