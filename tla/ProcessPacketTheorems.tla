----------------------- MODULE ProcessPacketTheorems ------------------------
(***************************************************************************)
(* What process_packet does for the flow of the packet: finding or         *)
(* creating it, its handshake flags, its payload, and the FIN or RST at    *)
(* the end.                                                                *)
(***************************************************************************)
EXTENDS EngineTheorems

-----------------------------------------------------------------------------
(* One flow is put into the table, or replaced                             *)

HeldBefore(e, k) == IF k \in DOMAIN e.flows THEN MemoryUsed(e.flows[k]) ELSE 0

CreatedFor(e, k) == IF k \in DOMAIN e.flows THEN 0 ELSE 1

Puts(e, r, k, g) ==
    /\ DOMAIN r = EngineFields
    /\ DOMAIN r.flows = DOMAIN e.flows \cup {k}
    /\ r.flows[k] = g
    /\ \A l \in DOMAIN e.flows \ {k} : r.flows[l] = e.flows[l]
    /\ r.total_memory = e.total_memory + (MemoryUsed(g) - HeldBefore(e, k))
    /\ DOMAIN r.calls = Key
    /\ r.findings \in Nat /\ r.findings <= MaxFindings
    /\ r.stats.dropped_findings > 0 => r.findings >= MaxFindings
    /\ r.segment_limit_hit \in BOOLEAN
    /\ r.packet_index = e.packet_index
    /\ r.last_expiry_sweep_secs = e.last_expiry_sweep_secs
    /\ r.finalized = e.finalized
    /\ DOMAIN r.stats = StatFields /\ \A c \in StatFields : r.stats[c] \in Nat
    /\ r.stats.flows_total = e.stats.flows_total + CreatedFor(e, k)
    /\ RetiredCount(r.stats) = RetiredCount(e.stats)

\* The books stay balanced when one flow changes and total_memory with it.
LEMMA PutOK ==
    ASSUME NEW e, Core(e), NEW k \in Key, NEW g, FlowOK(g, k),
           g.last_activity_index \in 1 .. e.packet_index, NEW r, Puts(e, r, k, g)
    PROVE  /\ Core(r)
           /\ Cardinality(DOMAIN r.flows) = Cardinality(DOMAIN e.flows) + CreatedFor(e, k)
<1> DEFINE D == DOMAIN e.flows
<1>1. Shape(r)
  BY DEF Core, Shape, Puts
<1>2. IsFiniteSet(D) /\ Sized(e.flows, D) /\ Cardinality(D) \in Nat
  BY TableSized, FS_CardinalityType DEF Core, TableOK
<1>3. /\ IsFiniteSet(D \cup {k})
      /\ Cardinality(D \cup {k}) = Cardinality(D) + CreatedFor(e, k)
  <2>1. IsFiniteSet(D \cup {k})
    BY <1>2, FS_AddElement
  <2>2. CASE k \in D
    <3>1. D \cup {k} = D /\ CreatedFor(e, k) = 0
      BY <2>2 DEF CreatedFor
    <3>2. Cardinality(D \cup {k}) = Cardinality(D)
      BY <3>1, Zenon
    <3> HIDE DEF D
    <3> QED BY <1>2, <2>1, <3>1, <3>2
  <2>3. CASE k \notin D
    BY <1>2, <2>1, <2>3, FS_AddElement DEF CreatedFor
  <2> QED BY <2>1, <2>2, <2>3
<1>4. TableOK(r)
  <2>1. DOMAIN r.flows = D \cup {k} /\ r.packet_index = e.packet_index /\ r.flows[k] = g
    BY DEF Puts
  <2>2. D \subseteq Key /\ \A l \in D : FlowOK(e.flows[l], l) /\ e.flows[l].last_activity_index \in 1 .. e.packet_index
    BY DEF Core, TableOK
  <2>3. \A l \in D \ {k} : r.flows[l] = e.flows[l]
    BY DEF Puts
  <2>4. ASSUME NEW l \in D \cup {k}
        PROVE  FlowOK(r.flows[l], l) /\ r.flows[l].last_activity_index \in 1 .. r.packet_index
    BY <2>1, <2>2, <2>3
  <2> QED BY <1>3, <2>1, <2>2, <2>4 DEF TableOK
<1>5. r.total_memory = MemoryOf(r.flows, DOMAIN r.flows)
  <2> DEFINE rest == MemoryOf(e.flows, D \ {k})
  <2> DEFINE R == DOMAIN r.flows
  <2>1. Sized(r.flows, R) /\ k \in R
    BY <1>4, TableSized, Zenon DEF Puts
  <2>2. R \ {k} = D \ {k} /\ r.flows[k] = g
    BY DEF Puts
  <2> HIDE DEF R
  <2>3. /\ MemoryOf(r.flows, R) = MemoryUsed(r.flows[k]) + MemoryOf(r.flows, R \ {k})
        /\ MemoryUsed(r.flows[k]) \in Nat
    BY <2>1, MemoryPick
  <2>4. MemoryOf(r.flows, D \ {k}) = rest
    <3>1. \A l \in D \ {k} : MemoryUsed(r.flows[l]) = MemoryUsed(e.flows[l])
      BY DEF Puts
    <3> QED BY <3>1, MemorySame
  <2>5. /\ rest \in Nat /\ HeldBefore(e, k) \in Nat
        /\ MemoryOf(e.flows, D) = HeldBefore(e, k) + rest
    <3>1. CASE k \in D
      BY <1>2, <3>1, MemoryPick DEF HeldBefore
    <3>2. CASE k \notin D
      <4>1. D \ {k} = D /\ HeldBefore(e, k) = 0
        BY <3>2 DEF HeldBefore
      <4>2. MemoryOf(e.flows, D) \in Nat
        BY <1>2, MemoryNat
      <4> QED BY <4>1, <4>2
    <3> QED BY <3>1, <3>2
  <2>6. /\ e.total_memory = MemoryOf(e.flows, D)
        /\ r.total_memory = e.total_memory + (MemoryUsed(g) - HeldBefore(e, k))
    BY DEF Core, Balanced, Puts
  <2>7. MemoryOf(r.flows, DOMAIN r.flows) = MemoryUsed(g) + rest
    BY <2>2, <2>3, <2>4 DEF R
  <2>8. MemoryUsed(g) \in Nat
    BY <2>2, <2>3
  <2> HIDE DEF rest, D
  <2> QED BY <2>5, <2>6, <2>7, <2>8
<1>6. r.stats.flows_total = Cardinality(DOMAIN r.flows) + RetiredCount(r.stats)
  <2>1. RetiredCount(e.stats) \in Nat
    BY DEF Core, Shape, StatFields, RetiredCount
  <2>2. /\ e.stats.flows_total = Cardinality(D) + RetiredCount(e.stats)
        /\ r.stats.flows_total = e.stats.flows_total + CreatedFor(e, k)
        /\ DOMAIN r.flows = D \cup {k}
        /\ RetiredCount(r.stats) = RetiredCount(e.stats)
    BY DEF Core, Balanced, Puts
  <2>3. CreatedFor(e, k) \in Nat
    BY DEF CreatedFor
  <2> HIDE DEF D
  <2> QED BY <1>2, <1>3, <2>1, <2>2, <2>3
<1>7. Balanced(r)
  BY <1>5, <1>6 DEF Balanced, Puts
<1> QED BY <1>1, <1>3, <1>4, <1>7 DEF Core, Puts

\* A flow that is put into the table as it was, or empty, tells the handler nothing.
LEMMA PutHears ==
    ASSUME NEW e, NEW k, NEW r, DOMAIN r.flows = DOMAIN e.flows \cup {k},
           \A l \in DOMAIN e.flows \ {k} : r.flows[l] = e.flows[l],
           IF k \in DOMAIN e.flows
           THEN SameOffsets(e.flows[k], r.flows[k])
           ELSE \A d \in Direction : r.flows[k].dir[d].reassembled_bytes = 0,
           r.calls = e.calls, RetiredCount(r.stats) = RetiredCount(e.stats)
    PROVE  Hears(e, r)
<1>1. ASSUME NEW l \in Key, NEW d \in Direction
      PROVE  NextOffset(r, l, d) = NextOffset(e, l, d)
  BY DEF NextOffset, SameOffsets
<1> QED BY <1>1, SilentHears

Touched(e, k, ts) ==
    [e EXCEPT !.flows[k].last_seen = ts, !.flows[k].last_activity_index = e.packet_index]

Created(e, k, ts) ==
    [e EXCEPT !.flows = [l \in DOMAIN e.flows \cup {k} |-> IF l = k THEN NewFlow(ts) ELSE e.flows[l]],
              !.stats.flows_total = @ + 1]

IsTouched(e, r, k, ts) ==
    /\ DOMAIN r = EngineFields
    /\ \A x \in EngineFields \ {"flows"} : r[x] = e[x]
    /\ DOMAIN r.flows = DOMAIN e.flows
    /\ \A l \in DOMAIN e.flows \ {k} : r.flows[l] = e.flows[l]
    /\ r.flows[k] = Stamp(e.flows[k], ts, e.packet_index)

IsCreated(e, r, k, ts) ==
    /\ DOMAIN r = EngineFields
    /\ \A x \in EngineFields \ {"flows", "stats"} : r[x] = e[x]
    /\ DOMAIN r.flows = DOMAIN e.flows \cup {k}
    /\ \A l \in DOMAIN e.flows \ {k} : r.flows[l] = e.flows[l]
    /\ r.flows[k] = NewFlow(ts)
    /\ DOMAIN r.stats = StatFields
    /\ r.stats.flows_total = e.stats.flows_total + 1
    /\ \A c \in StatFields \ {"flows_total"} : r.stats[c] = e.stats[c]

\* The flow of the packet is in the table, stamped.
PutStamped(e, r, k, ts) ==
    /\ Puts(e, r, k, r.flows[k])
    /\ FlowOK(r.flows[k], k)
    /\ r.flows[k].last_seen = ts
    /\ r.flows[k].last_activity_index = e.packet_index

\* What stamping a flow changes.
LEMMA TouchedFields ==
    ASSUME NEW e, DOMAIN e = EngineFields, NEW k \in DOMAIN e.flows, NEW ts, NEW r, r = Touched(e, k, ts)
    PROVE  IsTouched(e, r, k, ts)
BY Zenon DEF Touched, Stamp, EngineFields, IsTouched

\* What creating a flow changes.
LEMMA CreatedFields ==
    ASSUME NEW e, Shape(e), NEW k, NEW ts, NEW r, r = Created(e, k, ts)
    PROVE  IsCreated(e, r, k, ts)
<1>1. DOMAIN e = EngineFields /\ DOMAIN e.stats = StatFields
  BY DEF Shape
<1> DEFINE flows == [l \in DOMAIN e.flows \cup {k} |-> IF l = k THEN NewFlow(ts) ELSE e.flows[l]]
           stats == [e.stats EXCEPT !.flows_total = @ + 1]
<1>2. r = [e EXCEPT !.flows = flows, !.stats = stats]
  BY DEF Created
<1>3. /\ DOMAIN flows = DOMAIN e.flows \cup {k} /\ flows[k] = NewFlow(ts)
      /\ \A l \in DOMAIN e.flows \ {k} : flows[l] = e.flows[l]
  OBVIOUS
<1>4. /\ DOMAIN stats = StatFields /\ stats.flows_total = e.stats.flows_total + 1
      /\ \A c \in StatFields \ {"flows_total"} : stats[c] = e.stats[c]
  BY <1>1 DEF StatFields
<1> HIDE DEF flows, stats
<1>5. /\ DOMAIN r = EngineFields /\ r.flows = flows /\ r.stats = stats
      /\ \A x \in EngineFields \ {"flows", "stats"} : r[x] = e[x]
  BY <1>1, <1>2, Zenon DEF EngineFields
<1> QED BY <1>3, <1>4, <1>5 DEF IsCreated

\* A known flow is stamped.
LEMMA TouchPuts ==
    ASSUME NEW e, Core(e), NEW k \in DOMAIN e.flows, NEW ts \in Time, e.packet_index > 0,
           NEW r, r = Touched(e, k, ts)
    PROVE  /\ PutStamped(e, r, k, ts)
           /\ r.flows[k].state = e.flows[k].state
           /\ MemoryUsed(r.flows[k]) = MemoryUsed(e.flows[k])
           /\ Hears(e, r)
<1>1. Shape(e) /\ FlowOK(e.flows[k], k) /\ e.packet_index \in Nat
  BY DEF Core, TableOK, Shape
<1>2. /\ DOMAIN r = EngineFields
      /\ \A x \in EngineFields \ {"flows"} : r[x] = e[x]
      /\ DOMAIN r.flows = DOMAIN e.flows
      /\ \A l \in DOMAIN e.flows \ {k} : r.flows[l] = e.flows[l]
      /\ r.flows[k] = Stamp(e.flows[k], ts, e.packet_index)
  <2>1. DOMAIN e = EngineFields
    BY <1>1 DEF Shape
  <2>2. IsTouched(e, r, k, ts)
    BY <2>1, TouchedFields
  <2> QED BY <2>2 DEF IsTouched
<1>3. /\ FlowOK(r.flows[k], k) /\ MemoryUsed(r.flows[k]) = MemoryUsed(e.flows[k])
      /\ r.flows[k].state = e.flows[k].state
      /\ r.flows[k].last_seen = ts /\ r.flows[k].last_activity_index = e.packet_index
  BY <1>1, <1>2, TouchOK
<1>4. /\ r.total_memory = e.total_memory /\ r.findings = e.findings /\ r.stats = e.stats
      /\ r.segment_limit_hit = e.segment_limit_hit /\ r.packet_index = e.packet_index
      /\ r.last_expiry_sweep_secs = e.last_expiry_sweep_secs /\ r.finalized = e.finalized
      /\ r.calls = e.calls
  BY <1>2 DEF EngineFields
<1>5. r.total_memory = e.total_memory + (MemoryUsed(r.flows[k]) - HeldBefore(e, k))
  <2>1. MemoryUsed(e.flows[k]) \in Nat /\ HeldBefore(e, k) = MemoryUsed(e.flows[k])
    BY <1>1, MemoryUsedNat DEF HeldBefore
  <2>2. e.total_memory \in Nat
    BY CoreNat
  <2> QED BY <1>3, <1>4, <2>1, <2>2
<1>6. e.stats.flows_total = e.stats.flows_total + CreatedFor(e, k)
  BY <1>1 DEF CreatedFor, Shape, StatFields
<1>7. /\ e.findings \in Nat /\ e.findings <= MaxFindings
      /\ e.stats.dropped_findings > 0 => e.findings >= MaxFindings
      /\ DOMAIN e.stats = StatFields /\ \A c \in StatFields : e.stats[c] \in Nat
      /\ e.segment_limit_hit \in BOOLEAN /\ DOMAIN e.calls = Key
  BY DEF Core, Shape, Balanced
<1>8. DOMAIN r.flows = DOMAIN e.flows \cup {k}
  BY <1>2
<1>9. Puts(e, r, k, r.flows[k])
  BY <1>2, <1>4, <1>5, <1>6, <1>7, <1>8 DEF Puts
<1>10. SameOffsets(e.flows[k], r.flows[k])
  BY <1>1, <1>2 DEF SameOffsets, Stamp, FlowOK, FlowFields
<1>11. Hears(e, r)
  BY <1>2, <1>4, <1>8, <1>10, PutHears, ZenonT(30)
<1> QED BY <1>3, <1>9, <1>11 DEF PutStamped

\* A flow is created and stamped.
LEMMA CreatePuts ==
    ASSUME NEW e, Core(e), NEW k, k \notin DOMAIN e.flows, NEW ts \in Time, e.packet_index > 0,
           NEW r, r = Touched(Created(e, k, ts), k, ts)
    PROVE  /\ PutStamped(e, r, k, ts)
           /\ r.flows[k].state = "New"
           /\ r.total_memory = e.total_memory
           /\ Hears(e, r)
<1> DEFINE c == Created(e, k, ts)
<1>1. Shape(e) /\ e.packet_index \in Nat
  BY DEF Core, Shape
<1>2. /\ DOMAIN c = EngineFields
      /\ \A x \in EngineFields \ {"flows", "stats"} : c[x] = e[x]
      /\ DOMAIN c.flows = DOMAIN e.flows \cup {k}
      /\ \A l \in DOMAIN e.flows \ {k} : c.flows[l] = e.flows[l]
      /\ c.flows[k] = NewFlow(ts)
      /\ DOMAIN c.stats = StatFields
      /\ c.stats.flows_total = e.stats.flows_total + 1
      /\ \A x \in StatFields \ {"flows_total"} : c.stats[x] = e.stats[x]
  <2>1. IsCreated(e, c, k, ts)
    BY <1>1, CreatedFields
  <2> QED BY <2>1 DEF IsCreated
<1> HIDE DEF c
<1>3. /\ DOMAIN r = EngineFields
      /\ \A x \in EngineFields \ {"flows"} : r[x] = c[x]
      /\ DOMAIN r.flows = DOMAIN c.flows
      /\ \A l \in DOMAIN c.flows \ {k} : r.flows[l] = c.flows[l]
      /\ r.flows[k] = Stamp(c.flows[k], ts, c.packet_index)
  <2>1. r = Touched(c, k, ts) /\ k \in DOMAIN c.flows
    BY <1>2 DEF c
  <2>2. DOMAIN c = EngineFields
    BY <1>2
  <2>3. IsTouched(c, r, k, ts)
    BY <2>1, <2>2, TouchedFields
  <2> QED BY <2>3 DEF IsTouched
<1>4. /\ c.total_memory = e.total_memory /\ c.findings = e.findings
      /\ c.segment_limit_hit = e.segment_limit_hit /\ c.packet_index = e.packet_index
      /\ c.last_expiry_sweep_secs = e.last_expiry_sweep_secs /\ c.finalized = e.finalized
      /\ c.calls = e.calls
  BY <1>2 DEF EngineFields
<1>5. /\ r.total_memory = c.total_memory /\ r.findings = c.findings /\ r.stats = c.stats
      /\ r.segment_limit_hit = c.segment_limit_hit /\ r.packet_index = c.packet_index
      /\ r.last_expiry_sweep_secs = c.last_expiry_sweep_secs /\ r.finalized = c.finalized
      /\ r.calls = c.calls
  BY <1>3 DEF EngineFields
<1>6. FlowOK(c.flows[k], k) /\ MemoryUsed(c.flows[k]) = 0 /\ c.flows[k].state = "New"
  BY <1>2, NewFlowOK DEF NewFlow
<1>7. /\ FlowOK(r.flows[k], k) /\ MemoryUsed(r.flows[k]) = 0 /\ r.flows[k].state = "New"
      /\ r.flows[k].last_seen = ts /\ r.flows[k].last_activity_index = e.packet_index
  <2>1. r.flows[k] = Stamp(c.flows[k], ts, e.packet_index)
    BY <1>3, <1>4
  <2> QED BY <1>1, <1>6, <2>1, TouchOK
<1>8. e.total_memory = e.total_memory + (MemoryUsed(r.flows[k]) - HeldBefore(e, k))
  <2>1. HeldBefore(e, k) = 0 /\ e.total_memory \in Nat
    BY CoreNat DEF HeldBefore
  <2> QED BY <1>7, <2>1
<1>9. /\ e.findings \in Nat /\ e.findings <= MaxFindings
      /\ e.stats.dropped_findings > 0 => e.findings >= MaxFindings
      /\ \A x \in StatFields : e.stats[x] \in Nat
      /\ e.segment_limit_hit \in BOOLEAN /\ DOMAIN e.calls = Key
  BY DEF Core, Shape, Balanced
<1>10. /\ \A x \in StatFields : r.stats[x] \in Nat
       /\ r.stats.flows_total = e.stats.flows_total + CreatedFor(e, k)
       /\ RetiredCount(r.stats) = RetiredCount(e.stats)
       /\ r.stats.dropped_findings = e.stats.dropped_findings
  <2>1. /\ r.stats.flows_total = e.stats.flows_total + 1
        /\ \A x \in StatFields \ {"flows_total"} : r.stats[x] = e.stats[x]
    BY <1>2, <1>5
  <2>2. r.stats.flows_total \in Nat
    BY <1>9, <2>1 DEF StatFields
  <2>3. \A x \in StatFields : r.stats[x] \in Nat
    BY <1>9, <2>1, <2>2
  <2>4. RetiredCount(r.stats) = RetiredCount(e.stats)
    BY <2>1 DEF RetiredCount, StatFields
  <2>5. r.stats.dropped_findings = e.stats.dropped_findings
    BY <2>1 DEF StatFields
  <2>6. CreatedFor(e, k) = 1
    BY DEF CreatedFor
  <2> QED BY <2>1, <2>3, <2>4, <2>5, <2>6
<1>11. /\ DOMAIN r.flows = DOMAIN e.flows \cup {k}
       /\ \A l \in DOMAIN e.flows \ {k} : r.flows[l] = e.flows[l]
  BY <1>2, <1>3
<1>12. Puts(e, r, k, r.flows[k])
  BY <1>2, <1>3, <1>4, <1>5, <1>8, <1>9, <1>10, <1>11 DEF Puts
<1>13. \A d \in Direction : r.flows[k].dir[d].reassembled_bytes = 0
  <2>1. r.flows[k].dir = c.flows[k].dir
    <3>1. DOMAIN c.flows[k] = FlowFields /\ r.flows[k] = Stamp(c.flows[k], ts, c.packet_index)
      BY <1>3, <1>6, Zenon DEF FlowOK
    <3> QED BY <3>1 DEF Stamp, FlowFields
  <2>2. \A d \in Direction : NewFlow(ts).dir[d] = NewDirection
    BY DEF NewFlow
  <2>3. NewDirection.reassembled_bytes = 0
    BY DEF NewDirection
  <2> QED BY <1>2, <2>1, <2>2, <2>3
<1>14. Hears(e, r)
  <2>1. r.calls = e.calls /\ RetiredCount(r.stats) = RetiredCount(e.stats)
    BY <1>4, <1>5, <1>10
  <2> QED BY <1>11, <1>13, <2>1, PutHears, Zenon
<1> QED BY <1>4, <1>5, <1>7, <1>12, <1>14 DEF PutStamped

\* The targets of the two triggers leave room for one more flow.
LEMMA TargetsLeaveRoom ==
    /\ HeadroomTarget \in Nat /\ HeadroomTarget < MaxFlows
    /\ MemcapTarget \in Nat /\ MemcapTarget < MaxFlows
<1>1. MaxFlows \in Nat /\ MaxFlows > 0
  BY ReassemblerConstants
<1>2. (MaxFlows * 9) \div 10 \in Nat
  BY <1>1
<1> QED BY <1>1, <1>2 DEF HeadroomTarget, MemcapTarget

\* The flow of the packet is in the table, stamped, and no other has changed.
GotFlow(e, r, k, ts) ==
    /\ Settled(r) /\ k \in DOMAIN r.flows /\ Hears(e, r)
    /\ r.flows[k].last_seen = ts /\ r.flows[k].last_activity_index = e.packet_index
    /\ \A l \in DOMAIN r.flows \ {k} : l \in DOMAIN e.flows /\ r.flows[l] = e.flows[l]
    /\ r.packet_index = e.packet_index
    /\ r.last_expiry_sweep_secs = e.last_expiry_sweep_secs
    /\ r.finalized = e.finalized

\* get_or_create_flow always finds or makes room: afterwards the flow is in the
\* table, stamped, and no other flow has changed.
LEMMA GetOrCreateOK ==
    ASSUME NEW e, Settled(e), e.packet_index > 0, NEW k \in Key, NEW ts \in Time,
           NEW r \in GetOrCreateFlow(e, k, ts)
    PROVE  GotFlow(e, r, k, ts)
<1>1. e.packet_index \in Nat /\ e.packet_index \in 1 .. e.packet_index
  BY CoreNat DEF Settled
<1>2. CASE k \in DOMAIN e.flows
  <2>1. r = Touched(e, k, ts)
    BY <1>2 DEF GetOrCreateFlow, Touched
  <2>2. /\ Puts(e, r, k, r.flows[k]) /\ FlowOK(r.flows[k], k)
        /\ r.flows[k].last_seen = ts /\ r.flows[k].last_activity_index = e.packet_index
        /\ r.flows[k].state = e.flows[k].state
        /\ MemoryUsed(r.flows[k]) = MemoryUsed(e.flows[k]) /\ Hears(e, r)
    <3>1. Core(e)
      BY DEF Settled
    <3>2. /\ PutStamped(e, r, k, ts) /\ r.flows[k].state = e.flows[k].state
          /\ MemoryUsed(r.flows[k]) = MemoryUsed(e.flows[k]) /\ Hears(e, r)
      BY <1>2, <2>1, <3>1, TouchPuts
    <3> QED BY <3>2 DEF PutStamped
  <2>3. Core(r) /\ Cardinality(DOMAIN r.flows) = Cardinality(DOMAIN e.flows) + CreatedFor(e, k)
    BY <1>1, <2>2, PutOK DEF Settled
  <2>4. /\ DOMAIN r.flows = DOMAIN e.flows
        /\ \A l \in DOMAIN e.flows \ {k} : r.flows[l] = e.flows[l]
        /\ r.packet_index = e.packet_index
        /\ r.last_expiry_sweep_secs = e.last_expiry_sweep_secs /\ r.finalized = e.finalized
    BY <1>2, <2>2 DEF Puts
  <2>5. NoneClosed(r)
    BY <1>2, <2>2, <2>4 DEF Settled, NoneClosed
  <2>6. r.total_memory = e.total_memory
    <3>1. MemoryUsed(e.flows[k]) \in Nat /\ e.total_memory \in Nat
      BY <1>2, MemoryUsedNat, CoreNat DEF Settled, Core, TableOK
    <3>2. r.total_memory = e.total_memory + (MemoryUsed(r.flows[k]) - MemoryUsed(e.flows[k]))
      BY <1>2, <2>2 DEF Puts, HeldBefore
    <3> QED BY <2>2, <3>1, <3>2
  <2>7. Limits(r)
    BY <2>4, <2>6 DEF Settled, Limits
  <2> QED BY <1>2, <2>2, <2>3, <2>4, <2>5, <2>7 DEF Settled, GotFlow
<1>3. CASE k \notin DOMAIN e.flows
  <2>1. PICK m \in IF Cardinality(DOMAIN e.flows) >= MaxFlows THEN EvictFlows(e, HeadroomTarget) ELSE {e} :
          r = IF Cardinality(DOMAIN m.flows) >= MaxFlows THEN m ELSE Touched(Created(m, k, ts), k, ts)
    BY <1>3, Zenon DEF GetOrCreateFlow, Touched, Created
  <2>2. Core(e) /\ e.total_memory <= Memcap /\ Cardinality(DOMAIN e.flows) \in Nat /\ MaxFlows \in Nat
    BY CoreNat, ReassemblerConstants DEF Settled, Limits
  <2>3. /\ Core(m) /\ FlowsKept(e, m) /\ Later(e, m) /\ Hears(e, m) /\ m.total_memory <= Memcap
        /\ Cardinality(DOMAIN m.flows) < MaxFlows
    <3>1. CASE Cardinality(DOMAIN e.flows) >= MaxFlows
      <4>1. m \in EvictFlows(e, HeadroomTarget)
        BY <2>1, <3>1
      <4>2. /\ Core(m) /\ FlowsKept(e, m) /\ Later(e, m) /\ Hears(e, m) /\ m.total_memory <= Memcap
            /\ Cardinality(DOMAIN m.flows) <= HeadroomTarget
        BY <2>2, <4>1, EvictOK, TargetsLeaveRoom
      <4>3. Cardinality(DOMAIN m.flows) \in Nat
        BY <4>2, CoreNat
      <4> QED BY <2>2, <4>2, <4>3, TargetsLeaveRoom
    <3>2. CASE ~(Cardinality(DOMAIN e.flows) >= MaxFlows)
      <4>1. m = e
        BY <2>1, <3>2
      <4> QED BY <2>2, <3>2, <4>1 DEF FlowsKept, Later, SameTimes, Hears
    <3> QED BY <3>1, <3>2
  <2>4. Cardinality(DOMAIN m.flows) \in Nat
    BY <2>3, CoreNat
  <2>5. r = Touched(Created(m, k, ts), k, ts)
    BY <2>1, <2>2, <2>3, <2>4
  <2>6. k \notin DOMAIN m.flows /\ m.packet_index = e.packet_index
    BY <1>3, <2>3 DEF FlowsKept, Later
  <2>7. /\ Puts(m, r, k, r.flows[k]) /\ FlowOK(r.flows[k], k)
        /\ r.flows[k].last_seen = ts /\ r.flows[k].last_activity_index = e.packet_index
        /\ r.flows[k].state = "New" /\ r.total_memory = m.total_memory /\ Hears(m, r)
    <3>1. m.packet_index > 0
      BY <2>6
    <3>2. /\ PutStamped(m, r, k, ts) /\ r.flows[k].state = "New"
          /\ r.total_memory = m.total_memory /\ Hears(m, r)
      <4>1. Core(m) /\ k \notin DOMAIN m.flows /\ r = Touched(Created(m, k, ts), k, ts)
        BY <2>3, <2>5, <2>6
      <4> QED BY <3>1, <4>1, CreatePuts
    <3> QED BY <2>6, <3>2 DEF PutStamped
  <2>8. Core(r) /\ Cardinality(DOMAIN r.flows) = Cardinality(DOMAIN m.flows) + CreatedFor(m, k)
    BY <1>1, <2>3, <2>6, <2>7, PutOK
  <2>9. /\ DOMAIN r.flows = DOMAIN m.flows \cup {k}
        /\ \A l \in DOMAIN m.flows \ {k} : r.flows[l] = m.flows[l]
        /\ r.packet_index = m.packet_index
        /\ r.last_expiry_sweep_secs = m.last_expiry_sweep_secs /\ r.finalized = m.finalized
    BY <2>7 DEF Puts
  <2>10. \A l \in DOMAIN r.flows \ {k} : l \in DOMAIN e.flows /\ r.flows[l] = e.flows[l]
    BY <2>3, <2>9 DEF FlowsKept
  <2>11. NoneClosed(r)
    BY <2>7, <2>10 DEF Settled, NoneClosed
  <2>12. Limits(r)
    BY <2>2, <2>3, <2>4, <2>6, <2>7, <2>8, SMTT(30) DEF Limits, CreatedFor
  <2>13. Hears(e, r)
    BY <2>3, <2>7, HearsTrans
  <2> QED BY <2>3, <2>7, <2>8, <2>9, <2>10, <2>11, <2>12, <2>13 DEF Settled, Later, GotFlow
<1> QED BY <1>2, <1>3

-----------------------------------------------------------------------------
(* The rest of process_packet                                              *)

\* apply_handshake_flags, in the table.
LEMMA ShakenOK ==
    ASSUME NEW e, Core(e), NEW p \in Packet, FlowKey(p) \in DOMAIN e.flows,
           e.flows[FlowKey(p)].state # "Closed",
           NEW r, r = [e EXCEPT !.flows[FlowKey(p)] = ApplyHandshakeFlags(@, p)]
    PROVE  /\ Core(r) /\ Later(e, r) /\ DOMAIN r.flows = DOMAIN e.flows
           /\ r.total_memory = e.total_memory /\ Hears(e, r)
           /\ \A l \in DOMAIN e.flows \ {FlowKey(p)} : r.flows[l] = e.flows[l]
<1> DEFINE k == FlowKey(p)
           g == ApplyHandshakeFlags(e.flows[k], p)
<1>1. Shape(e) /\ FlowOK(e.flows[k], k) /\ e.flows[k].last_activity_index \in 1 .. e.packet_index
  BY DEF Core, TableOK
<1>2. /\ FlowOK(g, k) /\ SameTimes(e.flows[k], g) /\ SameOffsets(e.flows[k], g)
      /\ MemoryUsed(g) = MemoryUsed(e.flows[k])
  BY <1>1, HandshakeOK
<1>3. DOMAIN e = EngineFields /\ k \in Key
  BY <1>1, PacketTyped DEF Shape
<1>4. r = [e EXCEPT !.flows = [e.flows EXCEPT ![k] = g]]
  OBVIOUS
<1> HIDE DEF g, k
<1>5. /\ DOMAIN r = EngineFields /\ r.flows = [e.flows EXCEPT ![k] = g]
      /\ \A x \in EngineFields \ {"flows"} : r[x] = e[x]
  BY <1>3, <1>4 DEF EngineFields
<1>6. /\ DOMAIN r.flows = DOMAIN e.flows /\ r.flows[k] = g
      /\ \A l \in DOMAIN e.flows \ {k} : r.flows[l] = e.flows[l]
  BY <1>5 DEF k
<1>7. /\ r.total_memory = e.total_memory /\ r.findings = e.findings /\ r.stats = e.stats
      /\ r.segment_limit_hit = e.segment_limit_hit /\ r.packet_index = e.packet_index
      /\ r.last_expiry_sweep_secs = e.last_expiry_sweep_secs /\ r.finalized = e.finalized
      /\ r.calls = e.calls
  BY <1>5 DEF EngineFields
<1>8. k \in DOMAIN e.flows
  BY DEF k
<1>9. e.total_memory = e.total_memory + (MemoryUsed(g) - HeldBefore(e, k))
  <2>1. MemoryUsed(e.flows[k]) \in Nat /\ HeldBefore(e, k) = MemoryUsed(e.flows[k])
    BY <1>1, <1>8, MemoryUsedNat DEF HeldBefore
  <2>2. e.total_memory \in Nat
    BY CoreNat
  <2> QED BY <1>2, <2>1, <2>2
<1>10. /\ e.findings \in Nat /\ e.findings <= MaxFindings
       /\ e.stats.dropped_findings > 0 => e.findings >= MaxFindings
       /\ DOMAIN e.stats = StatFields /\ \A c \in StatFields : e.stats[c] \in Nat
       /\ e.segment_limit_hit \in BOOLEAN /\ DOMAIN e.calls = Key
       /\ e.stats.flows_total = e.stats.flows_total + CreatedFor(e, k)
  BY <1>8 DEF Core, Shape, Balanced, CreatedFor, StatFields
<1>11. DOMAIN r.flows = DOMAIN e.flows \cup {k}
  BY <1>6, <1>8
<1>12. Puts(e, r, k, g)
  BY <1>5, <1>6, <1>7, <1>9, <1>10, <1>11 DEF Puts
<1>13. Core(r)
  BY <1>1, <1>2, <1>3, <1>12, PutOK DEF SameTimes
<1>14. Later(e, r)
  BY <1>2, <1>6, <1>7 DEF Later, SameTimes
<1>15. Hears(e, r)
  BY <1>2, <1>6, <1>7, <1>8, <1>11, PutHears, ZenonT(30)
<1> QED BY <1>6, <1>7, <1>13, <1>14, <1>15 DEF k

\* Pushing findings stops at the cap and counts the rest.
LEMMA ReportFields ==
    ASSUME NEW e, DOMAIN e = EngineFields,
           DOMAIN e.stats = StatFields, \A c \in StatFields : e.stats[c] \in Nat,
           e.findings \in Nat, e.findings <= MaxFindings,
           e.stats.dropped_findings > 0 => e.findings >= MaxFindings,
           NEW n \in Nat, NEW r, r = Report(e, n)
    PROVE  /\ DOMAIN r = EngineFields
           /\ \A x \in EngineFields \ {"findings", "stats"} : r[x] = e[x]
           /\ r.findings \in Nat /\ r.findings <= MaxFindings
           /\ DOMAIN r.stats = StatFields /\ \A c \in StatFields : r.stats[c] \in Nat
           /\ \A c \in StatFields \ {"dropped_findings"} : r.stats[c] = e.stats[c]
           /\ r.stats.dropped_findings > 0 => r.findings >= MaxFindings
<1> DEFINE room == MaxFindings - e.findings
           pushed == IF n <= room THEN n ELSE room
           stats == [e.stats EXCEPT !.dropped_findings = @ + (n - pushed)]
           all == e.findings + pushed
<1>1. r = [e EXCEPT !.findings = all, !.stats = stats]
  BY DEF Report
<1>2. MaxFindings \in Nat /\ e.stats.dropped_findings \in Nat
  BY ReassemblerConstants DEF StatFields
<1>3. /\ pushed \in Nat /\ pushed <= n /\ all \in Nat /\ all <= MaxFindings
      /\ n - pushed > 0 => all = MaxFindings
      /\ e.findings >= MaxFindings => all = MaxFindings
  BY <1>2
<1> HIDE DEF pushed, all
<1>4. /\ DOMAIN stats = StatFields
      /\ stats.dropped_findings = e.stats.dropped_findings + (n - pushed)
      /\ \A c \in StatFields \ {"dropped_findings"} : stats[c] = e.stats[c]
  BY DEF StatFields
<1> HIDE DEF stats
<1>5. /\ stats.dropped_findings \in Nat
      /\ stats.dropped_findings > 0 => all >= MaxFindings
  BY <1>2, <1>3, <1>4
<1>6. /\ DOMAIN r = EngineFields /\ r.findings = all /\ r.stats = stats
      /\ \A x \in EngineFields \ {"findings", "stats"} : r[x] = e[x]
  BY <1>1, Zenon DEF EngineFields
<1>7. \A c \in StatFields : stats[c] \in Nat
  BY <1>4, <1>5
<1> QED BY <1>3, <1>4, <1>5, <1>6, <1>7

Loaded(e, k, g, grown, hit, made) ==
    [e EXCEPT !.flows[k] = g, !.total_memory = @ + grown,
              !.segment_limit_hit = @ \/ hit, !.calls[k] = @ \o made]

IsLoaded(e, r, k, g, grown) ==
    /\ DOMAIN r = EngineFields
    /\ DOMAIN r.flows = DOMAIN e.flows /\ r.flows[k] = g
    /\ \A l \in DOMAIN e.flows \ {k} : r.flows[l] = e.flows[l]
    /\ r.total_memory = e.total_memory + grown
    /\ r.segment_limit_hit \in BOOLEAN
    /\ DOMAIN r.calls = Key
    /\ \A x \in {"findings", "stats", "packet_index", "last_expiry_sweep_secs", "finalized"} :
          r[x] = e[x]

\* Of all flows the flow k has more calls made for it.
CallsMade(e, r, k, made) ==
    /\ r.calls[k] = e.calls[k] \o made
    /\ \A l \in Key \ {k} : r.calls[l] = e.calls[l]

\* The engine with the payload in its flow.
LEMMA LoadedFields ==
    ASSUME NEW e, DOMAIN e = EngineFields, NEW k \in DOMAIN e.flows, k \in Key, DOMAIN e.calls = Key,
           NEW g, NEW grown, NEW hit \in BOOLEAN, NEW made,
           NEW r, r = Loaded(e, k, g, grown, hit, made)
    PROVE  IsLoaded(e, r, k, g, grown) /\ CallsMade(e, r, k, made)
<1> DEFINE flows == [e.flows EXCEPT ![k] = g]
           calls == [e.calls EXCEPT ![k] = @ \o made]
           memory == e.total_memory + grown
           hits == e.segment_limit_hit \/ hit
<1>1. r = [e EXCEPT !.flows = flows, !.total_memory = memory, !.segment_limit_hit = hits, !.calls = calls]
  BY Zenon DEF Loaded
<1>2. /\ DOMAIN flows = DOMAIN e.flows /\ flows[k] = g
      /\ \A l \in DOMAIN e.flows \ {k} : flows[l] = e.flows[l]
      /\ DOMAIN calls = Key /\ calls[k] = e.calls[k] \o made
      /\ \A l \in Key \ {k} : calls[l] = e.calls[l]
      /\ hits \in BOOLEAN
  BY Zenon
<1> HIDE DEF flows, calls, memory, hits
<1>3. /\ DOMAIN r = EngineFields /\ r.flows = flows /\ r.total_memory = memory
      /\ r.segment_limit_hit = hits /\ r.calls = calls
      /\ \A x \in {"findings", "stats", "packet_index", "last_expiry_sweep_secs", "finalized"} :
            r[x] = e[x]
  BY <1>1 DEF EngineFields
<1>4. CallsMade(e, r, k, made)
  BY <1>2, <1>3, Zenon DEF CallsMade
<1> QED BY <1>2, <1>3, <1>4 DEF memory, IsLoaded

\* At most three alerts are raised by a segment.
LEMMA AlertsNat ==
    ASSUME NEW d, NEW k
    PROVE  Cardinality(Alerts(d, k)) \in Nat
<1>1. IsFiniteSet({"overlap"}) /\ IsFiniteSet({"small_segment"}) /\ IsFiniteSet({"out_of_window"})
  BY FS_Singleton, Zenon
<1>2. IsFiniteSet({"overlap"} \cup {"small_segment"} \cup {"out_of_window"})
  BY <1>1, FS_Union, Zenon
<1>3. Alerts(d, k) \subseteq {"overlap"} \cup {"small_segment"} \cup {"out_of_window"}
  BY Zenon DEF Alerts
<1> QED BY <1>2, <1>3, FS_Subset, FS_CardinalityType

\* insert_payload_segment to flush_contiguous_data, in the table: total_memory
\* follows what the one direction gained and lost.
LEMMA PayloadOK ==
    ASSUME NEW e, Core(e), NEW p \in Packet, FlowKey(p) \in DOMAIN e.flows,
           NEW r, r = ProcessPayload(e, FlowKey(p), p)
    PROVE  /\ Core(r) /\ Later(e, r) /\ DOMAIN r.flows = DOMAIN e.flows /\ Hears(e, r)
           /\ \A l \in DOMAIN e.flows \ {FlowKey(p)} : r.flows[l] = e.flows[l]
<1> DEFINE k       == FlowKey(p)
           f       == OnDataWithoutSyn(e.flows[k], p)
           side    == DirectionOf(f, p.src)
           ins     == Inserted(f.dir[side], p)
           alerts  == Alerts(ins.dir, k)
           latched == Latched(ins.dir, alerts)
           flushed == FlushContiguous(latched)
           g       == [f EXCEPT !.dir[side] = flushed]
           grown   == flushed.buffered_bytes - f.dir[side].buffered_bytes
           hit     == ins.result = "SegmentLimitReached"
           made    == FlushCalls(latched, side)
           more    == IF ins.result \in {"ConflictingOverlap", "Truncated"} THEN 1 ELSE 0
           raised  == Cardinality(alerts) + more
           m       == Loaded(e, k, g, grown, hit, made)
<1>1. r = Report(m, raised)
  BY Zenon DEF ProcessPayload, Loaded
<1>2. Shape(e) /\ FlowOK(e.flows[k], k) /\ e.flows[k].last_activity_index \in 1 .. e.packet_index
  BY DEF Core, TableOK
<1>3. /\ FlowOK(f, k) /\ SameTimes(e.flows[k], f) /\ f.dir = e.flows[k].dir
      /\ f.state # "Closed" => f.initiator # NoEndpoint /\ f.state # "New"
  BY <1>2, DataWithoutSynOK
<1>4. side \in Direction
  BY DEF DirectionOf, Direction
<1>5. DirectionInv(f.dir[side])
  BY <1>3, <1>4, Zenon DEF FlowOK
<1>6. /\ DirectionInv(flushed) /\ (BytesNameSenders => FromSide(flushed.segments, f.initiator, side))
      /\ DirectionInv(latched) /\ latched.reassembled_bytes = f.dir[side].reassembled_bytes
  <2>1. OneSided(f) /\ side = DirectionOf(f, p.src)
    BY <1>3, Zenon DEF FlowOK
  <2> HIDE DEF f, side
  <2>2. /\ DirectionInv(ins.dir)
        /\ \A s \in DOMAIN f.dir[side].segments :
              s \in DOMAIN ins.dir.segments /\ ins.dir.segments[s] = f.dir[side].segments[s]
        /\ Brings(f.dir[side].segments, ins.dir.segments, p.data)
        /\ ins.dir.reassembled_bytes = f.dir[side].reassembled_bytes
    <3>1. ins.dir = Inserted(f.dir[side], p).dir
      OBVIOUS
    <3> HIDE DEF ins
    <3> QED BY <1>5, <3>1, InsertedInv
  <2>3. /\ DirectionInv(latched) /\ latched.segments = ins.dir.segments
        /\ latched.reassembled_bytes = ins.dir.reassembled_bytes
    <3>1. latched = Latched(ins.dir, alerts)
      OBVIOUS
    <3> HIDE DEF latched, ins, alerts
    <3> QED BY <2>2, <3>1, LatchedInv, SMTT(30)
  <2> HIDE DEF latched
  <2>4. /\ DirectionInv(flushed) /\ DOMAIN flushed.segments \subseteq DOMAIN latched.segments
        /\ \A s \in DOMAIN flushed.segments : flushed.segments[s] = latched.segments[s]
    BY <2>3, FlushProperties
  <2> HIDE DEF flushed, ins
  <2>5. BytesNameSenders => FromSide(flushed.segments, f.initiator, side)
    <3>1. Passes(f.dir[side].segments, latched.segments, flushed.segments, p.data)
      BY <2>2, <2>3, <2>4 DEF Passes
    <3> HIDE DEF k, alerts, g, grown, hit, made, more, raised, m
    <3> QED BY <1>4, <2>1, <3>1, PayloadSided
  <2> QED BY <2>2, <2>3, <2>4, <2>5
<1>7. hit \in BOOLEAN
  OBVIOUS
<1>8. raised \in Nat
  <2>1. Cardinality(alerts) \in Nat
    BY AlertsNat
  <2>2. more \in Nat
    OBVIOUS
  <2> HIDE DEF alerts, more
  <2> QED BY <2>1, <2>2
<1>9. k \in DOMAIN e.flows /\ k \in Key
  BY PacketTyped
<1>10. DOMAIN e = EngineFields /\ DOMAIN e.calls = Key
  BY <1>2 DEF Shape
<1> HIDE DEF flushed, ins, alerts, latched, f, side, hit, made, raised, k
<1>11. /\ FlowOK(g, k) /\ SameTimes(f, g)
       /\ MemoryUsed(g) = MemoryUsed(f) + grown
  BY <1>3, <1>4, <1>6, ReplaceDirection
<1> HIDE DEF g
<1>12. grown \in Int
  <2>1. flushed.buffered_bytes \in Nat
    BY <1>6 DEF DirectionInv, DirectionType
  <2>2. f.dir[side].buffered_bytes \in Nat
    BY <1>5 DEF DirectionInv, DirectionType
  <2> QED BY <2>1, <2>2
<1> HIDE DEF grown
<1>13. /\ DOMAIN m = EngineFields
       /\ DOMAIN m.flows = DOMAIN e.flows /\ m.flows[k] = g
       /\ \A l \in DOMAIN e.flows \ {k} : m.flows[l] = e.flows[l]
       /\ m.total_memory = e.total_memory + grown
       /\ m.segment_limit_hit \in BOOLEAN
       /\ DOMAIN m.calls = Key
       /\ \A x \in {"findings", "stats", "packet_index", "last_expiry_sweep_secs", "finalized"} :
             m[x] = e[x]
       /\ m.calls[k] = WithFlush(e.calls[k], latched, side)
       /\ \A l \in Key \ {k} : m.calls[l] = e.calls[l]
  <2>1. m = Loaded(e, k, g, grown, hit, made)
    OBVIOUS
  <2> HIDE DEF m
  <2>2. k \in DOMAIN e.flows /\ k \in Key /\ DOMAIN e = EngineFields /\ DOMAIN e.calls = Key /\ hit \in BOOLEAN
    BY <1>7, <1>9, <1>10
  <2>3. IsLoaded(e, m, k, g, grown) /\ CallsMade(e, m, k, made)
    BY <2>1, <2>2, LoadedFields, Zenon
  <2>4. /\ m.calls[k] = WithFlush(e.calls[k], latched, side)
        /\ \A l \in Key \ {k} : m.calls[l] = e.calls[l]
    BY <2>3, Zenon DEF CallsMade, WithFlush, made
  <2> QED BY <2>3, <2>4 DEF IsLoaded
<1> HIDE DEF m
<1>14. /\ m.findings = e.findings /\ m.stats = e.stats /\ m.packet_index = e.packet_index
       /\ m.last_expiry_sweep_secs = e.last_expiry_sweep_secs /\ m.finalized = e.finalized
  BY <1>13
<1>15. /\ e.findings \in Nat /\ e.findings <= MaxFindings
       /\ e.stats.dropped_findings > 0 => e.findings >= MaxFindings
       /\ DOMAIN e.stats = StatFields /\ \A c \in StatFields : e.stats[c] \in Nat
  BY DEF Core, Shape, Balanced
<1>16. /\ DOMAIN r = EngineFields
       /\ \A x \in EngineFields \ {"findings", "stats"} : r[x] = m[x]
       /\ r.findings \in Nat /\ r.findings <= MaxFindings
       /\ DOMAIN r.stats = StatFields /\ \A c \in StatFields : r.stats[c] \in Nat
       /\ \A c \in StatFields \ {"dropped_findings"} : r.stats[c] = m.stats[c]
       /\ r.stats.dropped_findings > 0 => r.findings >= MaxFindings
  <2>1. /\ m.findings \in Nat /\ m.findings <= MaxFindings
        /\ m.stats.dropped_findings > 0 => m.findings >= MaxFindings
        /\ DOMAIN m.stats = StatFields /\ \A c \in StatFields : m.stats[c] \in Nat
    BY <1>14, <1>15
  <2>2. DOMAIN m = EngineFields
    BY <1>13
  <2> QED BY <1>1, <1>8, <2>1, <2>2, ReportFields
<1>17. /\ r.flows = m.flows /\ r.total_memory = m.total_memory /\ r.calls = m.calls
       /\ r.segment_limit_hit = m.segment_limit_hit /\ r.packet_index = m.packet_index
       /\ r.last_expiry_sweep_secs = m.last_expiry_sweep_secs /\ r.finalized = m.finalized
  BY <1>16 DEF EngineFields
<1>18. /\ r.stats.flows_total = e.stats.flows_total + CreatedFor(e, k)
       /\ RetiredCount(r.stats) = RetiredCount(e.stats)
  <2>1. /\ r.stats.flows_total = e.stats.flows_total /\ r.stats.flows_fin = e.stats.flows_fin
        /\ r.stats.flows_rst = e.stats.flows_rst /\ r.stats.flows_expired = e.stats.flows_expired
        /\ r.stats.evictions = e.stats.evictions /\ e.stats.flows_total \in Nat
    BY <1>14, <1>15, <1>16 DEF StatFields
  <2>2. CreatedFor(e, k) = 0
    BY <1>9 DEF CreatedFor
  <2> QED BY <2>1, <2>2, SMTT(30) DEF RetiredCount
<1>19. r.total_memory = e.total_memory + (MemoryUsed(g) - HeldBefore(e, k))
  <2>1. HeldBefore(e, k) = MemoryUsed(f) /\ MemoryUsed(f) \in Nat
    <3>1. MemoryUsed(f) = MemoryUsed(e.flows[k])
      BY <1>3 DEF MemoryUsed
    <3> QED BY <1>3, <1>9, <3>1, MemoryUsedNat DEF HeldBefore
  <2>2. e.total_memory \in Nat
    BY CoreNat
  <2> QED BY <1>11, <1>12, <1>13, <1>17, <2>1, <2>2, SMTT(30)
<1>20. DOMAIN r.flows = DOMAIN e.flows \cup {k}
  BY <1>9, <1>13, <1>17
<1>21. Puts(e, r, k, g)
  BY <1>13, <1>14, <1>16, <1>17, <1>18, <1>19, <1>20, Zenon DEF Puts
<1>22. SameTimes(e.flows[k], g)
  BY <1>3, <1>11 DEF SameTimes
<1>23. Core(r)
  BY <1>2, <1>9, <1>11, <1>21, <1>22, PutOK, Zenon DEF SameTimes
<1>24. Later(e, r)
  BY <1>13, <1>14, <1>17, <1>22 DEF Later, SameTimes
<1>25. Hears(e, r)
  <2>1. At(latched) = At(e.flows[k].dir[side])
    BY <1>3, <1>6 DEF At
  <2>2. /\ g.dir[side] = FlushContiguous(latched)
        /\ \A d \in Direction \ {side} : g.dir[d] = e.flows[k].dir[d]
    BY <1>3, <1>4 DEF g, flushed, FlowOK, FlowFields
  <2>3. /\ DOMAIN r.flows = DOMAIN e.flows
        /\ \A l \in DOMAIN e.flows \ {k} : r.flows[l] = e.flows[l]
        /\ r.flows[k].dir[side] = FlushContiguous(latched)
        /\ \A d \in Direction \ {side} : r.flows[k].dir[d] = e.flows[k].dir[d]
    BY <1>13, <1>17, <2>2, Zenon
  <2>4. /\ r.calls[k] = WithFlush(e.calls[k], latched, side)
        /\ \A l \in Key \ {k} : r.calls[l] = e.calls[l]
        /\ RetiredCount(r.stats) = RetiredCount(e.stats)
    BY <1>13, <1>17, <1>18, Zenon
  <2>5. k \in DOMAIN e.flows /\ k \in Key /\ side \in Direction /\ DirectionInv(latched)
    BY <1>4, <1>6, <1>9
  <2>6. Flushes(e, r, k, side, latched)
    BY <2>1, <2>3, <2>4, Zenon DEF Flushes
  <2> QED BY <2>5, <2>6, PayloadHears
<1> QED BY <1>13, <1>17, <1>23, <1>24, <1>25 DEF k

\* Later is transitive.
LEMMA LaterTrans ==
    ASSUME NEW a, NEW b, NEW c, Later(a, b), Later(b, c)
    PROVE  Later(a, c)
BY DEF Later, SameTimes

\* Once its flow is in the table a packet leaves a settled engine, whatever its
\* flags and payload: a RST or the second FIN removes the flow, and one pass of
\* evict_flows brings the memory back under the cap.
LEMMA ApplyOK ==
    ASSUME NEW e, Settled(e), NEW p \in Packet, FlowKey(p) \in DOMAIN e.flows,
           NEW r \in ApplyPacket(e, FlowKey(p), p)
    PROVE  Settled(r) /\ Later(e, r) /\ Hears(e, r)
<1> DEFINE k      == FlowKey(p)
           shaken == [e EXCEPT !.flows[k] = ApplyHandshakeFlags(@, p)]
           loaded == IF p.data # <<>> THEN ProcessPayload(shaken, k, p) ELSE shaken
           closed == CloseByFin(loaded, k)
<1>1. r \in IF "rst" \in p.flags THEN {CloseByRst(shaken, k)}
            ELSE IF closed.total_memory > Memcap THEN EvictFlows(closed, MemcapTarget)
            ELSE {closed}
  BY DEF ApplyPacket
<1>2. Core(e) /\ NoneClosed(e) /\ e.flows[k].state # "Closed"
  BY DEF Settled, NoneClosed
<1>3. /\ Core(shaken) /\ Later(e, shaken) /\ DOMAIN shaken.flows = DOMAIN e.flows
      /\ shaken.total_memory = e.total_memory /\ Hears(e, shaken)
      /\ \A l \in DOMAIN e.flows \ {k} : shaken.flows[l] = e.flows[l]
  BY <1>2, ShakenOK
<1> HIDE DEF shaken
<1>4. k \in DOMAIN shaken.flows /\ {k} \in SUBSET DOMAIN shaken.flows
  BY <1>3
<1>5. /\ Core(loaded) /\ Later(e, loaded) /\ DOMAIN loaded.flows = DOMAIN e.flows /\ Hears(e, loaded)
      /\ \A l \in DOMAIN e.flows \ {k} : loaded.flows[l] = e.flows[l]
  <2>1. CASE p.data # <<>>
    <3>1. loaded = ProcessPayload(shaken, k, p)
      BY <2>1
    <3> HIDE DEF loaded
    <3>2. /\ Core(loaded) /\ Later(shaken, loaded) /\ DOMAIN loaded.flows = DOMAIN shaken.flows
          /\ \A l \in DOMAIN shaken.flows \ {k} : loaded.flows[l] = shaken.flows[l]
          /\ Hears(shaken, loaded)
      BY <1>3, <1>4, <3>1, PayloadOK
    <3> QED BY <1>3, <3>2, LaterTrans, HearsTrans
  <2>2. CASE ~(p.data # <<>>)
    <3>1. loaded = shaken
      BY <2>2
    <3> HIDE DEF loaded
    <3> QED BY <1>3, <3>1
  <2> QED BY <2>1, <2>2, Zenon
<1> HIDE DEF loaded
<1>6. Memcap \in Nat /\ MaxFlows \in Nat
  BY ReassemblerConstants
<1>7. /\ Cardinality(DOMAIN e.flows) \in Nat /\ Cardinality(DOMAIN e.flows) <= MaxFlows
      /\ e.total_memory \in Nat /\ e.total_memory <= Memcap
  BY <1>2, CoreNat DEF Settled, Limits
<1>8. CASE "rst" \in p.flags
  <2>1. r = CloseByRst(shaken, k)
    BY <1>1, <1>8
  <2>2. Retires(shaken, r, {k})
    BY <1>3, <1>4, <2>1, RstRetires
  <2>3. PICK K : K = {k}
    BY Zenon
  <2>4. K \in SUBSET DOMAIN shaken.flows /\ Retires(shaken, r, K)
    BY <1>4, <2>2, <2>3
  <2>5. /\ Core(r) /\ Later(shaken, r)
        /\ Cardinality(DOMAIN r.flows) <= Cardinality(DOMAIN shaken.flows)
        /\ r.total_memory <= shaken.total_memory
        /\ Hears(shaken, r)
    BY <1>3, <2>4, RetireOK, RetireHears DEF Core
  <2>6. NoneClosed(r)
    BY <1>2, <1>3, <2>2 DEF Retires, NoneClosed
  <2>7. Limits(r)
    <3>1. Cardinality(DOMAIN r.flows) \in Nat /\ r.total_memory \in Nat
      BY <2>5, CoreNat
    <3>2. Cardinality(DOMAIN shaken.flows) = Cardinality(DOMAIN e.flows)
      BY <1>3, Zenon
    <3> QED BY <1>3, <1>6, <1>7, <2>5, <3>1, <3>2, SMTT(30) DEF Limits
  <2> QED BY <1>3, <2>5, <2>6, <2>7, LaterTrans, HearsTrans DEF Settled
<1>9. CASE "rst" \notin p.flags
  <2>1. k \in DOMAIN loaded.flows
    BY <1>5
  <2>2. /\ Core(closed) /\ Later(e, closed) /\ NoneClosed(closed) /\ Hears(e, closed)
        /\ Cardinality(DOMAIN closed.flows) <= MaxFlows
    <3>1. Cardinality(DOMAIN loaded.flows) = Cardinality(DOMAIN e.flows)
      BY <1>5, Zenon
    <3>2. IF loaded.flows[k].state = "Closed" THEN Retires(loaded, closed, {k}) ELSE closed = loaded
      BY <1>5, <2>1, FinRetires
    <3> HIDE DEF closed
    <3>3. CASE loaded.flows[k].state = "Closed"
      <4>1. Retires(loaded, closed, {k})
        BY <3>2, <3>3
      <4>2. PICK K : K = {k}
        BY Zenon
      <4>3. K \in SUBSET DOMAIN loaded.flows /\ Retires(loaded, closed, K)
        BY <2>1, <4>1, <4>2
      <4>4. /\ Core(closed) /\ Later(loaded, closed)
            /\ Cardinality(DOMAIN closed.flows) <= Cardinality(DOMAIN loaded.flows)
            /\ Hears(loaded, closed)
        BY <1>5, <4>3, RetireOK, RetireHears DEF Core
      <4>5. NoneClosed(closed)
        BY <1>2, <1>5, <4>1, Zenon DEF Retires, NoneClosed
      <4>6. Cardinality(DOMAIN closed.flows) \in Nat
        BY <4>4, CoreNat
      <4>7. Cardinality(DOMAIN closed.flows) <= MaxFlows
        BY <1>6, <1>7, <3>1, <4>4, <4>6
      <4> QED BY <1>5, <4>4, <4>5, <4>7, LaterTrans, HearsTrans
    <3>4. CASE loaded.flows[k].state # "Closed"
      <4>1. closed = loaded
        BY <3>2, <3>4
      <4>2. NoneClosed(loaded)
        BY <1>2, <1>5, <3>4 DEF NoneClosed
      <4> QED BY <1>5, <1>7, <3>1, <4>1, <4>2
    <3> QED BY <3>3, <3>4
  <2> HIDE DEF closed
  <2>3. closed.total_memory \in Nat
    BY <2>2, CoreNat
  <2>4. CASE closed.total_memory > Memcap
    <3>1. r \in EvictFlows(closed, MemcapTarget)
      BY <1>1, <1>9, <2>4
    <3>2. /\ Core(r) /\ FlowsKept(closed, r) /\ Later(closed, r) /\ r.total_memory <= Memcap
          /\ Cardinality(DOMAIN r.flows) <= MemcapTarget /\ Hears(closed, r)
      BY <2>2, <3>1, EvictOK, TargetsLeaveRoom
    <3>3. Cardinality(DOMAIN r.flows) \in Nat
      BY <3>2, CoreNat
    <3>4. Limits(r)
      BY <1>6, <3>2, <3>3, TargetsLeaveRoom DEF Limits
    <3>5. NoneClosed(r)
      BY <2>2, <3>2 DEF FlowsKept, NoneClosed
    <3> QED BY <2>2, <3>2, <3>4, <3>5, LaterTrans, HearsTrans DEF Settled
  <2>5. CASE ~(closed.total_memory > Memcap)
    <3>1. r = closed
      BY <1>1, <1>9, <2>5
    <3> QED BY <1>6, <2>2, <2>3, <2>5, <3>1 DEF Settled, Limits
  <2> QED BY <2>4, <2>5
<1> QED BY <1>8, <1>9

=============================================================================
