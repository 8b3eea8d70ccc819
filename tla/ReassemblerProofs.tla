------------------------- MODULE ReassemblerProofs --------------------------
(***************************************************************************)
(* The invariants of the reassembly engine, for every set of endpoints,    *)
(* packets and timestamps and every value of the limits: its memory, its   *)
(* flow table, its findings, its two sweeps and the two sides of a flow.   *)
(***************************************************************************)
EXTENDS ProcessPacketTheorems

-----------------------------------------------------------------------------
(* Whole steps                                                             *)

\* The flow has not been touched since e, and a sweep by packet index that was
\* due has let it pass.
Untouched(e, r, k) ==
    /\ k \in DOMAIN e.flows
    /\ r.flows[k].last_activity_index = e.flows[k].last_activity_index
    /\ ExpirySweepInterval # 0 /\ r.packet_index % ExpirySweepInterval = 0 =>
          r.packet_index - r.flows[k].last_activity_index <= IdlePacketThreshold

\* What the handling of one packet does to a settled engine.
Advances(e, r) ==
    /\ Settled(r) /\ Told(e, r)
    /\ r.packet_index = e.packet_index + 1
    /\ r.finalized = e.finalized
    /\ r.last_expiry_sweep_secs > e.last_expiry_sweep_secs =>
          NoneTimedOut(r, r.last_expiry_sweep_secs)
    /\ \A k \in DOMAIN r.flows :
          r.flows[k].last_activity_index = r.packet_index \/ Untouched(e, r, k)

\* process_packet without TCP runs the sweeps only.
LEMMA NonTcpAdvances ==
    ASSUME Settled(eng), NEW ts \in Time, NEW r, r = Swept(ts)
    PROVE  Advances(eng, r)
<1>1. /\ Settled(r) /\ FlowsKept(eng, r) /\ Told(eng, r)
      /\ r.packet_index = eng.packet_index + 1 /\ r.finalized = eng.finalized
      /\ IF ts > eng.last_expiry_sweep_secs
         THEN r.last_expiry_sweep_secs = ts /\ NoneTimedOut(r, ts)
         ELSE r.last_expiry_sweep_secs = eng.last_expiry_sweep_secs
      /\ ExpirySweepInterval # 0 /\ r.packet_index % ExpirySweepInterval = 0 => NoneIdle(r)
  BY SweptOK
<1>2. \A k \in DOMAIN r.flows : Untouched(eng, r, k)
  BY <1>1 DEF FlowsKept, Untouched, NoneIdle
<1>3. eng.last_expiry_sweep_secs \in Nat
  BY CoreNat DEF Settled
<1>4. r.last_expiry_sweep_secs > eng.last_expiry_sweep_secs => NoneTimedOut(r, r.last_expiry_sweep_secs)
  BY <1>1, <1>3
<1> QED BY <1>1, <1>2, <1>4 DEF Advances

\* process_packet with TCP: get_or_create_flow never fails, so the packet is
\* always applied to its flow.
LEMMA TcpAdvances ==
    ASSUME Settled(eng), NEW p \in Packet, NEW ts \in Time,
           NEW s, s = Swept(ts),
           NEW e \in GetOrCreateFlow(s, FlowKey(p), ts),
           NEW r \in IF FlowKey(p) \in DOMAIN e.flows THEN ApplyPacket(e, FlowKey(p), p) ELSE {e}
    PROVE  Advances(eng, r)
<1> DEFINE k == FlowKey(p)
<1>1. /\ Settled(s) /\ FlowsKept(eng, s) /\ Told(eng, s)
      /\ s.packet_index = eng.packet_index + 1 /\ s.finalized = eng.finalized
      /\ IF ts > eng.last_expiry_sweep_secs
         THEN s.last_expiry_sweep_secs = ts /\ NoneTimedOut(s, ts)
         ELSE s.last_expiry_sweep_secs = eng.last_expiry_sweep_secs
      /\ ExpirySweepInterval # 0 /\ s.packet_index % ExpirySweepInterval = 0 => NoneIdle(s)
  BY SweptOK
<1>2. /\ eng.last_expiry_sweep_secs \in Nat /\ eng.packet_index \in Nat
      /\ s.packet_index > 0 /\ s.packet_index \in Nat
  <2>1. eng.last_expiry_sweep_secs \in Nat /\ eng.packet_index \in Nat
    BY CoreNat DEF Settled
  <2> QED BY <1>1, <2>1
<1>3. k \in Key
  BY PacketTyped
<1>4. /\ Settled(e) /\ k \in DOMAIN e.flows /\ Hears(s, e)
      /\ e.flows[k].last_seen = ts /\ e.flows[k].last_activity_index = s.packet_index
      /\ \A l \in DOMAIN e.flows \ {k} : l \in DOMAIN s.flows /\ e.flows[l] = s.flows[l]
      /\ e.packet_index = s.packet_index
      /\ e.last_expiry_sweep_secs = s.last_expiry_sweep_secs
      /\ e.finalized = s.finalized
  <2>1. GotFlow(s, e, k, ts)
    BY <1>1, <1>2, <1>3, GetOrCreateOK
  <2> QED BY <2>1 DEF GotFlow
<1>5. r \in ApplyPacket(e, k, p)
  BY <1>4
<1>6. Settled(r) /\ Later(e, r) /\ Hears(e, r)
  BY <1>4, <1>5, ApplyOK
<1> HIDE DEF k
<1>7. /\ DOMAIN r.flows \subseteq DOMAIN e.flows
      /\ \A l \in DOMAIN r.flows : /\ r.flows[l].last_seen = e.flows[l].last_seen
                                   /\ r.flows[l].last_activity_index = e.flows[l].last_activity_index
      /\ r.packet_index = s.packet_index /\ r.finalized = s.finalized
      /\ r.last_expiry_sweep_secs = s.last_expiry_sweep_secs
  BY <1>4, <1>6 DEF Later, SameTimes
<1>8. ASSUME NEW l \in DOMAIN r.flows
      PROVE  r.flows[l].last_activity_index = r.packet_index \/ Untouched(eng, r, l)
  <2>1. CASE l = k
    BY <1>4, <1>7, <2>1
  <2>2. CASE l # k
    <3>1. l \in DOMAIN s.flows /\ e.flows[l] = s.flows[l]
      BY <1>4, <1>7, <2>2
    <3>2. l \in DOMAIN eng.flows /\ s.flows[l] = eng.flows[l]
      BY <1>1, <3>1 DEF FlowsKept
    <3> QED BY <1>1, <1>7, <3>1, <3>2 DEF Untouched, NoneIdle
  <2> QED BY <2>1, <2>2
<1>9. ASSUME r.last_expiry_sweep_secs > eng.last_expiry_sweep_secs
      PROVE  NoneTimedOut(r, r.last_expiry_sweep_secs)
  <2>1. r.last_expiry_sweep_secs = ts /\ NoneTimedOut(s, ts)
    BY <1>1, <1>2, <1>7, <1>9
  <2>2. ts \in Nat
    BY ReassemblerConstants
  <2>3. ASSUME NEW l \in DOMAIN r.flows
        PROVE  ~TimedOut(r.flows[l], ts)
    <3>1. CASE l = k
      BY <1>4, <1>7, <2>2, <3>1 DEF TimedOut
    <3>2. CASE l # k
      BY <1>4, <1>7, <2>1, <3>2 DEF NoneTimedOut, TimedOut
    <3> QED BY <3>1, <3>2
  <2> QED BY <2>1, <2>3 DEF NoneTimedOut
<1>10. Told(eng, r)
  BY <1>1, <1>4, <1>6 DEF Hears
<1> QED BY <1>1, <1>6, <1>7, <1>8, <1>9, <1>10 DEF Advances

\* The two properties of the calls, for a step to the flows and calls of r.
LEMMA ToldStep ==
    ASSUME NEW r, Told(eng, r), eng'.calls = r.calls, eng'.flows = r.flows,
           DOMAIN eng.flows \subseteq Key,
           Cardinality(DOMAIN eng.flows) \in Int, Cardinality(DOMAIN r.flows) \in Int,
           eng'.stats.flows_total - eng.stats.flows_total
             = (Cardinality(DOMAIN r.flows) + RetiredCount(r.stats))
                 - (Cardinality(DOMAIN eng.flows) + RetiredCount(eng.stats))
    PROVE  StreamsContiguousStep /\ ClosedOnceStep
<1>1. \A k \in Key, d \in Direction : NextOffset(eng', k, d) = NextOffset(r, k, d)
  BY DEF NextOffset
<1>2. StreamsContiguousStep
  BY <1>1 DEF Told, StreamsContiguousStep
<1>3. SumOver([k \in Key |-> Cardinality(Closes(eng'.calls[k]))], Key) = Cardinality(CloseCells(r.calls))
  <2> DEFINE f == [k \in Key |-> Cardinality(Closes(eng'.calls[k]))]
  <2>1. \A k \in Key : f[k] = Cardinality(Closes(r.calls[k]))
    OBVIOUS
  <2> HIDE DEF f
  <2>2. UNION {{k} \X (1 .. f[k]) : k \in Key} = CloseCells(r.calls)
    BY <2>1 DEF CloseCells
  <2>3. SumOver(f, Key) = Cardinality(CloseCells(r.calls))
    BY <2>2, Zenon DEF SumOver
  <2> QED BY <2>3 DEF f
<1>4. /\ Cardinality(CloseCells(r.calls)) \in Int /\ RetiredCount(eng.stats) \in Int
      /\ Cardinality(CloseCells(r.calls)) + RetiredCount(eng.stats) = RetiredCount(r.stats)
  BY FS_CardinalityType DEF Told
<1>5. SumOver([k \in Key |-> Cardinality(Closes(eng'.calls[k]))], Key)
        = Cardinality(DOMAIN eng.flows) + (eng'.stats.flows_total - eng.stats.flows_total)
            - Cardinality(DOMAIN eng'.flows)
  BY <1>3, <1>4
<1>6. \A k \in DOMAIN eng.flows \ DOMAIN eng'.flows : Closes(eng'.calls[k]) # {}
  BY DEF Told
<1>7. ClosedOnceStep
  BY <1>5, <1>6 DEF ClosedOnceStep
<1> QED BY <1>2, <1>7

\* The same for a step between two sound engines.
LEMMA CoreToldStep ==
    ASSUME Core(eng), Core(eng'), Told(eng, eng')
    PROVE  StreamsContiguousStep /\ ClosedOnceStep
<1>1. /\ eng.stats.flows_total = Cardinality(DOMAIN eng.flows) + RetiredCount(eng.stats)
      /\ eng'.stats.flows_total = Cardinality(DOMAIN eng'.flows) + RetiredCount(eng'.stats)
      /\ DOMAIN eng.flows \subseteq Key
  BY DEF Core, Balanced, TableOK
<1>2. Cardinality(DOMAIN eng.flows) \in Int /\ Cardinality(DOMAIN eng'.flows) \in Int
  BY CoreNat
<1>3. RetiredCount(eng.stats) \in Int /\ RetiredCount(eng'.stats) \in Int
  BY CoreRetired
<1> QED BY <1>1, <1>2, <1>3, ToldStep

\* Division with remainder.
LEMMA DivMod ==
    ASSUME NEW p \in Nat, NEW n \in Nat, n > 0
    PROVE  p = n * (p \div n) + (p % n) /\ p \div n \in Int /\ p % n \in 0 .. (n - 1)
BY SMT

\* The remainder of the next number is 0 or one more.
LEMMA NextRemainder ==
    ASSUME NEW p \in Nat, NEW n \in Nat, n > 0
    PROVE  (p + 1) % n = 0 \/ (p + 1) % n = (p % n) + 1
<1> DEFINE q == p \div n
           r == p % n
           u == (p + 1) \div n
           v == (p + 1) % n
<1>1. p = n * q + r /\ q \in Int /\ r \in 0 .. (n - 1)
  BY DivMod
<1>2. p + 1 = n * u + v /\ u \in Int /\ v \in 0 .. (n - 1)
  <2>1. p + 1 \in Nat
    OBVIOUS
  <2> QED BY <2>1, DivMod
<1> HIDE DEF q, r, u, v
<1>3. n * (u - q) = r + 1 - v
  <2>1. n * (u - q) = n * u - n * q /\ n * u \in Int /\ n * q \in Int
    BY <1>1, <1>2, SMT
  <2> QED BY <1>1, <1>2, <2>1
<1>4. u - q = 0 \/ u - q = 1
  <2>1. u - q \in Int
    BY <1>1, <1>2
  <2>2. /\ u - q >= 2 => n * (u - q) >= 2 * n
        /\ u - q <= -1 => n * (u - q) <= -n
    BY <2>1, SMT
  <2> QED BY <1>1, <1>2, <1>3, <2>1, <2>2
<1>5. v = r + 1 \/ v = r + 1 - n
  BY <1>1, <1>2, <1>3, <1>4, SMT
<1>6. v = 0 \/ v = r + 1
  BY <1>1, <1>2, <1>5
<1> QED BY <1>6 DEF r, v

-----------------------------------------------------------------------------
(* The inductive invariant                                                 *)

\* Between two sweeps by packet index an idle flow ages with the remainder of the
\* packet index, which is what makes the bound inductive.
IdleBound(e) ==
    ExpirySweepInterval > 0 =>
        \A k \in DOMAIN e.flows :
            e.packet_index - e.flows[k].last_activity_index
                <= IdlePacketThreshold + (e.packet_index % ExpirySweepInterval)

\* The engine after finalize.
Final(e) ==
    /\ Shape(e)
    /\ DOMAIN e.flows = {}
    /\ e.total_memory = 0
    /\ e.findings <= MaxFindings + (IF e.segment_limit_hit THEN 1 ELSE 0)
    /\ e.stats.dropped_findings > 0 => e.findings >= MaxFindings
    /\ RetiredCount(e.stats) <= e.stats.flows_total

RInv ==
    /\ eng.packet_index <= MaxPackets
    /\ eng.finalized => Final(eng)
    /\ ~eng.finalized => Settled(eng) /\ IdleBound(eng)

\* One packet keeps the idle bound.
LEMMA IdleStep ==
    ASSUME NEW e, Settled(e), IdleBound(e), NEW r, Advances(e, r)
    PROVE  IdleBound(r)
<1> SUFFICES ASSUME ExpirySweepInterval > 0, NEW k \in DOMAIN r.flows
             PROVE  r.packet_index - r.flows[k].last_activity_index
                       <= IdlePacketThreshold + (r.packet_index % ExpirySweepInterval)
  BY DEF IdleBound
<1>1. /\ e.packet_index \in Nat /\ \A l \in DOMAIN e.flows : e.flows[l].last_activity_index \in Nat
      /\ r.packet_index = e.packet_index + 1
  BY CoreNat DEF Settled, Advances
<1>2. /\ ExpirySweepInterval \in Nat /\ IdlePacketThreshold \in Nat /\ ExpirySweepInterval # 0
  BY ReassemblerConstants
<1> DEFINE before == e.packet_index % ExpirySweepInterval
           after  == r.packet_index % ExpirySweepInterval
<1>3. /\ before \in Nat /\ after \in Nat
      /\ after = 0 \/ after = before + 1
  <2>1. r.packet_index \in Nat
    BY <1>1
  <2>2. before \in 0 .. (ExpirySweepInterval - 1) /\ after \in 0 .. (ExpirySweepInterval - 1)
    BY <1>1, <1>2, <2>1, DivMod
  <2>3. (e.packet_index + 1) % ExpirySweepInterval = 0
          \/ (e.packet_index + 1) % ExpirySweepInterval = (e.packet_index % ExpirySweepInterval) + 1
    BY <1>1, <1>2, NextRemainder, Zenon
  <2> QED BY <1>1, <1>2, <2>2, <2>3
<1>4. r.flows[k].last_activity_index = r.packet_index \/ Untouched(e, r, k)
  BY DEF Advances
<1>5. CASE r.flows[k].last_activity_index = r.packet_index
  <2> HIDE DEF after
  <2> QED BY <1>1, <1>2, <1>3, <1>5 DEF after
<1>6. CASE Untouched(e, r, k)
  <2>1. /\ k \in DOMAIN e.flows
        /\ r.flows[k].last_activity_index = e.flows[k].last_activity_index
        /\ after = 0 => r.packet_index - r.flows[k].last_activity_index <= IdlePacketThreshold
    BY <1>2, <1>6 DEF Untouched
  <2>2. e.packet_index - e.flows[k].last_activity_index <= IdlePacketThreshold + before
    BY <2>1 DEF IdleBound
  <2>3. e.flows[k].last_activity_index \in Nat
    BY <1>1, <2>1
  <2> HIDE DEF after, before
  <2>4. r.packet_index - r.flows[k].last_activity_index <= IdlePacketThreshold + after
    BY <1>1, <1>2, <1>3, <2>1, <2>2, <2>3
  <2> QED BY <2>4 DEF after
<1> QED BY <1>4, <1>5, <1>6

\* The empty engine.
LEMMA InitOK ==
    ASSUME Init
    PROVE  RInv
<1> DEFINE none == [k \in {} |-> NewFlow(0)]
           zero == [flows_total |-> 0, flows_fin |-> 0, flows_rst |-> 0,
                    flows_expired |-> 0, evictions |-> 0, dropped_findings |-> 0]
<1>1. /\ DOMAIN eng = EngineFields /\ eng.flows = none /\ eng.total_memory = 0 /\ eng.findings = 0
      /\ eng.stats = zero /\ eng.segment_limit_hit = FALSE /\ eng.packet_index = 0
      /\ eng.last_expiry_sweep_secs = 0 /\ eng.finalized = FALSE /\ eng.calls = NoCalls
  BY DEF Init, EngineFields
<1>2. DOMAIN none = {} /\ DOMAIN NoCalls = Key
  BY DEF NoCalls
<1>3. /\ DOMAIN zero = StatFields /\ \A c \in StatFields : zero[c] = 0
      /\ RetiredCount(zero) = 0 /\ zero.flows_total = 0 /\ zero.dropped_findings = 0
  BY DEF StatFields, RetiredCount
<1> HIDE DEF none, zero
<1>4. /\ MaxFindings \in Nat /\ MaxPackets \in Nat /\ Memcap \in Nat /\ MaxFlows \in Nat
  BY ReassemblerConstants
<1>5. DOMAIN eng.flows = {} /\ IsFiniteSet(DOMAIN eng.flows) /\ Cardinality(DOMAIN eng.flows) = 0
  BY <1>1, <1>2, FS_EmptySet
<1>6. Shape(eng)
  <2>1. eng.segment_limit_hit \in BOOLEAN /\ eng.finalized \in BOOLEAN
    BY <1>1, Zenon
  <2>2. eng.last_expiry_sweep_secs \in Time \cup {0}
    BY <1>1, Zenon
  <2>3. eng.findings \in Nat /\ eng.packet_index \in Nat
    BY <1>1
  <2>4. DOMAIN eng.stats = StatFields /\ \A c \in StatFields : eng.stats[c] \in Nat
    BY <1>1, <1>3
  <2>5. DOMAIN eng = EngineFields /\ DOMAIN eng.calls = Key
    BY <1>1, <1>2, Zenon
  <2> QED BY <2>1, <2>2, <2>3, <2>4, <2>5, Zenon DEF Shape
<1>7. TableOK(eng)
  BY <1>5 DEF TableOK
<1>8. MemoryOf(eng.flows, DOMAIN eng.flows) = 0
  BY <1>5, MemoryEmpty
<1>9. Balanced(eng)
  BY <1>1, <1>3, <1>4, <1>5, <1>8 DEF Balanced
<1>10. NoneClosed(eng) /\ Limits(eng) /\ IdleBound(eng)
  BY <1>1, <1>4, <1>5 DEF NoneClosed, Limits, IdleBound
<1> QED BY <1>1, <1>4, <1>6, <1>7, <1>9, <1>10 DEF RInv, Settled, Core

\* expire_flows closes timed-out flows between packets.
LEMMA ExpireFlowsOK ==
    ASSUME Settled(eng), IdleBound(eng), NEW ts \in Time, ExpireFlows(ts)
    PROVE  /\ Settled(eng') /\ IdleBound(eng')
           /\ eng'.packet_index = eng.packet_index /\ eng'.finalized = eng.finalized
           /\ eng'.last_expiry_sweep_secs = eng.last_expiry_sweep_secs
           /\ Told(eng, eng')
<1> DEFINE m == [eng EXCEPT !.calls = NoCalls]
           K == {k \in DOMAIN m.flows : m.flows[k].state = "Closed" \/ TimedOut(m.flows[k], ts)}
<1>1. eng' = Expire(m, K)
  BY DEF ExpireFlows
<1>2. /\ DOMAIN eng = EngineFields /\ eng.packet_index \in Nat
      /\ eng.last_expiry_sweep_secs \in Time \cup {0}
  BY DEF Settled, Core, Shape
<1>3. K \in SUBSET DOMAIN m.flows
  OBVIOUS
<1> HIDE DEF K
<1>4. /\ DOMAIN m = EngineFields /\ m.calls = NoCalls
      /\ \A x \in EngineFields \ {"calls"} : m[x] = eng[x]
  BY <1>2 DEF EngineFields
<1> HIDE DEF m
<1>5. /\ m.flows = eng.flows /\ m.total_memory = eng.total_memory /\ m.findings = eng.findings
      /\ m.stats = eng.stats /\ m.segment_limit_hit = eng.segment_limit_hit
      /\ m.finalized = eng.finalized /\ m.packet_index = eng.packet_index
      /\ m.last_expiry_sweep_secs = eng.last_expiry_sweep_secs
  BY <1>4 DEF EngineFields
<1>6. Settled(m)
  <2>1. m.packet_index \in Nat /\ m.packet_index >= eng.packet_index
    BY <1>2, <1>5
  <2>2. DOMAIN m.calls = Key
    BY <1>4 DEF NoCalls
  <2> QED BY <1>2, <1>4, <1>5, <2>1, <2>2, HeadOK
<1>7. Retires(m, eng', K)
  BY <1>1, <1>3, <1>6, ExpireRetires DEF Settled, Core
<1>8. Settled(eng') /\ FlowsKept(m, eng') /\ Later(m, eng') /\ Hears(m, eng')
  BY <1>3, <1>6, <1>7, RetireSettled
<1>9. IdleBound(eng')
  BY <1>5, <1>8 DEF IdleBound, FlowsKept, Later
<1>10. Told(eng, eng')
  <2>1. RetiredCount(eng.stats) \in Int
    BY CoreRetired DEF Settled
  <2>2. Told(eng, m)
    BY <1>4, <1>5, <2>1, NothingTold
  <2> QED BY <1>8, <2>2 DEF Hears
<1> QED BY <1>5, <1>8, <1>9, <1>10 DEF Later

\* finalize closes every flow, so no byte is left, and adds at most the one
\* finding about the segment limit.
LEMMA FinalizeOK ==
    ASSUME Settled(eng), Finalize
    PROVE  /\ Final(eng') /\ eng'.finalized
           /\ eng'.packet_index = eng.packet_index
           /\ eng'.last_expiry_sweep_secs = eng.last_expiry_sweep_secs
           /\ StreamsContiguousStep /\ ClosedOnceStep
<1> DEFINE all == IF eng.segment_limit_hit THEN eng.findings + 1 ELSE eng.findings
           m == [eng EXCEPT !.calls = NoCalls, !.finalized = TRUE, !.findings = all]
<1>1. eng' = CloseFlows(m, DOMAIN m.flows, "Timeout")
  BY DEF Finalize
<1>2. /\ Shape(eng) /\ eng.findings \in Nat /\ eng.findings <= MaxFindings /\ MaxFindings \in Nat
      /\ eng.stats.dropped_findings > 0 => eng.findings >= MaxFindings
      /\ eng.total_memory = MemoryOf(eng.flows, DOMAIN eng.flows)
      /\ eng.stats.flows_total = Cardinality(DOMAIN eng.flows) + RetiredCount(eng.stats)
  BY ReassemblerConstants DEF Settled, Core, Shape, Balanced
<1>3. /\ all \in Nat /\ all >= eng.findings
      /\ all <= MaxFindings + (IF eng.segment_limit_hit THEN 1 ELSE 0)
  BY <1>2
<1> HIDE DEF all
<1>4. /\ DOMAIN m = EngineFields /\ m.calls = NoCalls /\ m.finalized = TRUE /\ m.findings = all
      /\ \A x \in EngineFields \ {"calls", "finalized", "findings"} : m[x] = eng[x]
  BY <1>2, Zenon DEF EngineFields, Shape
<1> HIDE DEF m
<1>5. /\ m.flows = eng.flows /\ m.total_memory = eng.total_memory /\ m.stats = eng.stats
      /\ m.segment_limit_hit = eng.segment_limit_hit /\ m.packet_index = eng.packet_index
      /\ m.last_expiry_sweep_secs = eng.last_expiry_sweep_secs
  BY <1>4 DEF EngineFields
<1>6. DOMAIN m.calls = Key
  BY <1>4 DEF NoCalls
<1>7. Shape(m)
  BY <1>2, <1>3, <1>4, <1>5, <1>6, Zenon DEF Shape
<1>8. /\ DOMAIN eng' = EngineFields
      /\ DOMAIN eng'.flows = DOMAIN m.flows \ DOMAIN m.flows
      /\ eng'.total_memory = m.total_memory - MemoryOf(m.flows, DOMAIN m.flows)
      /\ DOMAIN eng'.calls = Key
      /\ eng'.findings = m.findings
      /\ eng'.segment_limit_hit = m.segment_limit_hit
      /\ eng'.packet_index = m.packet_index
      /\ eng'.last_expiry_sweep_secs = m.last_expiry_sweep_secs
      /\ eng'.finalized = m.finalized
      /\ eng'.stats = m.stats
  BY <1>1, <1>7, CloseFlowsFields
<1>9. Shape(eng')
  BY <1>7, <1>8 DEF Shape
<1>10. DOMAIN eng'.flows = {}
  BY <1>8
<1>11. eng'.total_memory = 0
  <2>1. eng.total_memory \in Nat
    BY CoreNat DEF Settled
  <2> QED BY <1>2, <1>5, <1>8, <2>1
<1>12. RetiredCount(eng.stats) <= eng.stats.flows_total
  <2>1. RetiredCount(eng.stats) \in Nat /\ Cardinality(DOMAIN eng.flows) \in Nat
    BY <1>2, CoreNat DEF Shape, StatFields, RetiredCount, Settled
  <2> QED BY <1>2, <2>1
<1>13. eng.stats.dropped_findings > 0 => all >= MaxFindings
  BY <1>2, <1>3
<1>14. StreamsContiguousStep /\ ClosedOnceStep
  <2> DEFINE K == DOMAIN m.flows
             r == Expire(m, K)
  <2>1. r = [eng' EXCEPT !.stats.flows_expired = @ + Cardinality(K)]
    BY <1>1 DEF Expire
  <2>2. r.calls = eng'.calls /\ r.flows = eng'.flows
    BY <1>8, <2>1 DEF EngineFields
  <2>3. TableOK(m) /\ K \in SUBSET DOMAIN m.flows
    BY <1>5 DEF Settled, Core, TableOK
  <2>4. r = Expire(m, K)
    OBVIOUS
  <2> HIDE DEF r
  <2>5. Retires(m, r, K)
    BY <1>7, <2>3, <2>4, ExpireRetires
  <2>6. RetiredCount(eng.stats) \in Int /\ Cardinality(DOMAIN eng.flows) \in Nat
    BY CoreRetired, CoreNat DEF Settled
  <2>7. Told(eng, m)
    BY <1>4, <1>5, <2>6, NothingTold
  <2>8. Told(eng, r)
    BY <2>3, <2>5, <2>7, RetireHears DEF Hears
  <2>9. RetiredCount(r.stats) = RetiredCount(eng.stats) + Cardinality(DOMAIN eng.flows)
    BY <1>5, <2>5 DEF Retires
  <2>10. Cardinality(DOMAIN r.flows) = 0
    BY <1>10, <2>2, FS_EmptySet
  <2>11. DOMAIN eng.flows \subseteq Key
    BY DEF Settled, Core, TableOK
  <2>12. eng'.stats.flows_total - eng.stats.flows_total
           = (Cardinality(DOMAIN r.flows) + RetiredCount(r.stats))
               - (Cardinality(DOMAIN eng.flows) + RetiredCount(eng.stats))
    <3>1. eng'.stats.flows_total = eng.stats.flows_total /\ eng.stats.flows_total \in Nat
      BY <1>2, <1>5, <1>8 DEF Shape, StatFields
    <3> QED BY <2>6, <2>9, <2>10, <3>1
  <2>13. Cardinality(DOMAIN eng.flows) \in Int /\ Cardinality(DOMAIN r.flows) \in Int
    BY <2>6, <2>10
  <2> QED BY <2>2, <2>8, <2>11, <2>12, <2>13, ToldStep
<1> QED BY <1>3, <1>4, <1>5, <1>8, <1>9, <1>10, <1>11, <1>12, <1>13, <1>14 DEF Final

\* finalize again only clears the calls.
LEMMA FinalizeAgainOK ==
    ASSUME Final(eng), FinalizeAgain
    PROVE  /\ Final(eng') /\ eng'.finalized
           /\ eng'.packet_index = eng.packet_index
           /\ eng'.last_expiry_sweep_secs = eng.last_expiry_sweep_secs
           /\ StreamsContiguousStep /\ ClosedOnceStep
<1>1. DOMAIN eng = EngineFields /\ eng.finalized /\ eng' = [eng EXCEPT !.calls = NoCalls]
  BY DEF Final, Shape, FinalizeAgain
<1>2. /\ DOMAIN eng' = EngineFields /\ eng'.calls = NoCalls
      /\ \A x \in EngineFields \ {"calls"} : eng'[x] = eng[x]
  BY <1>1 DEF EngineFields
<1>3. /\ eng'.flows = eng.flows /\ eng'.total_memory = eng.total_memory
      /\ eng'.findings = eng.findings /\ eng'.stats = eng.stats
      /\ eng'.segment_limit_hit = eng.segment_limit_hit
      /\ eng'.finalized = eng.finalized /\ eng'.packet_index = eng.packet_index
      /\ eng'.last_expiry_sweep_secs = eng.last_expiry_sweep_secs
  BY <1>2 DEF EngineFields
<1>4. DOMAIN eng'.calls = Key
  BY <1>2 DEF NoCalls
<1>5. Shape(eng')
  BY <1>2, <1>3, <1>4 DEF Final, Shape
<1>6. StreamsContiguousStep /\ ClosedOnceStep
  <2>1. RetiredCount(eng.stats) \in Int /\ eng.stats.flows_total \in Int
    BY DEF Final, Shape, StatFields, RetiredCount
  <2>2. Told(eng, eng')
    BY <1>2, <1>3, <2>1, NothingTold
  <2>3. DOMAIN eng.flows = {} /\ Cardinality({}) = 0
    BY FS_EmptySet DEF Final
  <2>4. Cardinality(DOMAIN eng.flows) = 0 /\ Cardinality(DOMAIN eng'.flows) = 0
    BY <1>3, <2>3
  <2>5. eng'.stats.flows_total - eng.stats.flows_total
          = (Cardinality(DOMAIN eng'.flows) + RetiredCount(eng'.stats))
              - (Cardinality(DOMAIN eng.flows) + RetiredCount(eng.stats))
    BY <1>3, <2>1, <2>4
  <2> QED BY <2>2, <2>3, <2>4, <2>5, ToldStep
<1> QED BY <1>1, <1>3, <1>5, <1>6 DEF Final

HandlerTold == StreamsContiguousStep /\ ClosedOnceStep

\* Every step keeps the invariant, tells the handler what it has to and, when it
\* moves the sweep clock, leaves no flow timed out.
LEMMA StepOK ==
    ASSUME RInv, [Next]_eng
    PROVE  RInv' /\ [SweepCompleteStep]_eng /\ [HandlerTold]_eng
<1>1. ASSUME ~eng.finalized, eng.packet_index < MaxPackets, Advances(eng, eng')
      PROVE  RInv' /\ SweepCompleteStep /\ HandlerTold
  <2>1. Settled(eng) /\ IdleBound(eng)
    BY <1>1 DEF RInv
  <2>2. eng.packet_index \in Nat /\ MaxPackets \in Nat
    BY <2>1, CoreNat, ReassemblerConstants DEF Settled
  <2>3. /\ Settled(eng') /\ eng'.packet_index = eng.packet_index + 1 /\ ~eng'.finalized
        /\ eng'.last_expiry_sweep_secs > eng.last_expiry_sweep_secs =>
              NoneTimedOut(eng', eng'.last_expiry_sweep_secs)
    BY <1>1 DEF Advances
  <2>4. IdleBound(eng')
    BY <1>1, <2>1, IdleStep
  <2>5. eng'.packet_index <= MaxPackets
    BY <1>1, <2>2, <2>3
  <2>6. RInv'
    BY <2>3, <2>4, <2>5, Zenon DEF RInv, IdleBound, Final, Settled, Core, NoneClosed, Limits, Shape, TableOK, Balanced
  <2>7. HandlerTold
    BY <1>1, <2>1, CoreToldStep DEF Advances, Settled, HandlerTold
  <2> QED BY <2>3, <2>6, <2>7 DEF SweepCompleteStep, NoneTimedOut
<1>2. ASSUME NEW p \in Packet, NEW ts \in Time, ProcessPacket(p, ts)
      PROVE  RInv' /\ SweepCompleteStep /\ HandlerTold
  <2>1. ~eng.finalized /\ eng.packet_index < MaxPackets /\ Settled(eng)
    BY <1>2 DEF ProcessPacket, Running, RInv
  <2>2. PICK e \in GetOrCreateFlow(Swept(ts), FlowKey(p), ts) :
          eng' \in IF FlowKey(p) \in DOMAIN e.flows THEN ApplyPacket(e, FlowKey(p), p) ELSE {e}
    BY <1>2 DEF ProcessPacket
  <2>3. Advances(eng, eng')
    BY <2>1, <2>2, TcpAdvances
  <2> QED BY <1>1, <2>1, <2>3
<1>3. ASSUME NEW ts \in Time, ProcessNonTcp(ts)
      PROVE  RInv' /\ SweepCompleteStep /\ HandlerTold
  <2>1. ~eng.finalized /\ eng.packet_index < MaxPackets /\ Settled(eng) /\ eng' = Swept(ts)
    BY <1>3 DEF ProcessNonTcp, Running, RInv
  <2>2. Advances(eng, eng')
    BY <2>1, NonTcpAdvances
  <2> QED BY <1>1, <2>1, <2>2
<1>4. ASSUME NEW ts \in Time, ExpireFlows(ts)
      PROVE  RInv' /\ SweepCompleteStep /\ HandlerTold
  <2>1. ~eng.finalized /\ Settled(eng) /\ IdleBound(eng) /\ eng.packet_index <= MaxPackets
    BY <1>4 DEF ExpireFlows, RInv
  <2>2. /\ Settled(eng') /\ IdleBound(eng')
        /\ eng'.packet_index = eng.packet_index /\ eng'.finalized = eng.finalized
        /\ eng'.last_expiry_sweep_secs = eng.last_expiry_sweep_secs
        /\ Told(eng, eng')
    BY <1>4, <2>1, ExpireFlowsOK
  <2>3. eng.last_expiry_sweep_secs \in Nat
    BY <2>1, CoreNat DEF Settled
  <2>4. HandlerTold
    BY <2>1, <2>2, CoreToldStep DEF Settled, HandlerTold
  <2> QED BY <2>1, <2>2, <2>3, <2>4 DEF RInv, SweepCompleteStep
<1>5. ASSUME Finalize
      PROVE  RInv' /\ SweepCompleteStep /\ HandlerTold
  <2>1. ~eng.finalized /\ Settled(eng) /\ eng.packet_index <= MaxPackets
    BY <1>5 DEF Finalize, RInv
  <2>2. /\ Final(eng') /\ eng'.finalized /\ eng'.packet_index = eng.packet_index
        /\ eng'.last_expiry_sweep_secs = eng.last_expiry_sweep_secs
        /\ HandlerTold
    BY <1>5, <2>1, FinalizeOK DEF HandlerTold
  <2>3. eng.last_expiry_sweep_secs \in Nat
    BY <2>1, CoreNat DEF Settled
  <2> QED BY <2>1, <2>2, <2>3 DEF RInv, SweepCompleteStep
<1>6. ASSUME FinalizeAgain
      PROVE  RInv' /\ SweepCompleteStep /\ HandlerTold
  <2>1. Final(eng) /\ eng.packet_index <= MaxPackets
    BY <1>6 DEF FinalizeAgain, RInv
  <2>2. /\ Final(eng') /\ eng'.finalized /\ eng'.packet_index = eng.packet_index
        /\ eng'.last_expiry_sweep_secs = eng.last_expiry_sweep_secs
        /\ HandlerTold
    BY <1>6, <2>1, FinalizeAgainOK DEF HandlerTold
  <2> QED BY <2>1, <2>2 DEF RInv, SweepCompleteStep, Final
<1>7. CASE UNCHANGED eng
  BY <1>7 DEF RInv
<1> QED BY <1>2, <1>3, <1>4, <1>5, <1>6, <1>7 DEF Next

\* The invariant holds throughout.
THEOREM EngineInvariant == Spec => []RInv
<1>1. Init => RInv
  BY InitOK
<1>2. RInv /\ [Next]_eng => RInv'
  BY StepOK
<1> QED BY <1>1, <1>2, PTL DEF Spec

-----------------------------------------------------------------------------
(* The properties                                                          *)

\* Every field keeps its type; between packets no flow is Closed, fin_count is at
\* most 1, and a direction holds bytes only once the initiator is known.
THEOREM TypeCorrect == Spec => []TypeOK
<1>1. RInv => TypeOK
  <2> SUFFICES ASSUME RInv
               PROVE  TypeOK
    OBVIOUS
  <2>1. CASE ~eng.finalized
    <3>1. Core(eng) /\ NoneClosed(eng) /\ Shape(eng) /\ eng.packet_index <= MaxPackets
      BY <2>1 DEF RInv, Settled, Core
    <3>2. eng.total_memory \in Nat
      BY <3>1, CoreNat
    <3>3. ASSUME NEW k \in DOMAIN eng.flows, NEW f, f = eng.flows[k]
          PROVE  /\ DOMAIN f.dir = Direction
                 /\ f.state \in FlowState \ {"Closed"}
                 /\ f.initiator \in k \cup {NoEndpoint}
                 /\ f.state # "New" => f.initiator # NoEndpoint
                 /\ \A d \in Direction : f.dir[d].isn # NoIsn => f.initiator # NoEndpoint
                 /\ f.state = "New" => \A d \in Direction : DOMAIN f.dir[d].segments = {}
                 /\ f.fin_count \in {0, 1}
                 /\ f.last_seen \in Time
                 /\ f.last_activity_index \in 1 .. eng.packet_index
      <4>1. /\ FlowOK(f, k) /\ f.last_activity_index \in 1 .. eng.packet_index
            /\ f.state # "Closed"
        BY <3>1, <3>3 DEF Core, TableOK, NoneClosed
      <4>2. f.fin_count \in {0, 1}
        BY <4>1 DEF FlowOK
      <4>3. ASSUME f.state = "New", NEW d \in Direction
            PROVE  DOMAIN f.dir[d].segments = {}
        BY <4>1, <4>3 DEF FlowOK, DirectionInv, CursorInv
      <4> QED BY <4>1, <4>2, <4>3 DEF FlowOK
    <3>4. /\ DOMAIN eng.flows \subseteq Key /\ eng.findings \in Nat
          /\ \A c \in DOMAIN eng.stats : eng.stats[c] \in Nat
          /\ eng.last_expiry_sweep_secs \in Time \cup {0} /\ DOMAIN eng.calls = Key
      BY <3>1 DEF Core, TableOK, Shape
    <3>5. eng.packet_index \in 0 .. MaxPackets
      BY <3>1, ReassemblerConstants DEF Shape
    <3> QED BY <3>2, <3>3, <3>4, <3>5, Zenon DEF TypeOK
  <2>2. CASE eng.finalized
    <3>1. Shape(eng) /\ DOMAIN eng.flows = {} /\ eng.total_memory = 0 /\ eng.packet_index <= MaxPackets
      BY <2>2 DEF RInv, Final
    <3>2. /\ eng.findings \in Nat /\ \A c \in DOMAIN eng.stats : eng.stats[c] \in Nat
          /\ eng.last_expiry_sweep_secs \in Time \cup {0} /\ DOMAIN eng.calls = Key
      BY <3>1 DEF Shape
    <3>3. eng.packet_index \in 0 .. MaxPackets /\ eng.total_memory \in Nat
      BY <3>1, ReassemblerConstants DEF Shape
    <3> QED BY <3>1, <3>2, <3>3 DEF TypeOK
  <2> QED BY <2>1, <2>2
<1> QED BY <1>1, EngineInvariant, PTL

\* BC-2.04.014: total_memory, kept by differences at every insert, flush and
\* close, is the number of bytes the buffers of the live flows hold.
THEOREM MemoryNeverDrifts == Spec => []MemoryExact
<1>1. RInv => MemoryExact
  <2> SUFFICES ASSUME RInv
               PROVE  MemoryExact
    OBVIOUS
  <2>1. CASE ~eng.finalized
    <3>1. Core(eng)
      BY <2>1 DEF RInv, Settled
    <3>2. eng.total_memory = MemoryOf(eng.flows, DOMAIN eng.flows)
      BY <3>1 DEF Core, Balanced
    <3>3. ASSUME NEW k \in DOMAIN eng.flows, NEW d \in Direction
          PROVE  eng.flows[k].dir[d].buffered_bytes = Cardinality(Covered(eng.flows[k].dir[d].segments))
      <4>1. DirectionInv(eng.flows[k].dir[d])
        BY <3>1 DEF Core, TableOK, FlowOK
      <4> QED BY <4>1 DEF DirectionInv, BufferInv
    <3> QED BY <3>2, <3>3 DEF MemoryExact
  <2>2. CASE eng.finalized
    <3>1. DOMAIN eng.flows = {} /\ eng.total_memory = 0
      BY <2>2 DEF RInv, Final
    <3>2. MemoryOf(eng.flows, DOMAIN eng.flows) = 0
      BY <3>1, MemoryEmpty
    <3> QED BY <3>1, <3>2 DEF MemoryExact
  <2> QED BY <2>1, <2>2
<1> QED BY <1>1, EngineInvariant, PTL

\* One pass of evict_flows is enough: between packets memcap, max_flows and
\* MAX_FINDINGS hold, for every capture and every value of the limits.
THEOREM LimitsHold == Spec => []WithinLimits
<1>1. RInv => WithinLimits
  <2> SUFFICES ASSUME RInv
               PROVE  WithinLimits
    OBVIOUS
  <2>1. MaxFindings \in Nat /\ Memcap \in Nat /\ MaxFlows \in Nat
    BY ReassemblerConstants
  <2>2. CASE ~eng.finalized
    <3>1. /\ eng.total_memory <= Memcap /\ Cardinality(DOMAIN eng.flows) <= MaxFlows
          /\ eng.findings <= MaxFindings
          /\ eng.stats.dropped_findings > 0 => eng.findings >= MaxFindings
      BY <2>2 DEF RInv, Settled, Core, Limits, Balanced
    <3> QED BY <2>1, <2>2, <3>1 DEF WithinLimits
  <2>3. CASE eng.finalized
    <3>1. /\ DOMAIN eng.flows = {} /\ eng.total_memory = 0
          /\ eng.findings <= MaxFindings + (IF eng.segment_limit_hit THEN 1 ELSE 0)
          /\ eng.stats.dropped_findings > 0 => eng.findings >= MaxFindings
      BY <2>3 DEF RInv, Final
    <3>2. Cardinality(DOMAIN eng.flows) = 0
      BY <3>1, FS_EmptySet
    <3> QED BY <2>1, <2>3, <3>1, <3>2 DEF WithinLimits
  <2> QED BY <2>2, <2>3
<1> QED BY <1>1, EngineInvariant, PTL

\* Every flow ever created is in the table or was counted under exactly one of
\* FIN, RST, expired and evicted; what finalize closes is not counted.
THEOREM FlowsNeverLost == Spec => []FlowsAccounted
<1>1. RInv => FlowsAccounted
  <2> SUFFICES ASSUME RInv
               PROVE  FlowsAccounted
    OBVIOUS
  <2>1. CASE ~eng.finalized
    <3>1. eng.stats.flows_total = Cardinality(DOMAIN eng.flows) + RetiredCount(eng.stats)
      BY <2>1 DEF RInv, Settled, Core, Balanced
    <3> QED BY <2>1, <3>1 DEF FlowsAccounted, RetiredCount
  <2>2. CASE eng.finalized
    <3>1. DOMAIN eng.flows = {} /\ RetiredCount(eng.stats) <= eng.stats.flows_total
      BY <2>2 DEF RInv, Final
    <3> QED BY <2>2, <3>1 DEF FlowsAccounted, RetiredCount
  <2> QED BY <2>1, <2>2
<1> QED BY <1>1, EngineInvariant, PTL

\* R4: whatever the timestamps do, a flow without activity leaves the table within
\* idle_packet_threshold packets plus one sweep interval.
THEOREM IdleFlowsLeave == Spec => []IdlePacketsBounded
<1>1. RInv => IdlePacketsBounded
  <2> SUFFICES ASSUME RInv, ExpirySweepInterval > 0, NEW k \in DOMAIN eng.flows
               PROVE  eng.packet_index - eng.flows[k].last_activity_index
                         < IdlePacketThreshold + ExpirySweepInterval
    BY DEF IdlePacketsBounded
  <2>1. ~eng.finalized
    BY DEF RInv, Final
  <2>2. Settled(eng) /\ IdleBound(eng)
    BY <2>1 DEF RInv
  <2>3. eng.packet_index \in Nat /\ eng.flows[k].last_activity_index \in Nat
    BY <2>2, CoreNat DEF Settled
  <2>4. ExpirySweepInterval \in Nat /\ IdlePacketThreshold \in Nat
    BY ReassemblerConstants
  <2> DEFINE since == eng.packet_index % ExpirySweepInterval
  <2>5. since \in 0 .. (ExpirySweepInterval - 1)
    BY <2>3, <2>4, DivMod
  <2>6. eng.packet_index - eng.flows[k].last_activity_index <= IdlePacketThreshold + since
    BY <2>2 DEF IdleBound
  <2> HIDE DEF since
  <2> QED BY <2>3, <2>4, <2>5, <2>6
<1> QED BY <1>1, EngineInvariant, PTL

\* If bytes tell their senders, the two directions of a flow never mix them: the
\* initiator is settled before the first byte is stored, whatever order SYN,
\* SYN+ACK and mid-stream data arrive in, and a payload goes to its sender's side.
THEOREM SidesStayApart == ASSUME BytesNameSenders PROVE Spec => []SidesNotMixed
<1>1. RInv => SidesNotMixed
  <2> SUFFICES ASSUME RInv, NEW k \in DOMAIN eng.flows
               PROVE  \A d \in Direction : FromSide(eng.flows[k].dir[d].segments, eng.flows[k].initiator, d)
    BY DEF SidesNotMixed
  <2>1. ~eng.finalized
    BY DEF RInv, Final
  <2>2. FlowOK(eng.flows[k], k)
    BY <2>1 DEF RInv, Settled, Core, TableOK
  <2> QED BY <2>2 DEF FlowOK, OneSided
<1> QED BY <1>1, EngineInvariant, PTL

\* BC-2.04.013: a step that moves last_expiry_sweep_secs forward leaves no flow
\* idle for more than flow_timeout_secs at that time.
THEOREM SweepLeavesNone == Spec => SweepComplete
<1>1. RInv /\ [Next]_eng => [SweepCompleteStep]_eng
  BY StepOK
<1> QED BY <1>1, EngineInvariant, PTL DEF Spec, SweepComplete

\* The contract of StreamHandler: within one life of a flow the data of a direction
\* follows from offset 1 on without hole or repeat, across flushes, sweeps,
\* evictions, finalize and the reuse of a key, whatever order segments arrive in.
THEOREM HandlerStreams == Spec => StreamsContiguous
<1>1. RInv /\ [Next]_eng => [StreamsContiguousStep]_eng
  BY StepOK DEF HandlerTold
<1> QED BY <1>1, EngineInvariant, PTL DEF Spec, StreamsContiguous

\* on_flow_close is called exactly once for every flow that leaves the table by FIN,
\* RST, a sweep, an eviction or finalize.
THEOREM HandlerCloses == Spec => ClosedOnce
<1>1. RInv /\ [Next]_eng => [ClosedOnceStep]_eng
  BY StepOK DEF HandlerTold
<1> QED BY <1>1, EngineInvariant, PTL DEF Spec, ClosedOnce
=============================================================================
