--------------------------- MODULE EngineTheorems ---------------------------
(***************************************************************************)
(* The reassembly engine inside process_packet: retiring flows, what the   *)
(* handler is told by it, evicting flows, and the two sweeps that precede  *)
(* every packet.                                                           *)
(***************************************************************************)
EXTENDS FlowTheorems

-----------------------------------------------------------------------------
(* The engine, inside process_packet and between packets                   *)

EngineFields == {"flows", "total_memory", "findings", "stats", "segment_limit_hit", "packet_index",
                 "last_expiry_sweep_secs", "finalized", "calls"}

StatFields == {"flows_total", "flows_fin", "flows_rst", "flows_expired", "evictions", "dropped_findings"}

RetiredCount(s) == s.flows_fin + s.flows_rst + s.flows_expired + s.evictions

Shape(e) ==
    /\ DOMAIN e = EngineFields
    /\ DOMAIN e.stats = StatFields /\ \A c \in StatFields : e.stats[c] \in Nat
    /\ DOMAIN e.calls = Key
    /\ e.findings \in Nat
    /\ e.packet_index \in Nat
    /\ e.last_expiry_sweep_secs \in Time \cup {0}
    /\ e.segment_limit_hit \in BOOLEAN
    /\ e.finalized \in BOOLEAN

TableOK(e) ==
    /\ DOMAIN e.flows \subseteq Key
    /\ IsFiniteSet(DOMAIN e.flows)
    /\ \A k \in DOMAIN e.flows :
          FlowOK(e.flows[k], k) /\ e.flows[k].last_activity_index \in 1 .. e.packet_index

\* The books of a running engine: memory, findings and flows.
Balanced(e) ==
    /\ e.total_memory = MemoryOf(e.flows, DOMAIN e.flows)
    /\ e.findings <= MaxFindings
    /\ e.stats.dropped_findings > 0 => e.findings >= MaxFindings
    /\ e.stats.flows_total = Cardinality(DOMAIN e.flows) + RetiredCount(e.stats)

Core(e) == Shape(e) /\ TableOK(e) /\ Balanced(e)

\* From e to r no flow was added or touched.
Later(e, r) ==
    /\ DOMAIN r.flows \subseteq DOMAIN e.flows
    /\ \A k \in DOMAIN r.flows : SameTimes(e.flows[k], r.flows[k])
    /\ r.packet_index = e.packet_index
    /\ r.last_expiry_sweep_secs = e.last_expiry_sweep_secs
    /\ r.finalized = e.finalized

\* The flows of K are flushed and their close is reported, and nothing else.
Reports(e, r, K) ==
    \E reason : \A k \in Key :
        r.calls[k] = IF k \in K THEN WithClose(e.calls[k], e.flows[k], reason) ELSE e.calls[k]

\* The flows of K are closed and counted under one of the four reasons.
Retires(e, r, K) ==
    /\ DOMAIN r = EngineFields
    /\ DOMAIN r.flows = DOMAIN e.flows \ K
    /\ \A k \in DOMAIN e.flows \ K : r.flows[k] = e.flows[k]
    /\ r.total_memory = e.total_memory - MemoryOf(e.flows, K)
    /\ DOMAIN r.calls = Key /\ Reports(e, r, K)
    /\ r.findings = e.findings
    /\ r.segment_limit_hit = e.segment_limit_hit
    /\ r.packet_index = e.packet_index
    /\ r.last_expiry_sweep_secs = e.last_expiry_sweep_secs
    /\ r.finalized = e.finalized
    /\ DOMAIN r.stats = StatFields /\ \A c \in StatFields : r.stats[c] \in Nat
    /\ r.stats.flows_total = e.stats.flows_total
    /\ r.stats.dropped_findings = e.stats.dropped_findings
    /\ RetiredCount(r.stats) = RetiredCount(e.stats) + Cardinality(K)

\* The live flows of a sound engine hold countably many bytes.
LEMMA TableSized ==
    ASSUME NEW e, TableOK(e)
    PROVE  Sized(e.flows, DOMAIN e.flows)
BY MemoryUsedNat DEF TableOK, Sized

\* Closing flows and counting them keeps the books balanced.
LEMMA RetireOK ==
    ASSUME NEW e, Core(e), NEW K \in SUBSET DOMAIN e.flows, NEW r, Retires(e, r, K)
    PROVE  /\ Core(r) /\ Later(e, r)
           /\ Cardinality(DOMAIN r.flows) <= Cardinality(DOMAIN e.flows)
           /\ r.total_memory \in Nat /\ r.total_memory <= e.total_memory
<1> DEFINE D == DOMAIN e.flows
<1>1. Shape(r)
  BY DEF Core, Shape, Retires
<1>2. IsFiniteSet(D) /\ Sized(e.flows, D)
  BY TableSized DEF Core, TableOK
<1>3. /\ IsFiniteSet(K) /\ Cardinality(K) \in Nat
      /\ IsFiniteSet(D \ K) /\ Cardinality(D \ K) = Cardinality(D) - Cardinality(K)
      /\ Cardinality(D) \in Nat
  <2>1. D \cap K = K
    OBVIOUS
  <2>2. IsFiniteSet(K)
    BY <1>2, FS_Subset
  <2> QED BY <1>2, <2>1, <2>2, FS_Difference, FS_CardinalityType, ZenonT(30)
<1>4. TableOK(r)
  BY <1>3 DEF Core, TableOK, Retires
<1>5. Later(e, r)
  BY DEF Later, Retires, SameTimes
<1>6. /\ MemoryOf(e.flows, D) = MemoryOf(e.flows, K) + MemoryOf(e.flows, D \ K)
      /\ MemoryOf(e.flows, K) \in Nat /\ MemoryOf(e.flows, D \ K) \in Nat
  BY <1>2, MemorySplit
<1>7. MemoryOf(r.flows, D \ K) = MemoryOf(e.flows, D \ K)
  <2>1. \A k \in D \ K : MemoryUsed(r.flows[k]) = MemoryUsed(e.flows[k])
    BY DEF Retires
  <2> QED BY <2>1, MemorySame
<1>8. /\ r.total_memory = MemoryOf(r.flows, DOMAIN r.flows)
      /\ r.total_memory \in Nat /\ r.total_memory <= e.total_memory
  <2>1. DOMAIN r.flows = D \ K /\ r.total_memory = e.total_memory - MemoryOf(e.flows, K)
    BY DEF Retires
  <2>2. e.total_memory = MemoryOf(e.flows, D)
    BY DEF Core, Balanced
  <2> HIDE DEF D
  <2> QED BY <1>6, <1>7, <2>1, <2>2
<1>9. r.stats.flows_total = Cardinality(DOMAIN r.flows) + RetiredCount(r.stats)
  <2>1. RetiredCount(e.stats) \in Nat
    BY DEF Core, Shape, StatFields, RetiredCount
  <2>2. /\ e.stats.flows_total = Cardinality(D) + RetiredCount(e.stats)
        /\ r.stats.flows_total = e.stats.flows_total
        /\ DOMAIN r.flows = D \ K
        /\ RetiredCount(r.stats) = RetiredCount(e.stats) + Cardinality(K)
    BY DEF Core, Balanced, Retires
  <2> HIDE DEF D
  <2> QED BY <1>3, <2>1, <2>2
<1>10. Balanced(r)
  BY <1>8, <1>9 DEF Core, Balanced, Retires
<1>11. Cardinality(DOMAIN r.flows) <= Cardinality(D)
  BY <1>3 DEF Retires
<1> QED BY <1>1, <1>4, <1>5, <1>8, <1>10, <1>11 DEF Core

\* close_flow on each flow of K, before they are counted.
LEMMA CloseFlowsFields ==
    ASSUME NEW e, Shape(e), NEW K, NEW reason, NEW c, c = CloseFlows(e, K, reason)
    PROVE  /\ DOMAIN c = EngineFields
           /\ DOMAIN c.flows = DOMAIN e.flows \ K
           /\ \A k \in DOMAIN e.flows \ K : c.flows[k] = e.flows[k]
           /\ c.total_memory = e.total_memory - MemoryOf(e.flows, K)
           /\ DOMAIN c.calls = Key /\ Reports(e, c, K)
           /\ c.findings = e.findings
           /\ c.segment_limit_hit = e.segment_limit_hit
           /\ c.packet_index = e.packet_index
           /\ c.last_expiry_sweep_secs = e.last_expiry_sweep_secs
           /\ c.finalized = e.finalized
           /\ c.stats = e.stats
<1>1. DOMAIN e = EngineFields
  BY DEF Shape
<1> DEFINE left == [k \in DOMAIN e.flows \ K |-> e.flows[k]]
           calls == [k \in Key |->
                        IF k \in K THEN e.calls[k] \o CloseCalls(e.flows[k], reason) ELSE e.calls[k]]
           memory == e.total_memory - MemoryOf(e.flows, K)
<1>2. c = [e EXCEPT !.flows = left, !.total_memory = memory, !.calls = calls]
  BY DEF CloseFlows
<1>3. /\ DOMAIN left = DOMAIN e.flows \ K
      /\ \A k \in DOMAIN e.flows \ K : left[k] = e.flows[k]
      /\ DOMAIN calls = Key
      /\ \A k \in Key : calls[k] = IF k \in K THEN WithClose(e.calls[k], e.flows[k], reason) ELSE e.calls[k]
  BY DEF WithClose
<1> HIDE DEF left, memory, calls
<1>4. /\ c.flows = left /\ c.total_memory = memory /\ c.calls = calls
      /\ DOMAIN c = EngineFields
      /\ \A x \in EngineFields \ {"flows", "total_memory", "calls"} : c[x] = e[x]
  BY <1>1, <1>2, Zenon DEF EngineFields
<1>5. Reports(e, c, K)
  BY <1>3, <1>4 DEF Reports
<1> QED BY <1>3, <1>4, <1>5 DEF EngineFields, memory

\* A retirement is counted by adding to one of the four counters.
LEMMA CountRetires ==
    ASSUME NEW e, Shape(e), NEW K, NEW reason, NEW c, c = CloseFlows(e, K, reason),
           Cardinality(K) \in Nat,
           NEW counter \in {"flows_fin", "flows_rst", "flows_expired", "evictions"},
           NEW r, DOMAIN r = EngineFields,
           \A x \in EngineFields \ {"stats"} : r[x] = c[x],
           DOMAIN r.stats = StatFields,
           r.stats[counter] = e.stats[counter] + Cardinality(K),
           \A x \in StatFields \ {counter} : r.stats[x] = e.stats[x]
    PROVE  Retires(e, r, K)
<1>1. /\ DOMAIN c.flows = DOMAIN e.flows \ K
      /\ \A k \in DOMAIN e.flows \ K : c.flows[k] = e.flows[k]
      /\ c.total_memory = e.total_memory - MemoryOf(e.flows, K)
      /\ DOMAIN c.calls = Key /\ Reports(e, c, K)
      /\ c.findings = e.findings
      /\ c.segment_limit_hit = e.segment_limit_hit
      /\ c.packet_index = e.packet_index
      /\ c.last_expiry_sweep_secs = e.last_expiry_sweep_secs
      /\ c.finalized = e.finalized
  BY CloseFlowsFields
<1>2. \A x \in StatFields : e.stats[x] \in Nat
  BY DEF Shape
<1>3. /\ \A x \in StatFields : r.stats[x] \in Nat
      /\ RetiredCount(r.stats) = RetiredCount(e.stats) + Cardinality(K)
      /\ r.stats.flows_total = e.stats.flows_total
      /\ r.stats.dropped_findings = e.stats.dropped_findings
  <2>1. CASE counter = "flows_fin"
    BY <1>2, <2>1 DEF StatFields, RetiredCount
  <2>2. CASE counter = "flows_rst"
    BY <1>2, <2>2 DEF StatFields, RetiredCount
  <2>3. CASE counter = "flows_expired"
    BY <1>2, <2>3 DEF StatFields, RetiredCount
  <2>4. CASE counter = "evictions"
    BY <1>2, <2>4 DEF StatFields, RetiredCount
  <2> QED BY <2>1, <2>2, <2>3, <2>4
<1>4. \A x \in EngineFields \ {"stats"} : r[x] = c[x]
  OBVIOUS
<1>5. /\ r.flows = c.flows /\ r.total_memory = c.total_memory /\ r.calls = c.calls
      /\ r.findings = c.findings /\ r.segment_limit_hit = c.segment_limit_hit
      /\ r.packet_index = c.packet_index /\ r.finalized = c.finalized
      /\ r.last_expiry_sweep_secs = c.last_expiry_sweep_secs
  BY <1>4 DEF EngineFields
<1>6. Reports(e, r, K)
  BY <1>1, <1>5 DEF Reports
<1> QED BY <1>1, <1>3, <1>5, <1>6 DEF Retires

\* Flows closed by either sweep are counted as expired.
LEMMA ExpireRetires ==
    ASSUME NEW e, Shape(e), TableOK(e), NEW K \in SUBSET DOMAIN e.flows, NEW r, r = Expire(e, K)
    PROVE  Retires(e, r, K)
<1> DEFINE c == CloseFlows(e, K, "Timeout")
<1>1. Shape(e) /\ IsFiniteSet(K)
  BY FS_Subset DEF TableOK
<1>2. Cardinality(K) \in Nat
  BY <1>1, FS_CardinalityType
<1>3. DOMAIN c = EngineFields /\ c.stats = e.stats /\ DOMAIN e.stats = StatFields
  BY <1>1, CloseFlowsFields DEF Shape
<1>4. r = [c EXCEPT !.stats.flows_expired = @ + Cardinality(K)]
  BY DEF Expire
<1> HIDE DEF c
<1>5. /\ DOMAIN r = EngineFields /\ \A x \in EngineFields \ {"stats"} : r[x] = c[x]
      /\ DOMAIN r.stats = StatFields
      /\ r.stats["flows_expired"] = e.stats["flows_expired"] + Cardinality(K)
      /\ \A x \in StatFields \ {"flows_expired"} : r.stats[x] = e.stats[x]
  BY <1>3, <1>4 DEF EngineFields, StatFields
<1> QED BY <1>1, <1>2, <1>5, CountRetires DEF c

\* The flows evict_flows closes are counted as evictions.
LEMMA EvictRetires ==
    ASSUME NEW e, Core(e), NEW target, NEW r \in EvictFlows(e, target)
    PROVE  \E K \in SUBSET DOMAIN e.flows :
              Retires(e, r, K) /\ (K = DOMAIN e.flows \/ Relieved(e, K, target))
<1>1. PICK K \in Victims(e, target) :
        r = [CloseFlows(e, K, "MemoryPressure") EXCEPT !.stats.evictions = @ + Cardinality(K)]
  BY DEF EvictFlows
<1>2. K \in SUBSET DOMAIN e.flows /\ (K = DOMAIN e.flows \/ Relieved(e, K, target))
  BY DEF Victims
<1> DEFINE c == CloseFlows(e, K, "MemoryPressure")
<1>3. Shape(e) /\ IsFiniteSet(K)
  BY <1>2, FS_Subset DEF Core, TableOK
<1>4. Cardinality(K) \in Nat
  BY <1>3, FS_CardinalityType
<1>5. DOMAIN c = EngineFields /\ c.stats = e.stats /\ DOMAIN e.stats = StatFields
  BY <1>3, CloseFlowsFields DEF Shape
<1>6. r = [c EXCEPT !.stats.evictions = @ + Cardinality(K)]
  BY <1>1
<1> HIDE DEF c
<1>7. /\ DOMAIN r = EngineFields /\ \A x \in EngineFields \ {"stats"} : r[x] = c[x]
      /\ DOMAIN r.stats = StatFields
      /\ r.stats["evictions"] = e.stats["evictions"] + Cardinality(K)
      /\ \A x \in StatFields \ {"evictions"} : r.stats[x] = e.stats[x]
  BY <1>5, <1>6 DEF EngineFields, StatFields
<1>8. Retires(e, r, K)
  BY <1>3, <1>4, <1>7, CountRetires DEF c
<1> QED BY <1>2, <1>8

\* A RST closes its flow and is counted.
LEMMA RstRetires ==
    ASSUME NEW e, Core(e), NEW k \in DOMAIN e.flows, NEW r, r = CloseByRst(e, k)
    PROVE  Retires(e, r, {k})
<1> DEFINE c == CloseFlows(e, {k}, "Rst")
<1>1. Shape(e) /\ Cardinality({k}) = 1
  BY FS_Singleton DEF Core
<1>2. DOMAIN c = EngineFields /\ c.stats = e.stats /\ DOMAIN e.stats = StatFields
  BY <1>1, CloseFlowsFields DEF Shape
<1>3. r = [c EXCEPT !.stats.flows_rst = @ + 1]
  BY DEF CloseByRst
<1> HIDE DEF c
<1>4. /\ DOMAIN r = EngineFields /\ \A x \in EngineFields \ {"stats"} : r[x] = c[x]
      /\ DOMAIN r.stats = StatFields
      /\ r.stats["flows_rst"] = e.stats["flows_rst"] + Cardinality({k})
      /\ \A x \in StatFields \ {"flows_rst"} : r.stats[x] = e.stats[x]
  BY <1>1, <1>2, <1>3 DEF EngineFields, StatFields
<1> QED BY <1>1, <1>4, CountRetires DEF c

\* The second FIN closes its flow and is counted; otherwise nothing happens.
LEMMA FinRetires ==
    ASSUME NEW e, Core(e), NEW k \in DOMAIN e.flows, NEW r, r = CloseByFin(e, k)
    PROVE  IF e.flows[k].state = "Closed" THEN Retires(e, r, {k}) ELSE r = e
<1> DEFINE c == CloseFlows(e, {k}, "Fin")
<1>1. Shape(e) /\ Cardinality({k}) = 1
  BY FS_Singleton DEF Core
<1>2. DOMAIN c = EngineFields /\ c.stats = e.stats /\ DOMAIN e.stats = StatFields
  BY <1>1, CloseFlowsFields DEF Shape
<1>3. CASE e.flows[k].state = "Closed"
  <2>1. r = [c EXCEPT !.stats.flows_fin = @ + 1]
    BY <1>3 DEF CloseByFin
  <2> HIDE DEF c
  <2>2. /\ DOMAIN r = EngineFields /\ \A x \in EngineFields \ {"stats"} : r[x] = c[x]
        /\ DOMAIN r.stats = StatFields
        /\ r.stats["flows_fin"] = e.stats["flows_fin"] + Cardinality({k})
        /\ \A x \in StatFields \ {"flows_fin"} : r.stats[x] = e.stats[x]
    BY <1>1, <1>2, <2>1 DEF EngineFields, StatFields
  <2>3. Retires(e, r, {k})
    BY <1>1, <2>2, CountRetires DEF c
  <2> QED BY <1>3, <2>3
<1>4. CASE e.flows[k].state # "Closed"
  BY <1>4 DEF CloseByFin
<1> QED BY <1>3, <1>4

-----------------------------------------------------------------------------
(* What the handler has been told since a given engine                     *)

CloseCells(calls) == UNION {{k} \X (1 .. Cardinality(Closes(calls[k]))) : k \in Key}

\* Since b every direction was continued without hole or repeat, and there was
\* one close for each flow retired.
Told(b, e) ==
    /\ \A k \in Key : Listed(e.calls[k])
    /\ \A k \in Key, d \in Direction :
          Follows(NextOffset(b, k, d), e.calls[k], NextOffset(e, k, d), d)
    /\ IsFiniteSet(CloseCells(e.calls))
    /\ RetiredCount(b.stats) \in Int
    /\ Cardinality(CloseCells(e.calls)) + RetiredCount(b.stats) = RetiredCount(e.stats)
    /\ \A k \in Key : k \in DOMAIN b.flows /\ k \notin DOMAIN e.flows => Closes(e.calls[k]) # {}

Hears(e, r) == \A b : Told(b, e) => Told(b, r)

\* One close more for each key of K.
LEMMA CloseCellsGrow ==
    ASSUME NEW c, NEW r, NEW K \in SUBSET Key, IsFiniteSet(K), IsFiniteSet(CloseCells(c)),
           \A k \in Key : Cardinality(Closes(c[k])) \in Nat,
           \A k \in K : Cardinality(Closes(r[k])) = Cardinality(Closes(c[k])) + 1,
           \A k \in Key \ K : Closes(r[k]) = Closes(c[k])
    PROVE  /\ IsFiniteSet(CloseCells(r))
           /\ Cardinality(CloseCells(r)) = Cardinality(CloseCells(c)) + Cardinality(K)
<1> DEFINE g == [k \in K |-> <<k, Cardinality(Closes(c[k])) + 1>>]
           new == {g[k] : k \in K}
<1>1. IsFiniteSet(new) /\ Cardinality(new) = Cardinality(K)
  <2>1. g \in Surjection(K, new) /\ g \in Injection(K, new)
    BY DEF Surjection, Injection, IsInjective
  <2> HIDE DEF g, new
  <2> QED BY <2>1, FS_Surjection
<1>2. \A x : x \in CloseCells(c) <=>
          \E k \in Key : \E i \in 1 .. Cardinality(Closes(c[k])) : x = <<k, i>>
  BY DEF CloseCells
<1>3. \A x : x \in CloseCells(r) <=>
          \E k \in Key : \E i \in 1 .. Cardinality(Closes(r[k])) : x = <<k, i>>
  BY DEF CloseCells
<1>4. \A x : x \in new <=> \E k \in K : x = <<k, Cardinality(Closes(c[k])) + 1>>
  OBVIOUS
<1> HIDE DEF new
<1>5. CloseCells(r) = CloseCells(c) \cup new
  <2>1. ASSUME NEW x \in CloseCells(r) PROVE x \in CloseCells(c) \cup new
    <3>1a. PICK k \in Key : \E i \in 1 .. Cardinality(Closes(r[k])) : x = <<k, i>>
      BY <1>3
    <3>1. PICK i \in 1 .. Cardinality(Closes(r[k])) : x = <<k, i>>
      BY <3>1a
    <3>2. CASE k \in K /\ i = Cardinality(Closes(c[k])) + 1
      BY <1>4, <3>1, <3>2
    <3>3. CASE ~ (k \in K /\ i = Cardinality(Closes(c[k])) + 1)
      <4>1. i \in 1 .. Cardinality(Closes(c[k]))
        BY <3>1, <3>3
      <4> QED BY <1>2, <3>1, <4>1
    <3> QED BY <3>2, <3>3
  <2>2. ASSUME NEW x \in CloseCells(c) PROVE x \in CloseCells(r)
    <3>1a. PICK k \in Key : \E i \in 1 .. Cardinality(Closes(c[k])) : x = <<k, i>>
      BY <1>2
    <3>1. PICK i \in 1 .. Cardinality(Closes(c[k])) : x = <<k, i>>
      BY <3>1a
    <3>2. i \in 1 .. Cardinality(Closes(r[k]))
      BY <3>1
    <3> QED BY <1>3, <3>1, <3>2
  <2>3. ASSUME NEW x \in new PROVE x \in CloseCells(r)
    <3>1. PICK k \in K : x = <<k, Cardinality(Closes(c[k])) + 1>>
      BY <1>4
    <3>2. Cardinality(Closes(c[k])) + 1 \in 1 .. Cardinality(Closes(r[k]))
      BY <3>1
    <3> QED BY <1>3, <3>1, <3>2
  <2> QED BY <2>1, <2>2, <2>3
<1>6. CloseCells(c) \cap new = {}
  <2>1. SUFFICES ASSUME NEW x \in CloseCells(c), x \in new PROVE FALSE
    OBVIOUS
  <2>2a. PICK k \in Key : \E i \in 1 .. Cardinality(Closes(c[k])) : x = <<k, i>>
    BY <1>2
  <2>2. PICK i \in 1 .. Cardinality(Closes(c[k])) : x = <<k, i>>
    BY <2>2a
  <2>3. PICK l \in K : x = <<l, Cardinality(Closes(c[l])) + 1>>
    BY <1>4, <2>1
  <2>4. k = l /\ i = Cardinality(Closes(c[k])) + 1
    BY <2>2, <2>3
  <2> QED BY <2>2, <2>4
<1>7. Cardinality(CloseCells(c) \cap new) = 0
  BY <1>6, FS_EmptySet, Zenon
<1>8. Cardinality(CloseCells(c)) \in Nat /\ Cardinality(K) \in Nat
  BY FS_CardinalityType
<1>9. /\ IsFiniteSet(CloseCells(c) \cup new)
      /\ Cardinality(CloseCells(c) \cup new)
           = Cardinality(CloseCells(c)) + Cardinality(new) - Cardinality(CloseCells(c) \cap new)
  BY <1>1, FS_Union
<1> QED BY <1>1, <1>5, <1>7, <1>8, <1>9

\* The closes are as many as before if none was reported.
LEMMA CloseCellsSame ==
    ASSUME NEW c, NEW r, \A k \in Key : Closes(r[k]) = Closes(c[k])
    PROVE  CloseCells(r) = CloseCells(c)
BY DEF CloseCells

\* Every way to retire flows tells the handler what it has to.
LEMMA RetireHears ==
    ASSUME NEW e, TableOK(e), NEW K \in SUBSET DOMAIN e.flows, NEW r, Retires(e, r, K)
    PROVE  Hears(e, r)
<1> SUFFICES ASSUME NEW b, Told(b, e) PROVE Told(b, r)
  BY DEF Hears
<1>1. /\ DOMAIN r.flows = DOMAIN e.flows \ K
      /\ \A k \in DOMAIN e.flows \ K : r.flows[k] = e.flows[k]
      /\ RetiredCount(r.stats) = RetiredCount(e.stats) + Cardinality(K)
  BY DEF Retires
<1>2. PICK reason : \A k \in Key :
        r.calls[k] = IF k \in K THEN WithClose(e.calls[k], e.flows[k], reason) ELSE e.calls[k]
  BY Zenon DEF Retires, Reports
<1>3. K \in SUBSET Key /\ IsFiniteSet(K)
  BY FS_Subset DEF TableOK
<1>4. \A k \in Key : Listed(e.calls[k])
  BY DEF Told
<1>5. ASSUME NEW k \in K
      PROVE  /\ Listed(r.calls[k])
             /\ Cardinality(Closes(r.calls[k])) = Cardinality(Closes(e.calls[k])) + 1
             /\ Closes(r.calls[k]) # {}
             /\ \A d \in Direction : Takes(e.calls[k], r.calls[k], d, NextOffset(e, k, d), NextOffset(r, k, d))
  <2>1. \A d \in Direction : DirectionInv(e.flows[k].dir[d])
    BY DEF TableOK, FlowOK
  <2>2. Listed(e.calls[k]) /\ r.calls[k] = WithClose(e.calls[k], e.flows[k], reason)
    BY <1>2, <1>3, <1>4
  <2>3. /\ Listed(r.calls[k])
        /\ Cardinality(Closes(r.calls[k])) = Cardinality(Closes(e.calls[k])) + 1
        /\ Closes(r.calls[k]) # {}
        /\ \A d \in Direction : Takes(e.calls[k], r.calls[k], d, At(e.flows[k].dir[d]), 1)
    BY <2>1, <2>2, CloseTakes, SMTT(30)
  <2>4. \A d \in Direction : NextOffset(e, k, d) = At(e.flows[k].dir[d]) /\ NextOffset(r, k, d) = 1
    BY <1>1 DEF NextOffset, At
  <2> QED BY <2>3, <2>4
<1>6. ASSUME NEW k \in Key \ K
      PROVE  r.calls[k] = e.calls[k] /\ \A d \in Direction : NextOffset(r, k, d) = NextOffset(e, k, d)
  BY <1>1, <1>2 DEF NextOffset
<1>7. ASSUME NEW k \in Key, NEW d \in Direction
      PROVE  Follows(NextOffset(b, k, d), r.calls[k], NextOffset(r, k, d), d)
  <2>1. Follows(NextOffset(b, k, d), e.calls[k], NextOffset(e, k, d), d)
    BY DEF Told
  <2>2. CASE k \in K
    BY <1>5, <2>1, <2>2 DEF Takes
  <2>3. CASE k \notin K
    BY <1>6, <2>1, <2>3
  <2> QED BY <2>2, <2>3
<1>8. \A k \in Key : Listed(r.calls[k])
  BY <1>4, <1>5, <1>6
<1>9. /\ IsFiniteSet(CloseCells(e.calls)) /\ RetiredCount(b.stats) \in Int
      /\ Cardinality(CloseCells(e.calls)) + RetiredCount(b.stats) = RetiredCount(e.stats)
  BY DEF Told
<1>10. /\ IsFiniteSet(CloseCells(r.calls))
       /\ Cardinality(CloseCells(r.calls)) = Cardinality(CloseCells(e.calls)) + Cardinality(K)
  <2>1. \A k \in Key : Cardinality(Closes(e.calls[k])) \in Nat
    BY <1>4, ClosesFinite
  <2> QED BY <1>3, <1>5, <1>6, <1>9, <2>1, CloseCellsGrow
<1>11. ASSUME NEW k \in Key, k \in DOMAIN b.flows, k \notin DOMAIN r.flows
       PROVE  Closes(r.calls[k]) # {}
  <2>1. CASE k \in K
    BY <1>5, <2>1
  <2>2. CASE k \notin K
    BY <1>1, <1>6, <1>11, <2>2 DEF Told
  <2> QED BY <2>1, <2>2
<1>12. Cardinality(CloseCells(r.calls)) + RetiredCount(b.stats) = RetiredCount(r.stats)
  <2>1. Cardinality(CloseCells(e.calls)) \in Nat /\ Cardinality(K) \in Nat
    BY <1>3, <1>9, FS_CardinalityType
  <2> QED BY <1>1, <1>9, <1>10, <2>1
<1> QED BY <1>7, <1>8, <1>9, <1>10, <1>11, <1>12 DEF Told

\* What neither calls the handler nor moves a direction tells it nothing.
LEMMA SilentHears ==
    ASSUME NEW e, NEW r, r.calls = e.calls, RetiredCount(r.stats) = RetiredCount(e.stats),
           DOMAIN e.flows \subseteq DOMAIN r.flows,
           \A k \in Key, d \in Direction : NextOffset(r, k, d) = NextOffset(e, k, d)
    PROVE  Hears(e, r)
BY DEF Hears, Told

\* Of all flows one direction of flow k has changed: from x, which it held in e but
\* for what was inserted, it is flushed, and the handler has the calls.
Flushes(e, r, k, side, x) ==
    /\ At(x) = At(e.flows[k].dir[side])
    /\ DOMAIN r.flows = DOMAIN e.flows
    /\ \A l \in DOMAIN e.flows \ {k} : r.flows[l] = e.flows[l]
    /\ r.flows[k].dir[side] = FlushContiguous(x)
    /\ \A d \in Direction \ {side} : r.flows[k].dir[d] = e.flows[k].dir[d]
    /\ r.calls[k] = WithFlush(e.calls[k], x, side)
    /\ \A l \in Key \ {k} : r.calls[l] = e.calls[l]
    /\ RetiredCount(r.stats) = RetiredCount(e.stats)

\* The payload of a packet: one direction of one flow is flushed.
LEMMA PayloadHears ==
    ASSUME NEW e, NEW k \in DOMAIN e.flows, k \in Key, NEW side \in Direction,
           NEW x, DirectionInv(x), NEW r, Flushes(e, r, k, side, x)
    PROVE  Hears(e, r)
<1>0. /\ At(x) = At(e.flows[k].dir[side])
      /\ DOMAIN r.flows = DOMAIN e.flows
      /\ \A l \in DOMAIN e.flows \ {k} : r.flows[l] = e.flows[l]
      /\ r.flows[k].dir[side] = FlushContiguous(x)
      /\ \A d \in Direction \ {side} : r.flows[k].dir[d] = e.flows[k].dir[d]
      /\ r.calls[k] = WithFlush(e.calls[k], x, side)
      /\ \A l \in Key \ {k} : r.calls[l] = e.calls[l]
      /\ RetiredCount(r.stats) = RetiredCount(e.stats)
  BY DEF Flushes
<1> SUFFICES ASSUME NEW b, Told(b, e) PROVE Told(b, r)
  BY DEF Hears
<1>1. /\ Listed(r.calls[k]) /\ Closes(r.calls[k]) = Closes(e.calls[k])
      /\ Takes(e.calls[k], r.calls[k], side, At(x), At(FlushContiguous(x)))
      /\ \A d, w : d # side => Takes(e.calls[k], r.calls[k], d, w, w)
  <2>1. Listed(e.calls[k])
    BY DEF Told
  <2> QED BY <1>0, <2>1, FlushTakes, SMTT(30)
<1>2. \A d \in Direction : Takes(e.calls[k], r.calls[k], d, NextOffset(e, k, d), NextOffset(r, k, d))
  <2>1. \A d \in Direction : /\ NextOffset(e, k, d) = At(e.flows[k].dir[d])
                             /\ NextOffset(r, k, d) = At(r.flows[k].dir[d])
    BY <1>0 DEF NextOffset, At
  <2>2. NextOffset(e, k, side) = At(x) /\ NextOffset(r, k, side) = At(FlushContiguous(x))
    BY <1>0, <2>1
  <2>3. \A d \in Direction \ {side} : NextOffset(r, k, d) = NextOffset(e, k, d)
    BY <1>0, <2>1
  <2> QED BY <1>1, <2>2, <2>3
<1>3. \A l \in Key \ {k}, d \in Direction : NextOffset(r, l, d) = NextOffset(e, l, d)
  BY <1>0 DEF NextOffset
<1>4. \A l \in Key : Listed(r.calls[l]) /\ Closes(r.calls[l]) = Closes(e.calls[l])
  BY <1>0, <1>1, ZenonT(30) DEF Told
<1>5. CloseCells(r.calls) = CloseCells(e.calls)
  BY <1>4, CloseCellsSame
<1>6. \A l \in Key, d \in Direction : Follows(NextOffset(b, l, d), r.calls[l], NextOffset(r, l, d), d)
  <2> SUFFICES ASSUME NEW l \in Key, NEW d \in Direction
               PROVE  Follows(NextOffset(b, l, d), r.calls[l], NextOffset(r, l, d), d)
    OBVIOUS
  <2>1. Follows(NextOffset(b, l, d), e.calls[l], NextOffset(e, l, d), d)
    BY DEF Told
  <2>2. CASE l = k
    BY <1>2, <2>1, <2>2 DEF Takes
  <2>3. CASE l # k
    BY <1>0, <1>3, <2>1, <2>3
  <2> QED BY <2>2, <2>3
<1> QED BY <1>0, <1>4, <1>5, <1>6 DEF Told

\* Before the first call the handler has been told nothing.
LEMMA NothingTold ==
    ASSUME NEW b, NEW r, r.calls = NoCalls, r.flows = b.flows,
           RetiredCount(r.stats) = RetiredCount(b.stats), RetiredCount(b.stats) \in Int
    PROVE  Told(b, r)
<1>1. \A k \in Key : r.calls[k] = <<>>
  BY DEF NoCalls
<1>2. Listed(<<>>) /\ Closes(<<>>) = {}
  BY DEF Listed, Closes
<1>3. CloseCells(r.calls) = {}
  <2>1. \A k \in Key : 1 .. Cardinality(Closes(r.calls[k])) = {}
    <3>1. Cardinality({}) = 0 /\ 1 .. 0 = {}
      BY FS_EmptySet
    <3>2. \A k \in Key : Closes(r.calls[k]) = {}
      BY <1>1, <1>2
    <3> QED BY <3>1, <3>2
  <2> QED BY <2>1 DEF CloseCells
<1>4. IsFiniteSet(CloseCells(r.calls)) /\ Cardinality(CloseCells(r.calls)) = 0
  BY <1>3, FS_EmptySet
<1>5. \A k \in Key, d \in Direction : Follows(NextOffset(b, k, d), r.calls[k], NextOffset(r, k, d), d)
  BY <1>1, FollowsNone DEF NextOffset
<1> QED BY <1>1, <1>2, <1>4, <1>5 DEF Told

\* What is told in two parts.
LEMMA HearsTrans ==
    ASSUME NEW a, NEW b, NEW c, Hears(a, b), Hears(b, c)
    PROVE  Hears(a, c)
BY DEF Hears

-----------------------------------------------------------------------------
(* Retirement inside a packet                                              *)

\* From e to r flows were only removed.
FlowsKept(e, r) ==
    /\ DOMAIN r.flows \subseteq DOMAIN e.flows
    /\ \A k \in DOMAIN r.flows : r.flows[k] = e.flows[k]

NoneClosed(e) == \A k \in DOMAIN e.flows : e.flows[k].state # "Closed"

Limits(e) == e.total_memory <= Memcap /\ Cardinality(DOMAIN e.flows) <= MaxFlows

\* What holds of a running engine between packets.
Settled(e) == Core(e) /\ NoneClosed(e) /\ Limits(e)

\* A running engine counts its bytes and its flows in naturals.
LEMMA CoreNat ==
    ASSUME NEW e, Core(e)
    PROVE  /\ e.total_memory \in Nat /\ Cardinality(DOMAIN e.flows) \in Nat
           /\ e.packet_index \in Nat /\ e.last_expiry_sweep_secs \in Nat
           /\ \A k \in DOMAIN e.flows :
                 e.flows[k].last_activity_index \in Nat /\ e.flows[k].last_seen \in Nat
<1>1. Sized(e.flows, DOMAIN e.flows)
  BY TableSized DEF Core
<1>2. e.total_memory \in Nat
  BY <1>1, MemoryNat DEF Core, Balanced
<1>3. Cardinality(DOMAIN e.flows) \in Nat
  BY FS_CardinalityType DEF Core, TableOK
<1>4. e.packet_index \in Nat /\ e.last_expiry_sweep_secs \in Nat
  <2>1. Time \subseteq Nat
    BY ReassemblerConstants
  <2>2. e.packet_index \in Nat /\ e.last_expiry_sweep_secs \in Time \cup {0}
    BY DEF Core, Shape
  <2>3. e.last_expiry_sweep_secs \in Time \/ e.last_expiry_sweep_secs = 0
    BY <2>2
  <2>4. e.last_expiry_sweep_secs \in Nat
    <3>1. CASE e.last_expiry_sweep_secs \in Time
      BY <2>1, <3>1, Zenon
    <3>2. CASE e.last_expiry_sweep_secs = 0
      BY <3>2
    <3> QED BY <2>3, <3>1, <3>2
  <2> QED BY <2>2, <2>4
<1>5. \A k \in DOMAIN e.flows :
         e.flows[k].last_activity_index \in Nat /\ e.flows[k].last_seen \in Nat
  BY ReassemblerConstants, Zenon DEF Core, TableOK, FlowOK
<1> QED BY <1>2, <1>3, <1>4, <1>5

\* The flows retired so far are a number.
LEMMA CoreRetired ==
    ASSUME NEW e, Core(e)
    PROVE  RetiredCount(e.stats) \in Int
BY DEF Core, Shape, StatFields, RetiredCount

\* Retiring flows removes flows and changes no other.
LEMMA RetireKeeps ==
    ASSUME NEW e, NEW K, NEW r, Retires(e, r, K)
    PROVE  FlowsKept(e, r)
BY DEF Retires, FlowsKept

\* A sweep leaves a settled engine settled.
LEMMA RetireSettled ==
    ASSUME NEW e, Settled(e), NEW K \in SUBSET DOMAIN e.flows, NEW r, Retires(e, r, K)
    PROVE  Settled(r) /\ FlowsKept(e, r) /\ Later(e, r) /\ Hears(e, r)
<1>1. /\ Core(r) /\ Later(e, r)
      /\ Cardinality(DOMAIN r.flows) <= Cardinality(DOMAIN e.flows)
      /\ r.total_memory <= e.total_memory
  BY RetireOK DEF Settled
<1>2. FlowsKept(e, r)
  BY RetireKeeps
<1>3. NoneClosed(r)
  BY <1>2 DEF Settled, NoneClosed, FlowsKept
<1>4. Limits(r)
  <2>1. /\ e.total_memory \in Nat /\ Cardinality(DOMAIN e.flows) \in Nat
        /\ r.total_memory \in Nat /\ Cardinality(DOMAIN r.flows) \in Nat
    BY <1>1, CoreNat DEF Settled
  <2>2. e.total_memory <= Memcap /\ Cardinality(DOMAIN e.flows) <= MaxFlows
    BY DEF Settled, Limits
  <2> QED BY <1>1, <2>1, <2>2, ReassemblerConstants DEF Limits
<1>5. Hears(e, r)
  BY RetireHears DEF Settled, Core
<1> QED BY <1>1, <1>2, <1>3, <1>4, <1>5 DEF Settled

\* One pass of evict_flows is enough: it stops below both limits, for with no
\* flow left no memory is used.
LEMMA EvictOK ==
    ASSUME NEW e, Core(e), NEW target \in Nat, NEW r \in EvictFlows(e, target)
    PROVE  /\ Core(r) /\ FlowsKept(e, r) /\ Later(e, r) /\ Hears(e, r)
           /\ r.total_memory <= Memcap
           /\ Cardinality(DOMAIN r.flows) <= target
<1>1. PICK K \in SUBSET DOMAIN e.flows :
        Retires(e, r, K) /\ (K = DOMAIN e.flows \/ Relieved(e, K, target))
  BY EvictRetires
<1>2. Core(r) /\ Later(e, r) /\ FlowsKept(e, r) /\ Hears(e, r)
  BY <1>1, RetireOK, RetireKeeps, RetireHears DEF Core
<1>3. /\ DOMAIN r.flows = DOMAIN e.flows \ K
      /\ r.total_memory = e.total_memory - MemoryOf(e.flows, K)
  BY <1>1 DEF Retires
<1>4. CASE K = DOMAIN e.flows
  <2>1. DOMAIN r.flows = {} /\ Cardinality(DOMAIN r.flows) = 0
    BY <1>3, <1>4, FS_EmptySet, Zenon
  <2>2. r.total_memory = 0
    BY <1>2, <2>1, MemoryEmpty DEF Core, Balanced
  <2> QED BY <1>2, <2>1, <2>2, ReassemblerConstants
<1>5. CASE Relieved(e, K, target)
  BY <1>2, <1>3, <1>5 DEF Relieved
<1> QED BY <1>1, <1>4, <1>5

\* Counting the packet, clearing the calls or moving the sweep clock leaves the
\* flows and the books alone.
LEMMA HeadOK ==
    ASSUME NEW e, Settled(e), NEW r, DOMAIN r = EngineFields,
           r.flows = e.flows, r.total_memory = e.total_memory, r.findings = e.findings,
           r.stats = e.stats, r.segment_limit_hit = e.segment_limit_hit,
           r.finalized = e.finalized, DOMAIN r.calls = Key,
           r.packet_index \in Nat, r.packet_index >= e.packet_index,
           r.last_expiry_sweep_secs \in Time \cup {0}
    PROVE  Settled(r)
<1>1. Shape(r)
  BY DEF Settled, Core, Shape
<1>2. TableOK(r)
  <2>1. e.packet_index \in Nat /\ \A k \in DOMAIN e.flows : e.flows[k].last_activity_index \in 1 .. e.packet_index
    BY CoreNat DEF Settled, Core, TableOK
  <2>2. \A k \in DOMAIN e.flows : e.flows[k].last_activity_index \in 1 .. r.packet_index
    BY <2>1
  <2> QED BY <2>2 DEF Settled, Core, TableOK
<1>3. Balanced(r)
  BY DEF Settled, Core, Balanced
<1>4. NoneClosed(r) /\ Limits(r)
  BY DEF Settled, NoneClosed, Limits
<1> QED BY <1>1, <1>2, <1>3, <1>4 DEF Settled, Core

-----------------------------------------------------------------------------
(* The sweeps                                                              *)

NoneTimedOut(e, ts) == \A k \in DOMAIN e.flows : ~TimedOut(e.flows[k], ts)

NoneIdle(e) ==
    \A k \in DOMAIN e.flows :
        e.packet_index - e.flows[k].last_activity_index <= IdlePacketThreshold

\* expire_idle_by_timeout, gated by the sweep clock.
LEMMA TimeSweepOK ==
    ASSUME NEW e, Settled(e), NEW ts \in Time, NEW r, r = ExpireIdleByTimeout(e, ts)
    PROVE  /\ Settled(r) /\ FlowsKept(e, r) /\ Hears(e, r)
           /\ r.packet_index = e.packet_index /\ r.finalized = e.finalized
           /\ IF ts > e.last_expiry_sweep_secs
              THEN r.last_expiry_sweep_secs = ts /\ NoneTimedOut(r, ts)
              ELSE r.last_expiry_sweep_secs = e.last_expiry_sweep_secs
<1>1. CASE ts > e.last_expiry_sweep_secs
  <2> DEFINE m == [e EXCEPT !.last_expiry_sweep_secs = ts]
             K == {k \in DOMAIN e.flows : TimedOut(e.flows[k], ts)}
  <2>1. r = Expire(m, K)
    BY <1>1 DEF ExpireIdleByTimeout
  <2>2. DOMAIN e = EngineFields /\ DOMAIN e.calls = Key /\ e.packet_index \in Nat
    BY DEF Settled, Core, Shape
  <2>3. /\ DOMAIN m = EngineFields /\ m.last_expiry_sweep_secs = ts
        /\ \A x \in EngineFields \ {"last_expiry_sweep_secs"} : m[x] = e[x]
    BY <2>2 DEF EngineFields
  <2> HIDE DEF m
  <2>4. /\ m.flows = e.flows /\ m.total_memory = e.total_memory /\ m.findings = e.findings
        /\ m.stats = e.stats /\ m.segment_limit_hit = e.segment_limit_hit
        /\ m.finalized = e.finalized /\ m.calls = e.calls /\ m.packet_index = e.packet_index
    BY <2>3 DEF EngineFields
  <2>5. Settled(m)
    <3>1. m.packet_index \in Nat /\ m.packet_index >= e.packet_index
      BY <2>2, <2>4
    <3> QED BY <2>2, <2>3, <2>4, <3>1, HeadOK
  <2>6. K \in SUBSET DOMAIN m.flows
    BY <2>4
  <2>7. Retires(m, r, K)
    BY <2>1, <2>5, <2>6, ExpireRetires DEF Settled, Core
  <2>8. Settled(r) /\ FlowsKept(m, r) /\ Later(m, r) /\ Hears(m, r)
    BY <2>5, <2>6, <2>7, RetireSettled
  <2>9. NoneTimedOut(r, ts)
    BY <2>4, <2>7 DEF Retires, NoneTimedOut
  <2>10. Hears(e, r)
    <3>1. \A k \in Key, d \in Direction : NextOffset(m, k, d) = NextOffset(e, k, d)
      BY <2>4 DEF NextOffset
    <3>2. Hears(e, m)
      BY <2>4, <3>1, SilentHears
    <3> QED BY <2>8, <3>2, HearsTrans
  <2> QED BY <1>1, <2>3, <2>4, <2>8, <2>9, <2>10 DEF FlowsKept, Later
<1>2. CASE ~(ts > e.last_expiry_sweep_secs)
  BY <1>2 DEF ExpireIdleByTimeout, FlowsKept, Hears
<1> QED BY <1>1, <1>2

\* expire_idle_by_packet_index, every expiry_sweep_interval packets.
LEMMA IndexSweepOK ==
    ASSUME NEW e, Settled(e), NEW r, r = ExpireIdleByPacketIndex(e)
    PROVE  /\ Settled(r) /\ FlowsKept(e, r) /\ Hears(e, r)
           /\ r.packet_index = e.packet_index /\ r.finalized = e.finalized
           /\ r.last_expiry_sweep_secs = e.last_expiry_sweep_secs
           /\ ExpirySweepInterval # 0 /\ e.packet_index % ExpirySweepInterval = 0 => NoneIdle(r)
<1>1. CASE ExpirySweepInterval # 0 /\ e.packet_index % ExpirySweepInterval = 0
  <2> DEFINE K == {k \in DOMAIN e.flows :
                      e.packet_index - e.flows[k].last_activity_index > IdlePacketThreshold}
  <2>1. r = Expire(e, K)
    BY <1>1 DEF ExpireIdleByPacketIndex
  <2>2. K \in SUBSET DOMAIN e.flows
    OBVIOUS
  <2>3. Retires(e, r, K)
    BY <2>1, <2>2, ExpireRetires DEF Settled, Core
  <2>4. Settled(r) /\ FlowsKept(e, r) /\ Later(e, r) /\ Hears(e, r)
    BY <2>2, <2>3, RetireSettled
  <2>5. NoneIdle(r)
    <3>1. /\ e.packet_index \in Nat
          /\ \A k \in DOMAIN e.flows : e.flows[k].last_activity_index \in Nat
      BY CoreNat DEF Settled
    <3>2. \A k \in DOMAIN r.flows : k \in DOMAIN e.flows /\ k \notin K /\ r.flows[k] = e.flows[k]
      BY <2>3 DEF Retires
    <3>3. r.packet_index = e.packet_index
      BY <2>3 DEF Retires
    <3> QED BY <3>1, <3>2, <3>3, ReassemblerConstants DEF NoneIdle
  <2> QED BY <2>4, <2>5 DEF Later
<1>2. CASE ~(ExpirySweepInterval # 0 /\ e.packet_index % ExpirySweepInterval = 0)
  BY <1>2 DEF ExpireIdleByPacketIndex, FlowsKept, Hears
<1> QED BY <1>1, <1>2

\* The head of process_packet.
LEMMA SweptOK ==
    ASSUME Settled(eng), NEW ts \in Time, NEW r, r = Swept(ts)
    PROVE  /\ Settled(r) /\ FlowsKept(eng, r) /\ Told(eng, r)
           /\ r.packet_index = eng.packet_index + 1 /\ r.finalized = eng.finalized
           /\ IF ts > eng.last_expiry_sweep_secs
              THEN r.last_expiry_sweep_secs = ts /\ NoneTimedOut(r, ts)
              ELSE r.last_expiry_sweep_secs = eng.last_expiry_sweep_secs
           /\ ExpirySweepInterval # 0 /\ r.packet_index % ExpirySweepInterval = 0 => NoneIdle(r)
<1> DEFINE m == [eng EXCEPT !.packet_index = @ + 1, !.calls = NoCalls]
           s == ExpireIdleByTimeout(m, ts)
<1>1. /\ DOMAIN eng = EngineFields /\ eng.packet_index \in Nat
      /\ eng.last_expiry_sweep_secs \in Time \cup {0}
  BY DEF Settled, Core, Shape
<1>2. /\ DOMAIN m = EngineFields /\ m.packet_index = eng.packet_index + 1 /\ m.calls = NoCalls
      /\ \A x \in EngineFields \ {"packet_index", "calls"} : m[x] = eng[x]
  BY <1>1, Zenon DEF EngineFields
<1>3. r = ExpireIdleByPacketIndex(s)
  BY DEF Swept
<1> HIDE DEF m
<1>4. /\ m.flows = eng.flows /\ m.total_memory = eng.total_memory /\ m.findings = eng.findings
      /\ m.stats = eng.stats /\ m.segment_limit_hit = eng.segment_limit_hit
      /\ m.finalized = eng.finalized
      /\ m.last_expiry_sweep_secs = eng.last_expiry_sweep_secs
  BY <1>2 DEF EngineFields
<1>5. Settled(m)
  <2>1. m.packet_index \in Nat /\ m.packet_index >= eng.packet_index
    BY <1>1, <1>2
  <2>2. DOMAIN m.calls = Key
    BY <1>2 DEF NoCalls
  <2> QED BY <1>1, <1>2, <1>4, <2>1, <2>2, HeadOK
<1>6. /\ Settled(s) /\ FlowsKept(m, s) /\ Hears(m, s)
      /\ s.packet_index = m.packet_index /\ s.finalized = m.finalized
      /\ IF ts > m.last_expiry_sweep_secs
         THEN s.last_expiry_sweep_secs = ts /\ NoneTimedOut(s, ts)
         ELSE s.last_expiry_sweep_secs = m.last_expiry_sweep_secs
  BY <1>5, TimeSweepOK
<1> HIDE DEF s
<1>7. /\ Settled(r) /\ FlowsKept(s, r) /\ Hears(s, r)
      /\ r.packet_index = s.packet_index /\ r.finalized = s.finalized
      /\ r.last_expiry_sweep_secs = s.last_expiry_sweep_secs
      /\ ExpirySweepInterval # 0 /\ s.packet_index % ExpirySweepInterval = 0 => NoneIdle(r)
  BY <1>3, <1>6, IndexSweepOK
<1>8. FlowsKept(eng, r)
  BY <1>4, <1>6, <1>7 DEF FlowsKept
<1>9. NoneTimedOut(s, ts) => NoneTimedOut(r, ts)
  BY <1>7 DEF FlowsKept, NoneTimedOut
<1>10. Told(eng, r)
  <2>1. RetiredCount(eng.stats) \in Int
    BY CoreRetired DEF Settled
  <2>2. Told(eng, m)
    BY <1>2, <1>4, <2>1, NothingTold
  <2> QED BY <1>6, <1>7, <2>2 DEF Hears
<1> QED BY <1>2, <1>4, <1>6, <1>7, <1>8, <1>9, <1>10
=============================================================================
