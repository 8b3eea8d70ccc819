----------------------------- MODULE Dnp3Proofs -----------------------------
(***************************************************************************)
(* The tables of the DNP3 analyzer keep to their caps, its latches follow  *)
(* their counts, every structural error is counted in its window, no       *)
(* request stays pending past its timeout and a carry awaits more bytes,   *)
(* for every capture, every cut of it into chunks and every value of the   *)
(* caps, the thresholds and the window.                                    *)
(*                                                                         *)
(* The frame walk is a loop that runs until it is done.  Its rounds are    *)
(* reasoned about by a least counterexample: the first round after which   *)
(* the state is not sound would follow a sound one.  Every round that does *)
(* not stop consumes a byte, so that the walk ends and leaves a carry that *)
(* awaits more.                                                            *)
(***************************************************************************)
EXTENDS Dnp3, FiniteSetTheorems, WellFoundedInduction, TLAPS

\* A set of naturals that is not empty has a least element.
LEMMA NatMinimum ==
    ASSUME NEW T \in SUBSET Nat, T # {}
    PROVE  \E x \in T : \A y \in T : x <= y
<1> DEFINE R == OpToRel(<, Nat)
<1>1. IsWellFoundedOn(R, Nat)
  BY NatLessThanWellFounded, Zenon
<1>2. PICK x \in T : \A y \in T : ~(<<y, x>> \in R)
  <2> HIDE DEF R
  <2> QED BY <1>1, WFMin, Zenon
<1>3. \A y \in T : ~(y < x)
  BY <1>2, Zenon DEF OpToRel
<1> QED BY <1>3

\* The rounds of the frame walk that starts with s.
Round(f, n, s, ts) ==
    IF n = 0 \/ (IF n = 0 THEN s ELSE f[n - 1]).done
    THEN IF n = 0 THEN s ELSE f[n - 1]
    ELSE WalkFrame(IF n = 0 THEN s ELSE f[n - 1], ts)

Walk(s, ts, fuel) == Loop(LAMBDA t : WalkFrame(t, ts), LAMBDA t : t.done, s, fuel)

\* The walk has rounds: the recursion of the loop defines a function.
LEMMA RoundsExist ==
    ASSUME NEW s, NEW ts, NEW fuel \in Nat
    PROVE  \E f : f = [n \in 0 .. fuel |-> Round(f, n, s, ts)]
<1> DEFINE Has(m) == \E f : f = [n \in 0 .. m |-> Round(f, n, s, ts)]
           T == {m \in Nat : ~Has(m)}
<1>1. SUFFICES ASSUME T # {} PROVE FALSE
  OBVIOUS
<1>2. PICK m \in T : \A y \in T : m <= y
  <2> HIDE DEF T
  <2>1. T \in SUBSET Nat
    BY DEF T
  <2> QED BY <1>1, <2>1, NatMinimum
<1>3. CASE m = 0
  <2> DEFINE f == [n \in 0 .. 0 |-> s]
  <2>1. f = [n \in 0 .. 0 |-> Round(f, n, s, ts)]
    BY DEF Round
  <2>2. Has(0)
    <3> HIDE DEF f
    <3> QED BY <2>1
  <2> QED BY <1>2, <1>3, <2>2
<1>4. CASE m # 0
  <2>1. m - 1 \in Nat /\ ~(m - 1 \in T)
    BY <1>2, <1>4
  <2>2. PICK f : f = [n \in 0 .. (m - 1) |-> Round(f, n, s, ts)]
    BY <2>1
  <2> DEFINE g == [n \in 0 .. m |-> IF n = m THEN Round(f, n, s, ts) ELSE f[n]]
  <2>3. \A n \in 0 .. m : n # 0 => g[n - 1] = f[n - 1]
    BY <1>2
  <2>4. \A n \in 0 .. m : Round(g, n, s, ts) = Round(f, n, s, ts)
    <3> HIDE DEF g
    <3> QED BY <2>3 DEF Round
  <2>5. \A n \in 0 .. (m - 1) : f[n] = Round(f, n, s, ts)
    <3> DEFINE R(n) == Round(f, n, s, ts)
    <3>1. f = [n \in 0 .. (m - 1) |-> R(n)]
      BY <2>2
    <3> HIDE DEF R
    <3>2. \A n \in 0 .. (m - 1) : f[n] = R(n)
      BY <3>1
    <3> QED BY <3>2 DEF R
  <2>6. \A n \in 0 .. m : g[n] = Round(g, n, s, ts)
    BY <1>2, <2>4, <2>5
  <2>7. g = [n \in 0 .. m |-> Round(g, n, s, ts)]
    <3> DEFINE R(n) == Round(g, n, s, ts)
    <3>1. g = [n \in 0 .. m |-> g[n]]
      OBVIOUS
    <3>2. \A n \in 0 .. m : g[n] = R(n)
      BY <2>6
    <3> HIDE DEF g, R
    <3>3. g = [n \in 0 .. m |-> R(n)]
      BY <3>1, <3>2
    <3> QED BY <3>3 DEF R
  <2>8. Has(m)
    <3> HIDE DEF g
    <3> QED BY <2>7
  <2> QED BY <1>2, <2>8
<1> QED BY <1>3, <1>4

Done(t) == t.done = TRUE

Going(t) == t.done = FALSE

\* f[n] is the state after n rounds
IsWalk(f, s, ts, fuel) ==
    /\ f[0] = s
    /\ \A n \in 1 .. fuel : /\ Done(f[n - 1]) => f[n] = f[n - 1]
                            /\ Going(f[n - 1]) => f[n] = WalkFrame(f[n - 1], ts)
    /\ Walk(s, ts, fuel) = f[fuel]

\* The states between the rounds of the walk.
LEMMA WalkRounds ==
    ASSUME NEW s, NEW ts, NEW fuel \in Nat
    PROVE  \E f : IsWalk(f, s, ts, fuel)
<1> DEFINE f == CHOOSE f : f = [n \in 0 .. fuel |-> Round(f, n, s, ts)]
<1>1. f = [n \in 0 .. fuel |-> Round(f, n, s, ts)]
  BY RoundsExist
<1>2. Walk(s, ts, fuel) = f[fuel]
  BY DEF Walk, Loop, Round
<1> DEFINE R(n) == Round(f, n, s, ts)
<1>3. \A n \in 0 .. fuel : f[n] = R(n)
  <2>1. f = [n \in 0 .. fuel |-> R(n)]
    BY <1>1
  <2> HIDE DEF f, R
  <2> QED BY <2>1
<1> HIDE DEF f
<1>4. f[0] = s
  BY <1>3 DEF Round
<1>5. \A n \in 1 .. fuel : f[n] = IF f[n - 1].done THEN f[n - 1] ELSE WalkFrame(f[n - 1], ts)
  BY <1>3 DEF Round
<1>6. IsWalk(f, s, ts, fuel)
  BY <1>2, <1>4, <1>5, Zenon DEF IsWalk, Done, Going
<1> QED BY <1>6

-----------------------------------------------------------------------------
(* The bytes of a carry                                                    *)

Dnp3Frames == UNION {c.frames[d] : c \in Dnp3Capture, d \in Direction}

Dnp3Cells == Dnp3Frames \X Nat

\* a carry that the walk leaves, as Dnp3CarryAwaitsMore has it
AwaitsMore(c) ==
    \/ Len(c) <= 1
    \/ SyncAt(c, 1) /\ Len(c) < LinkHeaderLen
    \/ SyncAt(c, 1) /\ LengthOK(c) /\ Len(c) < c[3][1].len

\* Dropping the first n bytes.
LEMMA RestFacts ==
    ASSUME NEW S, NEW c \in Seq(S), NEW n \in 0 .. Len(c)
    PROVE  /\ Rest(c, n) \in Seq(S) /\ Len(Rest(c, n)) = Len(c) - n
           /\ \A i \in 1 .. (Len(c) - n) : Rest(c, n)[i] = c[i + n]
<1>1. Len(c) \in Nat /\ n \in Nat
  OBVIOUS
<1>2. /\ SubSeq(c, n + 1, Len(c)) \in Seq(S)
      /\ Len(SubSeq(c, n + 1, Len(c))) = Len(c) - n
  BY <1>1
<1>3. \A i \in 1 .. (Len(c) - n) : SubSeq(c, n + 1, Len(c))[i] = c[i + n]
  BY <1>1
<1> QED BY <1>2, <1>3 DEF Rest

\* What resynchronising leaves is empty or begins with a sync word, and is shorter
\* the later the search begins.
LEMMA ResyncFacts ==
    ASSUME NEW S, NEW c \in Seq(S), NEW from \in Nat \ {0}, NEW r, r = Resync(c, from)
    PROVE  /\ r \in Seq(S)
           /\ r = <<>> \/ (SyncAt(r, 1) /\ Len(r) <= Len(c) - from + 1)
<1> DEFINE syncs == {i \in from .. Len(c) : SyncAt(c, i)}
<1>1. CASE syncs = {}
  BY <1>1 DEF Resync
<1>2. CASE syncs # {}
  <2>1. \E x \in syncs : \A y \in syncs : x <= y
    <3>1. syncs \in SUBSET Nat
      OBVIOUS
    <3> HIDE DEF syncs
    <3> QED BY <1>2, <3>1, NatMinimum
  <2> DEFINE i == CHOOSE i \in syncs : \A j \in syncs : i <= j
  <2>2. i \in syncs
    <3> HIDE DEF syncs
    <3> QED BY <2>1
  <2>3. r = Rest(c, i - 1)
    BY <1>2 DEF Resync
  <2> HIDE DEF i
  <2>4. i \in Nat /\ i >= from /\ i < Len(c) /\ SyncAt(c, i)
    BY <2>2 DEF SyncAt
  <2>5. /\ r \in Seq(S) /\ Len(r) = Len(c) - (i - 1)
        /\ \A j \in 1 .. (Len(c) - (i - 1)) : r[j] = c[j + (i - 1)]
    <3>1. PICK n \in 0 .. Len(c) : n = i - 1
      BY <2>4
    <3>2. /\ Rest(c, n) \in Seq(S) /\ Len(Rest(c, n)) = Len(c) - n
          /\ \A j \in 1 .. (Len(c) - n) : Rest(c, n)[j] = c[j + n]
      BY RestFacts
    <3>3. r = Rest(c, n)
      BY <2>3, <3>1
    <3> QED BY <3>1, <3>2, <3>3
  <2>6. Len(c) \in Nat /\ 1 < Len(r) /\ Len(r) <= Len(c) - from + 1
    BY <2>4, <2>5
  <2>7. r[1] = c[i] /\ r[2] = c[i + 1]
    BY <2>4, <2>5, <2>6
  <2>8. SyncAt(r, 1)
    BY <2>4, <2>6, <2>7 DEF SyncAt
  <2> QED BY <2>5, <2>6, <2>8
<1> QED BY <1>1, <1>2

-----------------------------------------------------------------------------
(* The state of a call of on_data                                          *)

Dnp3Fields ==
    {"flows", "fn_code_counts", "all_findings", "dropped_findings", "master_addrs_dropped",
     "pending_requests_evicted", "closed_flows_count", "total_frames_closed", "parse_errors_closed",
     "closed_flow_direct_operates"}

Dnp3FlowFields ==
    {"carry", "is_non_dnp3", "frame_count", "parse_errors", "direct_operate_count", "window_start_ts",
     "direct_operate_emitted", "master_addrs_seen", "restart_event_count", "block_event_count",
     "pending_requests", "block_finding_emitted_this_window", "loss_of_control_emitted",
     "correlation_window_start_ts", "correlation_window_seeded", "malformed_in_window",
     "malformed_anomaly_emitted", "enable_unsolicited_seen", "response_seen",
     "unsolicited_anomaly_emitted", "unexpected_source_emitted"}

WalkFields == {"an", "fl", "tie", "buf", "processed", "done"}

IsSeq(s) == \E S : s \in Seq(S)

\* the findings are capped
AnSound(a) == DOMAIN a = Dnp3Fields /\ IsSeq(a.all_findings) /\ Len(a.all_findings) <= MAX_FINDINGS

\* the counters of a flow; a latch that is set has its count
CountsSound(fl) ==
    /\ fl.frame_count \in Nat /\ fl.parse_errors \in Nat /\ fl.malformed_in_window \in Nat
    /\ fl.restart_event_count \in Nat /\ fl.block_event_count \in Nat
    /\ fl.block_finding_emitted_this_window \in BOOLEAN
    /\ fl.block_finding_emitted_this_window => fl.block_event_count >= BLOCK_CMD_THRESHOLD
    /\ fl.loss_of_control_emitted \in BOOLEAN
    /\ fl.loss_of_control_emitted => fl.restart_event_count + fl.block_event_count >= T0827_THRESHOLD
    /\ fl.malformed_anomaly_emitted => fl.malformed_in_window >= MALFORMED_ANOMALY_THRESHOLD
    /\ fl.malformed_in_window <= fl.parse_errors

\* a count that reached its threshold has set its latch
BlockLatch(fl) == fl.block_event_count >= BLOCK_CMD_THRESHOLD => fl.block_finding_emitted_this_window

LossLatch(fl) == fl.restart_event_count + fl.block_event_count >= T0827_THRESHOLD => fl.loss_of_control_emitted

\* the tables of a flow
Capped(S, cap) == IsFiniteSet(S) /\ Cardinality(S) <= cap

TablesSound(fl) ==
    /\ Capped(DOMAIN fl.pending_requests, MAX_PENDING_REQUESTS)
    /\ \A r \in DOMAIN fl.pending_requests : fl.pending_requests[r] \in Nat
    /\ fl.frame_count = 0 => DOMAIN fl.pending_requests = {}
    /\ Capped(fl.master_addrs_seen, MAX_MASTER_ADDRS)

FlowSound(fl) == DOMAIN fl = Dnp3FlowFields /\ CountsSound(fl) /\ TablesSound(fl)

\* no request is overdue at ts
Timely(fl, ts) ==
    \A r \in DOMAIN fl.pending_requests : Elapsed(ts, fl.pending_requests[r]) <= BLOCK_CMD_TIMEOUT_SECS

Sound(s, ts) == DOMAIN s = WalkFields /\ AnSound(s.an) /\ FlowSound(s.fl) /\ Timely(s.fl, ts)

Latched(fl) == BlockLatch(fl) /\ LossLatch(fl)

\* what a detector leaves alone
Kept(s, t) ==
    /\ t.buf = s.buf /\ t.processed = s.processed /\ t.done = s.done /\ t.tie = s.tie
    /\ t.an.flows = s.an.flows /\ t.fl.carry = s.fl.carry /\ t.fl.is_non_dnp3 = s.fl.is_non_dnp3
    /\ t.fl.frame_count = s.fl.frame_count

SameTables(f, g) ==
    g.pending_requests = f.pending_requests /\ g.master_addrs_seen = f.master_addrs_seen

SameEvents(f, g) ==
    /\ g.restart_event_count = f.restart_event_count /\ g.block_event_count = f.block_event_count
    /\ g.block_finding_emitted_this_window = f.block_finding_emitted_this_window
    /\ g.loss_of_control_emitted = f.loss_of_control_emitted

SameErrors(f, g) ==
    /\ g.parse_errors = f.parse_errors /\ g.malformed_in_window = f.malformed_in_window
    /\ g.malformed_anomaly_emitted = f.malformed_anomaly_emitted
    /\ g.correlation_window_start_ts = f.correlation_window_start_ts
    /\ g.correlation_window_seeded = f.correlation_window_seeded

\* the errors of g are those of f and some more, met at ts in the same window
Counted(f, g, ts) ==
    /\ f.parse_errors \in Nat /\ g.parse_errors \in Nat /\ g.parse_errors >= f.parse_errors
    /\ f.malformed_in_window \in Nat /\ g.malformed_in_window \in Nat
    /\ g.malformed_in_window = f.malformed_in_window + (g.parse_errors - f.parse_errors)
    /\ g.correlation_window_start_ts = f.correlation_window_start_ts
    /\ g.correlation_window_seeded = f.correlation_window_seeded
    /\ g.malformed_anomaly_emitted <=>
          \/ f.malformed_anomaly_emitted
          \/ /\ g.parse_errors > f.parse_errors
             /\ g.malformed_in_window >= MALFORMED_ANOMALY_THRESHOLD
             /\ Elapsed(ts, g.correlation_window_start_ts) < CORRELATION_WINDOW_SECS

\* A step of the detectors that leaves the window of events alone.
Detects(s, t, ts) ==
    Sound(t, ts) /\ Kept(s, t) /\ SameEvents(s.fl, t.fl) /\ Counted(s.fl, t.fl, ts)

-----------------------------------------------------------------------------
(* Errors                                                                  *)

\* Errors that stay as they were are counted.
LEMMA CountedSame ==
    ASSUME NEW ts, NEW f, NEW g, CountsSound(f), SameErrors(f, g)
    PROVE  Counted(f, g, ts)
BY DEF CountsSound, SameErrors, Counted

\* Some errors after some others: the threshold is reached by the last of them.
LEMMA CountedChain ==
    ASSUME NEW ts, NEW f, NEW g, NEW h, Counted(f, g, ts), Counted(g, h, ts)
    PROVE  Counted(f, h, ts)
BY Dnp3Assumption, SMTT(30) DEF Counted

-----------------------------------------------------------------------------
(* Findings                                                                *)

\* A push keeps the findings within their cap and the flows as they are.
LEMMA PushSound ==
    ASSUME NEW a, AnSound(a), NEW x
    PROVE  AnSound(Push(a, <<x>>)) /\ Push(a, <<x>>).flows = a.flows
<1> DEFINE fits == {i \in DOMAIN <<x>> : Len(a.all_findings) + i <= MAX_FINDINGS}
           kept == SubSeq(<<x>>, 1, Cardinality(fits))
<1>1. PICK S : a.all_findings \in Seq(S)
  BY DEF AnSound, IsSeq
<1>2. Len(a.all_findings) \in Nat /\ Len(a.all_findings) <= MAX_FINDINGS
  BY <1>1 DEF AnSound
<1>3. \/ Len(a.all_findings) + 1 <= MAX_FINDINGS /\ Cardinality(fits) = 1
      \/ Cardinality(fits) = 0
  <2>1. fits = IF Len(a.all_findings) + 1 <= MAX_FINDINGS THEN {1} ELSE {}
    OBVIOUS
  <2> HIDE DEF fits
  <2> QED BY <2>1, FS_Singleton, FS_EmptySet, Zenon
<1>4. kept \in Seq({x}) /\ Len(kept) = Cardinality(fits)
  <2> HIDE DEF fits
  <2>1. <<x>> \in Seq({x})
    OBVIOUS
  <2> QED BY <1>3, <2>1
<1> HIDE DEF fits
<1>5. /\ a.all_findings \o kept \in Seq(S \cup {x})
      /\ Len(a.all_findings \o kept) = Len(a.all_findings) + Len(kept)
  <2> HIDE DEF kept
  <2>1. a.all_findings \in Seq(S \cup {x}) /\ kept \in Seq(S \cup {x})
    BY <1>1, <1>4
  <2> QED BY <2>1
<1>6. Len(a.all_findings \o kept) <= MAX_FINDINGS
  <2> HIDE DEF kept
  <2> QED BY <1>2, <1>3, <1>4, <1>5, Dnp3Assumption
<1>7. Push(a, <<x>>) = [a EXCEPT !.all_findings = a.all_findings \o kept,
                               !.dropped_findings = @ + Len(<<x>>) - Cardinality(fits)]
  BY DEF Push, fits
<1> HIDE DEF kept
<1> QED BY <1>5, <1>6, <1>7, Zenon DEF AnSound, IsSeq, Dnp3Fields

\* A finding changes nothing but the findings.
LEMMA ReportSound ==
    ASSUME NEW ts, NEW s, Sound(s, ts), NEW x
    PROVE  Detects(s, Report(s, x), ts) /\ Report(s, x).fl = s.fl
<1>1. AnSound(Push(s.an, <<x>>)) /\ Push(s.an, <<x>>).flows = s.an.flows
  BY PushSound DEF Sound
<1>2. Report(s, x) = [s EXCEPT !.an = Push(s.an, <<x>>)]
  BY DEF Report
<1>3. CountsSound(s.fl)
  BY DEF Sound, FlowSound
<1>4. Counted(s.fl, s.fl, ts)
  BY <1>3, CountedSame DEF SameErrors
<1> QED BY <1>1, <1>2, <1>4 DEF Sound, Kept, SameEvents, Detects, WalkFields

\* Tables that stay as they were stay sound.
LEMMA SameTablesSound ==
    ASSUME NEW f, NEW g, NEW ts, TablesSound(f), Timely(f, ts), SameTables(f, g), g.frame_count = f.frame_count
    PROVE  TablesSound(g) /\ Timely(g, ts)
BY DEF TablesSound, Timely, SameTables

\* the flow g is the flow f but for its counters, which are sound
Fits(f, g) ==
    /\ DOMAIN g = Dnp3FlowFields /\ CountsSound(g) /\ SameTables(f, g)
    /\ g.carry = f.carry /\ g.is_non_dnp3 = f.is_non_dnp3 /\ g.frame_count = f.frame_count

SetFlow(s, g) == [s EXCEPT !.fl = g]

IsSet(s, t, g, ts) == Sound(t, ts) /\ Kept(s, t) /\ t.fl = g

\* A report and a change of the flow that leaves its tables alone.
LEMMA ReportAndSet ==
    ASSUME NEW ts, NEW s, Sound(s, ts), NEW x, NEW g, Fits(s.fl, g)
    PROVE  IsSet(s, SetFlow(Report(s, x), g), g, ts)
<1>1. Detects(s, Report(s, x), ts) /\ Report(s, x).fl = s.fl
  BY ReportSound
<1>2. TablesSound(g) /\ Timely(g, ts)
  BY SameTablesSound DEF Sound, FlowSound, Fits
<1>3. DOMAIN Report(s, x) = WalkFields
  BY <1>1 DEF Detects, Sound
<1> QED BY <1>1, <1>2, <1>3 DEF Detects, Sound, FlowSound, Kept, WalkFields, Fits, SetFlow, IsSet

\* ... and without a report.
LEMMA JustSet ==
    ASSUME NEW ts, NEW s, Sound(s, ts), NEW g, Fits(s.fl, g)
    PROVE  IsSet(s, SetFlow(s, g), g, ts)
<1>2. TablesSound(g) /\ Timely(g, ts)
  BY SameTablesSound DEF Sound, FlowSound, Fits
<1> QED BY <1>2 DEF Sound, FlowSound, Kept, WalkFields, Fits, SetFlow, IsSet

-----------------------------------------------------------------------------
(* The window of events                                                    *)

\* Loss of control is reported, once, if restarts and blocks call for it.
LEMMA T0827Sound ==
    ASSUME NEW ts, NEW s, Sound(s, ts), NEW t, t = MaybeEmitT0827(s)
    PROVE  /\ Sound(t, ts) /\ Kept(s, t) /\ LossLatch(t.fl) /\ (BlockLatch(s.fl) => BlockLatch(t.fl))
           /\ SameErrors(s.fl, t.fl)
<1> DEFINE g == [s.fl EXCEPT !.loss_of_control_emitted = TRUE]
<1>0. DOMAIN s.fl = Dnp3FlowFields /\ CountsSound(s.fl)
  BY DEF Sound, FlowSound
<1>1. CASE /\ s.fl.restart_event_count + s.fl.block_event_count >= T0827_THRESHOLD
           /\ ~s.fl.loss_of_control_emitted
  <2>1. t = SetFlow(Report(s, "loss of control"), g)
    <3>1. t = [Report(s, "loss of control") EXCEPT !.fl.loss_of_control_emitted = TRUE]
      BY <1>1, Zenon DEF MaybeEmitT0827
    <3>2. Report(s, "loss of control").fl = s.fl
      BY ReportSound, Zenon
    <3> QED BY <3>1, <3>2, Zenon DEF SetFlow
  <2>2. Fits(s.fl, g) /\ LossLatch(g) /\ (BlockLatch(s.fl) => BlockLatch(g))
    BY <1>0, <1>1 DEF Dnp3FlowFields, CountsSound, SameTables, LossLatch, BlockLatch, Fits
  <2>4. SameErrors(s.fl, g)
    BY <1>0, Zenon DEF Dnp3FlowFields, SameErrors
  <2> HIDE DEF g
  <2>3. IsSet(s, t, g, ts)
    BY <2>1, <2>2, ReportAndSet, Zenon
  <2> QED BY <2>2, <2>3, <2>4 DEF IsSet
<1>2. CASE ~(/\ s.fl.restart_event_count + s.fl.block_event_count >= T0827_THRESHOLD
             /\ ~s.fl.loss_of_control_emitted)
  <2>1. t = s
    BY <1>2, Zenon DEF MaybeEmitT0827
  <2> QED BY <1>2, <2>1 DEF Kept, LossLatch, SameErrors
<1> QED BY <1>1, <1>2

\* A structural error.
LEMMA MalformedSound ==
    ASSUME NEW ts, NEW s, Sound(s, ts), NEW t, t = Malformed(s, ts)
    PROVE  Detects(s, t, ts)
<1> DEFINE g == [s.fl EXCEPT !.parse_errors = @ + 1, !.malformed_in_window = @ + 1]
           h == [g EXCEPT !.malformed_anomaly_emitted = TRUE]
           u == SetFlow(s, g)
<1>0. DOMAIN s.fl = Dnp3FlowFields /\ CountsSound(s.fl) /\ DOMAIN s = WalkFields
  BY DEF Sound, FlowSound
<1>1. [s EXCEPT !.fl.parse_errors = @ + 1, !.fl.malformed_in_window = @ + 1] = u
  BY <1>0, Zenon DEF WalkFields, Dnp3FlowFields, SetFlow
<1>2. Fits(s.fl, g) /\ SameEvents(s.fl, g)
  BY <1>0, Dnp3Assumption DEF Dnp3FlowFields, CountsSound, SameTables, SameEvents, Fits
<1>3. IsSet(s, u, g, ts)
  <2> HIDE DEF g
  <2> QED BY <1>2, JustSet
<1>4. Sound(u, ts) /\ Kept(s, u) /\ u.fl = g
  BY <1>3 DEF IsSet
<1> DEFINE late == ~(Elapsed(ts, s.fl.correlation_window_start_ts) < CORRELATION_WINDOW_SECS)
           fires == g.malformed_in_window >= MALFORMED_ANOMALY_THRESHOLD /\ ~late
<1>8. /\ ~fires \/ s.fl.malformed_anomaly_emitted => Counted(s.fl, g, ts)
      /\ fires => Counted(s.fl, h, ts)
  <2> HIDE DEF late
  <2>1. /\ g.parse_errors = s.fl.parse_errors + 1
        /\ g.malformed_in_window = s.fl.malformed_in_window + 1
        /\ g.malformed_anomaly_emitted = s.fl.malformed_anomaly_emitted
        /\ g.correlation_window_start_ts = s.fl.correlation_window_start_ts
        /\ g.correlation_window_seeded = s.fl.correlation_window_seeded
        /\ DOMAIN g = Dnp3FlowFields
    BY <1>0 DEF Dnp3FlowFields
  <2> HIDE DEF g
  <2>2. /\ h.parse_errors = g.parse_errors /\ h.malformed_in_window = g.malformed_in_window
        /\ h.malformed_anomaly_emitted = TRUE
        /\ h.correlation_window_start_ts = g.correlation_window_start_ts
        /\ h.correlation_window_seeded = g.correlation_window_seeded
    BY <2>1 DEF Dnp3FlowFields
  <2> HIDE DEF h
  <2>3. s.fl.parse_errors \in Nat /\ s.fl.malformed_in_window \in Nat
    BY <1>0 DEF CountsSound
  <2>4. late <=> ~(Elapsed(ts, s.fl.correlation_window_start_ts) < CORRELATION_WINDOW_SECS)
    BY DEF late
  <2> QED BY <2>1, <2>2, <2>3, <2>4, SMTT(30) DEF Counted
<1>5. CASE t = u /\ (~fires \/ s.fl.malformed_anomaly_emitted)
  <2> HIDE DEF g, u, fires
  <2> QED BY <1>2, <1>4, <1>5, <1>8 DEF Detects
<1>6. CASE /\ t = [Report(u, "malformed frames") EXCEPT !.fl.malformed_anomaly_emitted = TRUE]
           /\ fires
  <2>1. Fits(g, h) /\ SameEvents(g, h)
    <3> HIDE DEF g
    <3> QED BY <1>2, <1>6, Zenon DEF Dnp3FlowFields, CountsSound, SameTables, SameEvents, Fits
  <2>2. t = SetFlow(Report(u, "malformed frames"), h)
    <3>1. Report(u, "malformed frames").fl = g
      BY <1>4, ReportSound, Zenon
    <3> QED BY <1>6, <3>1, Zenon DEF SetFlow
  <2> HIDE DEF g, h, u, fires
  <2>3. IsSet(u, t, h, ts)
    BY <1>4, <2>1, <2>2, ReportAndSet, Zenon
  <2>4. Counted(s.fl, t.fl, ts)
    BY <1>6, <1>8, <2>3, Zenon DEF IsSet
  <2> QED BY <1>2, <1>4, <2>1, <2>3, <2>4 DEF Detects, Kept, SameEvents, IsSet
<1>7. \/ t = u /\ (~fires \/ s.fl.malformed_anomaly_emitted)
      \/ /\ t = [Report(u, "malformed frames") EXCEPT !.fl.malformed_anomaly_emitted = TRUE]
         /\ fires
  <2>1. /\ g.malformed_anomaly_emitted = s.fl.malformed_anomaly_emitted
        /\ g.correlation_window_start_ts = s.fl.correlation_window_start_ts
    BY <1>0, Zenon DEF Dnp3FlowFields
  <2> HIDE DEF g, u
  <2> QED BY <1>1, <1>4, <2>1, Zenon DEF Malformed
<1> QED BY <1>5, <1>6, <1>7, Zenon

\* a latch of the window: Report, then set
LEMMA BlockedSound ==
    ASSUME NEW ts, NEW s, Sound(s, ts),
           NEW t, t = IF s.fl.block_event_count >= BLOCK_CMD_THRESHOLD
                         /\ ~s.fl.block_finding_emitted_this_window
                      THEN [Report(s, "blocked command") EXCEPT !.fl.block_finding_emitted_this_window = TRUE]
                      ELSE s
    PROVE  /\ Sound(t, ts) /\ Kept(s, t) /\ BlockLatch(t.fl) /\ (LossLatch(s.fl) => LossLatch(t.fl))
           /\ SameErrors(s.fl, t.fl)
<1> DEFINE g == [s.fl EXCEPT !.block_finding_emitted_this_window = TRUE]
           fires == s.fl.block_event_count >= BLOCK_CMD_THRESHOLD /\ ~s.fl.block_finding_emitted_this_window
<1>0. DOMAIN s.fl = Dnp3FlowFields /\ CountsSound(s.fl)
  BY Zenon DEF Sound, FlowSound
<1>1. CASE fires
  <2>1. t = SetFlow(Report(s, "blocked command"), g)
    <3>1. Report(s, "blocked command").fl = s.fl
      BY ReportSound, Zenon
    <3> QED BY <1>1, <3>1, Zenon DEF SetFlow
  <2>2. Fits(s.fl, g) /\ BlockLatch(g) /\ (LossLatch(s.fl) => LossLatch(g))
    BY <1>0, <1>1, Zenon DEF Dnp3FlowFields, CountsSound, SameTables, LossLatch, BlockLatch, Fits
  <2>4. SameErrors(s.fl, g)
    BY <1>0, Zenon DEF Dnp3FlowFields, SameErrors
  <2> HIDE DEF g
  <2>3. IsSet(s, t, g, ts)
    BY <2>1, <2>2, ReportAndSet, Zenon
  <2> QED BY <2>2, <2>3, <2>4, Zenon DEF IsSet
<1>2. CASE ~fires
  <2>1. t = s
    BY <1>2, Zenon
  <2> QED BY <1>2, <2>1, Zenon DEF Kept, BlockLatch, SameErrors
<1> QED BY <1>1, <1>2, Zenon

\* the start of a call: what is known before the timeouts are looked for
Started(s) == DOMAIN s = WalkFields /\ AnSound(s.an) /\ FlowSound(s.fl) /\ Latched(s.fl)

\* Giving up the overdue requests leaves none, and both latches exact.
LEMMA ScanSound ==
    ASSUME NEW ts \in Nat, NEW s, Started(s), NEW t, t = ScanBlockTimeouts(s, ts)
    PROVE  Sound(t, ts) /\ Kept(s, t) /\ Latched(t.fl) /\ SameErrors(s.fl, t.fl)
<1> DEFINE pending  == s.fl.pending_requests
           timedOut == {r \in DOMAIN pending : Elapsed(ts, pending[r]) > BLOCK_CMD_TIMEOUT_SECS}
           left     == [r \in DOMAIN pending \ timedOut |-> pending[r]]
           g        == [s.fl EXCEPT !.pending_requests = left,
                                    !.block_event_count = @ + Cardinality(timedOut)]
           scanned  == [s EXCEPT !.fl = g]
           raw      == [s EXCEPT !.fl.pending_requests = left,
                                 !.fl.block_event_count = @ + Cardinality(timedOut)]
           notice(u) == IF u.fl.block_event_count >= BLOCK_CMD_THRESHOLD
                           /\ ~u.fl.block_finding_emitted_this_window
                        THEN [Report(u, "blocked command")
                                 EXCEPT !.fl.block_finding_emitted_this_window = TRUE]
                        ELSE u
           blocked  == notice(scanned)
<1>0. /\ DOMAIN s = WalkFields /\ DOMAIN s.fl = Dnp3FlowFields /\ CountsSound(s.fl) /\ TablesSound(s.fl)
      /\ AnSound(s.an) /\ BlockLatch(s.fl) /\ LossLatch(s.fl)
  BY DEF Started, FlowSound, Latched
<1>1. raw = scanned
  BY <1>0, Zenon DEF WalkFields, Dnp3FlowFields
<1>2. /\ Cardinality(timedOut) \in Nat /\ Capped(DOMAIN pending \ timedOut, MAX_PENDING_REQUESTS)
      /\ timedOut = {} => Cardinality(timedOut) = 0
  <2>1. IsFiniteSet(DOMAIN pending) /\ Cardinality(DOMAIN pending) <= MAX_PENDING_REQUESTS
    BY <1>0 DEF TablesSound, Capped
  <2>2. /\ IsFiniteSet(timedOut) /\ IsFiniteSet(DOMAIN pending \ timedOut)
        /\ Cardinality(DOMAIN pending \ timedOut) <= Cardinality(DOMAIN pending)
    BY <2>1, FS_Subset
  <2>3. /\ Cardinality(timedOut) \in Nat /\ Cardinality(DOMAIN pending) \in Nat
        /\ Cardinality(DOMAIN pending \ timedOut) \in Nat
    BY <2>1, <2>2, FS_CardinalityType
  <2> HIDE DEF timedOut, pending
  <2> QED BY <2>1, <2>2, <2>3, FS_EmptySet, Dnp3Assumption DEF Capped
<1>3. /\ \A r \in DOMAIN left : left[r] \in Nat /\ Elapsed(ts, left[r]) <= BLOCK_CMD_TIMEOUT_SECS
      /\ DOMAIN left = DOMAIN pending \ timedOut
  BY <1>0, Dnp3Assumption, SMTT(30) DEF TablesSound, Elapsed
<1> HIDE DEF left, timedOut
<1>4. /\ DOMAIN g = Dnp3FlowFields /\ g.pending_requests = left
      /\ g.block_event_count = s.fl.block_event_count + Cardinality(timedOut)
      /\ g.master_addrs_seen = s.fl.master_addrs_seen /\ g.frame_count = s.fl.frame_count
      /\ g.carry = s.fl.carry /\ g.is_non_dnp3 = s.fl.is_non_dnp3
      /\ g.restart_event_count = s.fl.restart_event_count
      /\ g.loss_of_control_emitted = s.fl.loss_of_control_emitted
  BY <1>0 DEF Dnp3FlowFields
<1>5. CountsSound(g)
  BY <1>0, <1>2, Dnp3Assumption DEF CountsSound, Dnp3FlowFields
<1>13. SameErrors(s.fl, g)
  BY <1>0, Zenon DEF SameErrors, Dnp3FlowFields
<1> HIDE DEF g
<1>6. TablesSound(g) /\ Timely(g, ts)
  BY <1>0, <1>2, <1>3, <1>4, Zenon DEF TablesSound, Timely
<1>7. Sound(scanned, ts) /\ Kept(s, scanned) /\ scanned.fl = g
  BY <1>0, <1>4, <1>5, <1>6 DEF Sound, FlowSound, Kept, WalkFields
<1>8. /\ Sound(blocked, ts) /\ Kept(scanned, blocked) /\ BlockLatch(blocked.fl)
      /\ LossLatch(scanned.fl) => LossLatch(blocked.fl)
      /\ SameErrors(scanned.fl, blocked.fl)
  <2> HIDE DEF scanned
  <2> QED BY <1>7, BlockedSound, Zenon
<1>9. Kept(s, blocked)
  BY <1>7, <1>8, Zenon DEF Kept
<1>14. SameErrors(s.fl, blocked.fl)
  BY <1>7, <1>8, <1>13, Zenon DEF SameErrors
<1>10. t = IF timedOut = {} THEN blocked ELSE MaybeEmitT0827(blocked)
  <2>1. t = IF timedOut = {} THEN notice(raw) ELSE MaybeEmitT0827(notice(raw))
    BY Zenon DEF ScanBlockTimeouts, left, timedOut
  <2> HIDE DEF raw, scanned, notice
  <2> QED BY <1>1, <2>1
<1> HIDE DEF blocked, scanned
<1>11. CASE timedOut = {}
  <2>1. LossLatch(g)
    BY <1>0, <1>2, <1>4, <1>11 DEF LossLatch, CountsSound
  <2> QED BY <1>7, <1>8, <1>9, <1>10, <1>11, <1>14, <2>1 DEF Latched
<1>12. CASE timedOut # {}
  <2>1. /\ Sound(t, ts) /\ Kept(blocked, t) /\ LossLatch(t.fl) /\ BlockLatch(t.fl)
        /\ SameErrors(blocked.fl, t.fl)
    BY <1>8, <1>10, <1>12, T0827Sound
  <2>2. SameErrors(s.fl, t.fl)
    BY <1>14, <2>1, Zenon DEF SameErrors
  <2> QED BY <1>9, <2>1, <2>2 DEF Kept, Latched
<1> QED BY <1>11, <1>12

-----------------------------------------------------------------------------
(* The detectors                                                           *)

\* one of several steps in a row
LEMMA DetectsChain ==
    ASSUME NEW ts, NEW s, NEW t, NEW u, Detects(s, t, ts), Detects(t, u, ts)
    PROVE  Detects(s, u, ts)
BY CountedChain DEF Detects, Kept, SameEvents

\* Doing nothing is such a step.
LEMMA DetectsNothing ==
    ASSUME NEW ts, NEW s, Sound(s, ts)
    PROVE  Detects(s, s, ts)
<1>1. Counted(s.fl, s.fl, ts)
  BY CountedSame DEF Sound, FlowSound, SameErrors
<1> QED BY <1>1 DEF Detects, Kept, SameEvents

\* Tables with a cap: adding an element, and replacing one.
LEMMA CappedAdd ==
    ASSUME NEW K, NEW cap \in Nat, Capped(K, cap), NEW x, x \in K \/ ~(Cardinality(K) >= cap)
    PROVE  Capped(K \cup {x}, cap)
<1>1. IsFiniteSet(K) /\ Cardinality(K) \in Nat /\ Cardinality(K) <= cap
  BY FS_CardinalityType DEF Capped
<1>2. CASE x \in K
  <2>1. K \cup {x} = K
    BY <1>2
  <2> QED BY <2>1
<1>3. CASE x \notin K
  <2>1. IsFiniteSet(K \cup {x}) /\ Cardinality(K \cup {x}) = Cardinality(K) + 1
    BY <1>1, <1>3, FS_AddElement
  <2> QED BY <1>1, <1>3, <2>1 DEF Capped
<1> QED BY <1>2, <1>3

\* A full table that gives up one entry for another stays within its cap.
LEMMA CappedReplace ==
    ASSUME NEW K, NEW cap \in Nat, Capped(K, cap), NEW old \in K, NEW x
    PROVE  Capped((K \ {old}) \cup {x}, cap)
<1>1. IsFiniteSet(K) /\ Cardinality(K) \in Nat /\ Cardinality(K) <= cap
  BY FS_CardinalityType DEF Capped
<1> DEFINE L == K \ {old}
<1>2. IsFiniteSet(L) /\ Cardinality(L) = Cardinality(K) - 1
  BY <1>1, FS_RemoveElement
<1> HIDE DEF L
<1>3. Capped(L, cap) /\ ~(Cardinality(L) >= cap)
  BY <1>1, <1>2 DEF Capped
<1>4. Capped(L \cup {x}, cap)
  BY <1>3, CappedAdd
<1> QED BY <1>4 DEF L

\* A table at a cap above zero has an entry.
LEMMA FullNotEmpty ==
    ASSUME NEW K, NEW cap \in Nat \ {0}, Cardinality(K) >= cap
    PROVE  K # {}
<1> SUFFICES ASSUME K = {} PROVE FALSE
  OBVIOUS
<1>1. Cardinality(K) = 0
  BY FS_EmptySet
<1> QED BY <1>1

\* what InsertPendingRequest makes of the requests: known ones, or noted at ts
Noted(pending, after, ts) ==
    /\ Capped(DOMAIN after, MAX_PENDING_REQUESTS)
    /\ \A r \in DOMAIN after : after[r] = ts \/ (r \in DOMAIN pending /\ after[r] = pending[r])

\* A change of the pending requests alone, and of the counters of the analyzer.
LEMMA NotedSound ==
    ASSUME NEW ts \in Nat, NEW s, Sound(s, ts), s.fl.frame_count # 0,
           NEW after, Noted(s.fl.pending_requests, after, ts),
           NEW an, AnSound(an), an.flows = s.an.flows,
           NEW t, t = [s EXCEPT !.fl = [s.fl EXCEPT !.pending_requests = after], !.an = an]
    PROVE  Detects(s, t, ts)
<1> DEFINE g == [s.fl EXCEPT !.pending_requests = after]
<1>0. /\ DOMAIN s = WalkFields /\ DOMAIN s.fl = Dnp3FlowFields /\ CountsSound(s.fl) /\ TablesSound(s.fl)
      /\ Timely(s.fl, ts)
  BY DEF Sound, FlowSound
<1>3. Elapsed(ts, ts) <= BLOCK_CMD_TIMEOUT_SECS
  BY Dnp3Assumption DEF Elapsed
<1>5. /\ DOMAIN g = Dnp3FlowFields /\ g.pending_requests = after /\ CountsSound(g) /\ SameEvents(s.fl, g)
      /\ g.master_addrs_seen = s.fl.master_addrs_seen /\ g.frame_count = s.fl.frame_count
      /\ g.carry = s.fl.carry /\ g.is_non_dnp3 = s.fl.is_non_dnp3
  BY <1>0 DEF Dnp3FlowFields, CountsSound, SameEvents
<1>7. Counted(s.fl, g, ts)
  <2>1. SameErrors(s.fl, g)
    BY <1>0, Zenon DEF SameErrors, Dnp3FlowFields
  <2> HIDE DEF g
  <2> QED BY <1>0, <2>1, CountedSame
<1> HIDE DEF g
<1>6. TablesSound(g) /\ Timely(g, ts)
  BY <1>0, <1>3, <1>5 DEF TablesSound, Timely, Noted
<1> QED BY <1>0, <1>5, <1>6, <1>7, Zenon DEF Detects, Sound, FlowSound, Kept, SameEvents, WalkFields, g

\* The oldest request is one of them.
LEMMA OldestIsPending ==
    ASSUME NEW pending, DOMAIN pending # {}, \A r \in DOMAIN pending : pending[r] \in Nat,
           NEW tie, NEW minimal,
           minimal = {r \in DOMAIN pending : \A q \in DOMAIN pending : pending[r] <= pending[q]}
    PROVE  (IF tie \in minimal THEN tie ELSE CHOOSE r \in minimal : TRUE) \in DOMAIN pending
<1> DEFINE T == {pending[r] : r \in DOMAIN pending}
<1>1. T \in SUBSET Nat /\ T # {}
  OBVIOUS
<1>2. \E x \in T : \A y \in T : x <= y
  <2> HIDE DEF T
  <2> QED BY <1>1, NatMinimum
<1>3. minimal # {}
  BY <1>2
<1> QED BY <1>3

\* A request is noted at ts; the oldest one makes room for it if there is none.
LEMMA InsertSound ==
    ASSUME NEW ts \in Nat, NEW s, Sound(s, ts), s.fl.frame_count # 0, NEW request,
           NEW t, t = InsertPendingRequest(s, request, ts)
    PROVE  Detects(s, t, ts)
<1>1. PICK pending : pending = s.fl.pending_requests
  OBVIOUS
<1>2. PICK minimal :
         minimal = {r \in DOMAIN pending : \A q \in DOMAIN pending : pending[r] <= pending[q]}
  BY Zenon
<1>3. PICK oldest : oldest = IF s.tie \in minimal THEN s.tie ELSE CHOOSE r \in minimal : TRUE
  OBVIOUS
<1> DEFINE full == Cardinality(DOMAIN pending) >= MAX_PENDING_REQUESTS /\ request \notin DOMAIN pending
<1>4. t = IF full
          THEN [s EXCEPT !.fl.pending_requests = With(Without(@, oldest), request, ts),
                         !.an.pending_requests_evicted = @ + 1]
          ELSE [s EXCEPT !.fl.pending_requests = With(@, request, ts)]
  BY <1>1, <1>2, <1>3 DEF InsertPendingRequest
<1>5. /\ DOMAIN s = WalkFields /\ DOMAIN s.fl = Dnp3FlowFields /\ AnSound(s.an)
      /\ Capped(DOMAIN pending, MAX_PENDING_REQUESTS) /\ \A r \in DOMAIN pending : pending[r] \in Nat
  BY <1>1 DEF Sound, FlowSound, TablesSound
<1>6. CASE full
  <2>1. DOMAIN pending # {}
    BY <1>6, FullNotEmpty, Dnp3Assumption
  <2>2. oldest \in DOMAIN pending
    BY <1>2, <1>3, <1>5, <2>1, OldestIsPending
  <2> DEFINE after == With(Without(pending, oldest), request, ts)
             an == [s.an EXCEPT !.pending_requests_evicted = @ + 1]
  <2>3. AnSound(an) /\ an.flows = s.an.flows
    BY <1>5 DEF AnSound, Dnp3Fields
  <2>4. /\ DOMAIN after = (DOMAIN pending \ {oldest}) \cup {request}
        /\ \A r \in DOMAIN after : after[r] = ts \/ (r \in DOMAIN pending /\ after[r] = pending[r])
    BY DEF With, Without
  <2>5. Capped(DOMAIN after, MAX_PENDING_REQUESTS)
    <3>1. PICK K : K = DOMAIN pending
      OBVIOUS
    <3>2. Capped((K \ {oldest}) \cup {request}, MAX_PENDING_REQUESTS)
      BY <1>5, <2>2, <3>1, CappedReplace, Dnp3Assumption, Zenon
    <3> HIDE DEF after
    <3> QED BY <2>4, <3>1, <3>2
  <2>6. t = [s EXCEPT !.fl = [s.fl EXCEPT !.pending_requests = after], !.an = an]
    BY <1>1, <1>4, <1>5, <1>6 DEF WalkFields, Dnp3FlowFields
  <2> HIDE DEF after, an
  <2>7. Noted(s.fl.pending_requests, after, ts)
    BY <1>1, <2>4, <2>5, Zenon DEF Noted
  <2> QED BY <2>3, <2>6, <2>7, NotedSound, Zenon
<1>7. CASE ~full
  <2> DEFINE after == With(pending, request, ts)
  <2>4. /\ DOMAIN after = DOMAIN pending \cup {request}
        /\ \A r \in DOMAIN after : after[r] = ts \/ (r \in DOMAIN pending /\ after[r] = pending[r])
    BY DEF With
  <2>5. Capped(DOMAIN after, MAX_PENDING_REQUESTS)
    <3> HIDE DEF after
    <3> QED BY <1>5, <1>7, <2>4, CappedAdd, Dnp3Assumption
  <2>6. t = [s EXCEPT !.fl = [s.fl EXCEPT !.pending_requests = after], !.an = s.an]
    BY <1>1, <1>4, <1>5, <1>7, Zenon DEF WalkFields, Dnp3FlowFields
  <2> HIDE DEF after
  <2>7. Noted(s.fl.pending_requests, after, ts)
    BY <1>1, <2>4, <2>5 DEF Noted
  <2> QED BY <1>5, <2>6, <2>7, NotedSound, Zenon
<1> QED BY <1>6, <1>7

\* the flow g is the flow f but for the flags of a detector
Marks(f, g) == Fits(f, g) /\ SameEvents(f, g) /\ SameErrors(f, g)

\* A change of the flow outside tables and window, with a report or without.
LEMMA MarkSound ==
    ASSUME NEW ts, NEW s, Sound(s, ts), NEW x, NEW g, Marks(s.fl, g)
    PROVE  Detects(s, SetFlow(Report(s, x), g), ts) /\ Detects(s, SetFlow(s, g), ts)
<1>1. IsSet(s, SetFlow(Report(s, x), g), g, ts) /\ IsSet(s, SetFlow(s, g), g, ts)
  BY ReportAndSet, JustSet DEF Marks
<1>2. Counted(s.fl, g, ts)
  BY CountedSame DEF Sound, FlowSound, Marks
<1> QED BY <1>1, <1>2 DEF IsSet, Detects, Marks

\* a one-shot flag that no count goes with
LEMMA FlagFits ==
    ASSUME NEW ts, NEW s, Sound(s, ts)
    PROVE  /\ \A v : Marks(s.fl, [s.fl EXCEPT !.unexpected_source_emitted = v])
           /\ \A v : Marks(s.fl, [s.fl EXCEPT !.response_seen = v])
           /\ \A v : Marks(s.fl, [s.fl EXCEPT !.unsolicited_anomaly_emitted = v])
           /\ \A v : Marks(s.fl, [s.fl EXCEPT !.enable_unsolicited_seen = v])
           /\ \A n, start, v : Marks(s.fl, [s.fl EXCEPT !.direct_operate_count = n, !.window_start_ts = start,
                                                       !.direct_operate_emitted = v])
<1>1. DOMAIN s.fl = Dnp3FlowFields /\ CountsSound(s.fl)
  BY DEF Sound, FlowSound
<1> QED BY <1>1 DEF Marks, Fits, SameEvents, SameErrors, SameTables, CountsSound, Dnp3FlowFields

\* detect_unexpected_source sets its latch and reports.
LEMMA SourceSound ==
    ASSUME NEW ts, NEW s, Sound(s, ts)
    PROVE  Detects(s, DetectUnexpectedSource(s), ts)
<1> DEFINE g == [s.fl EXCEPT !.unexpected_source_emitted = TRUE]
<1>1. Marks(s.fl, g)
  BY FlagFits, Zenon
<1>2. [Report(s, "unexpected source") EXCEPT !.fl.unexpected_source_emitted = TRUE]
         = SetFlow(Report(s, "unexpected source"), g)
  BY ReportSound, Zenon DEF SetFlow
<1>3. Detects(s, SetFlow(Report(s, "unexpected source"), g), ts)
  <2> HIDE DEF g
  <2> QED BY <1>1, MarkSound, Zenon
<1> QED BY <1>2, <1>3, DetectsNothing, Zenon DEF DetectUnexpectedSource

\* detect_unsolicited_anomaly notes the response, or reports once.
LEMMA UnsolicitedAnomalySound ==
    ASSUME NEW ts, NEW s, Sound(s, ts), NEW f
    PROVE  Detects(s, DetectUnsolicitedAnomaly(s, f), ts)
<1> DEFINE g == [s.fl EXCEPT !.unsolicited_anomaly_emitted = TRUE]
           h == [s.fl EXCEPT !.response_seen = TRUE]
<1>1. Marks(s.fl, g) /\ Marks(s.fl, h)
  BY FlagFits, Zenon
<1>2. /\ [Report(s, "unsolicited response") EXCEPT !.fl.unsolicited_anomaly_emitted = TRUE]
            = SetFlow(Report(s, "unsolicited response"), g)
      /\ [s EXCEPT !.fl.response_seen = TRUE] = SetFlow(s, h)
  BY ReportSound, Zenon DEF SetFlow
<1>3. Detects(s, SetFlow(Report(s, "unsolicited response"), g), ts) /\ Detects(s, SetFlow(s, h), ts)
  <2> HIDE DEF g, h
  <2> QED BY <1>1, MarkSound, Zenon
<1> HIDE DEF g, h
<1> QED BY <1>2, <1>3, DetectsNothing, Zenon DEF DetectUnsolicitedAnomaly

\* detect_unsolicited_control reports, and notes an enable.
LEMMA UnsolicitedControlSound ==
    ASSUME NEW ts, NEW s, Sound(s, ts), NEW f
    PROVE  Detects(s, UnsolicitedControl(s, f), ts)
<1> DEFINE g == [s.fl EXCEPT !.enable_unsolicited_seen = TRUE]
           u == SetFlow(s, g)
<1>1. Marks(s.fl, g)
  BY FlagFits, Zenon
<1>2. [s EXCEPT !.fl.enable_unsolicited_seen = TRUE] = u
  BY DEF SetFlow
<1>3. Detects(s, u, ts)
  <2> HIDE DEF g
  <2> QED BY <1>1, MarkSound
<1> HIDE DEF u
<1>4. Detects(u, Report(u, "enable unsolicited"), ts) /\ Detects(s, Report(s, "disable unsolicited"), ts)
  BY <1>3, ReportSound, Zenon DEF Detects
<1>5. Detects(s, Report(u, "enable unsolicited"), ts)
  BY <1>3, <1>4, DetectsChain, Zenon
<1> QED BY <1>2, <1>4, <1>5, DetectsNothing, Zenon DEF UnsolicitedControl

\* detect_control_class_burst restarts its own window or counts in it.
LEMMA BurstSound ==
    ASSUME NEW ts, NEW s, Sound(s, ts)
    PROVE  Detects(s, DetectControlClassBurst(s, ts), ts)
<1> DEFINE Marked(n, start, v) == [s.fl EXCEPT !.direct_operate_count = n, !.window_start_ts = start,
                                               !.direct_operate_emitted = v]
<1>0. DOMAIN s = WalkFields /\ DOMAIN s.fl = Dnp3FlowFields
  BY DEF Sound, FlowSound
<1>1. \A n, start, v : Marks(s.fl, Marked(n, start, v))
  BY FlagFits, Zenon
<1>3. \A n, start, v : Detects(s, SetFlow(s, Marked(n, start, v)), ts)
  <2> HIDE DEF Marked
  <2> QED BY <1>1, MarkSound, Zenon
<1> DEFINE IsMarked(u) == \E n, start, v : u = [s EXCEPT !.fl.direct_operate_count = n,
                                                         !.fl.window_start_ts = start,
                                                         !.fl.direct_operate_emitted = v]
<1>4. PICK fresh, seen : /\ IsMarked(fresh) /\ IsMarked(seen)
                         /\ DetectControlClassBurst(s, ts) \in {fresh, seen, Report(seen, "control burst")}
  <2> DEFINE fl == s.fl
             n == fl.direct_operate_count + 1
             start == IF n = 1 THEN ts ELSE fl.window_start_ts
             fires == /\ n > direct_operate_threshold
                      /\ ~fl.direct_operate_emitted
                      /\ Elapsed(ts, start) <= DETECTION_WINDOW_SECS
             v == fl.direct_operate_emitted \/ fires
             seen == [s EXCEPT !.fl.direct_operate_count = n, !.fl.window_start_ts = start,
                               !.fl.direct_operate_emitted = v]
             fresh == [s EXCEPT !.fl.direct_operate_count = 1, !.fl.window_start_ts = ts,
                                !.fl.direct_operate_emitted = FALSE]
  <2>1. [s EXCEPT !.fl.direct_operate_count = n, !.fl.window_start_ts = start,
                  !.fl.direct_operate_emitted = @ \/ fires] = seen
    <3> HIDE DEF n, start, fires
    <3> QED BY <1>0 DEF WalkFields, Dnp3FlowFields
  <2>2. DetectControlClassBurst(s, ts) \in {fresh, seen, Report(seen, "control burst")}
    <3> HIDE DEF seen
    <3> QED BY <2>1 DEF DetectControlClassBurst
  <2>3. IsMarked(fresh) /\ IsMarked(seen)
    <3> HIDE DEF n, start, v, fires
    <3> QED BY Zenon
  <2> HIDE DEF fresh, seen
  <2> QED BY <2>2, <2>3, ZenonT(30)
<1>5. PICK u : /\ Detects(s, u, ts)
               /\ DetectControlClassBurst(s, ts) = u \/ DetectControlClassBurst(s, ts) = Report(u, "control burst")
  <2>1. Detects(s, fresh, ts) /\ Detects(s, seen, ts)
    <3>1. ASSUME NEW u, IsMarked(u) PROVE Detects(s, u, ts)
      <4>1. PICK n, start, v : u = [s EXCEPT !.fl.direct_operate_count = n, !.fl.window_start_ts = start,
                                             !.fl.direct_operate_emitted = v]
        BY <3>1, Zenon
      <4>2. u = SetFlow(s, Marked(n, start, v))
        BY <1>0, <4>1, Zenon DEF SetFlow, WalkFields, Dnp3FlowFields
      <4> HIDE DEF Marked
      <4> QED BY <1>3, <4>2, Zenon
    <3> HIDE DEF IsMarked
    <3> QED BY <1>4, <3>1, Zenon
  <2> QED BY <1>4, <2>1, Zenon
<1>6. Detects(u, Report(u, "control burst"), ts)
  BY <1>5, ReportSound, Zenon DEF Detects
<1> QED BY <1>5, <1>6, DetectsChain, Zenon

-----------------------------------------------------------------------------
(* One frame                                                               *)

\* what a frame leaves alone; the exactness of the latches is kept
Handles(s, t, ts) ==
    Sound(t, ts) /\ Kept(s, t) /\ (Latched(s.fl) => Latched(t.fl)) /\ Counted(s.fl, t.fl, ts)

\* A detector that leaves the window alone keeps its latches exact.
LEMMA DetectsHandles ==
    ASSUME NEW ts, NEW s, NEW t, Detects(s, t, ts)
    PROVE  Handles(s, t, ts)
BY DEF Detects, Handles, SameEvents, Latched, BlockLatch, LossLatch

\* A control request: four detectors in a row.
LEMMA ControlSound ==
    ASSUME NEW ts \in Nat, NEW s, Sound(s, ts), s.fl.frame_count # 0, NEW f, NEW known
    PROVE  Detects(s, ControlFrame(s, f, known, ts), ts)
<1> DEFINE broadcast == IF IsBroadcastDestination(f.dst) THEN DetectBroadcastAnomaly(s) ELSE s
           source    == IF f.master /\ known # {} /\ f.src \notin known
                        THEN DetectUnexpectedSource(broadcast) ELSE broadcast
           pending   == IF f.fc = 6 THEN source ELSE InsertPendingRequest(source, <<f.dst, f.seq>>, ts)
<1>0. ControlFrame(s, f, known, ts) = DetectControlClassBurst(pending, ts)
  BY Zenon DEF ControlFrame
<1>1. Detects(s, broadcast, ts)
  BY ReportSound, DetectsNothing, Zenon DEF DetectBroadcastAnomaly
<1> HIDE DEF broadcast
<1>2. Detects(broadcast, source, ts)
  <2>1. Sound(broadcast, ts)
    BY <1>1 DEF Detects
  <2> QED BY <2>1, SourceSound, DetectsNothing, Zenon
<1>3. Detects(s, source, ts)
  BY <1>1, <1>2, DetectsChain
<1> HIDE DEF source
<1>4. Detects(source, pending, ts)
  <2>1. Sound(source, ts) /\ source.fl.frame_count # 0
    BY <1>3 DEF Detects, Kept
  <2>2. Detects(source, InsertPendingRequest(source, <<f.dst, f.seq>>, ts), ts)
    BY <2>1, InsertSound
  <2> QED BY <2>1, <2>2, DetectsNothing, Zenon
<1> HIDE DEF pending
<1>5. Detects(pending, DetectControlClassBurst(pending, ts), ts)
  BY <1>4, BurstSound DEF Detects
<1> QED BY <1>0, <1>3, <1>4, <1>5, DetectsChain

\* A restart is counted in the window before loss of control is looked at.
LEMMA RestartSound ==
    ASSUME NEW ts, NEW s, Sound(s, ts)
    PROVE  Handles(s, RestartFrame(s), ts)
<1> DEFINE g == [s.fl EXCEPT !.restart_event_count = @ + 1]
           u == SetFlow(Report(s, "restart"), g)
<1>0. DOMAIN s.fl = Dnp3FlowFields /\ CountsSound(s.fl)
  BY DEF Sound, FlowSound
<1>1. Fits(s.fl, g) /\ (BlockLatch(s.fl) => BlockLatch(g))
  BY <1>0, Dnp3Assumption DEF Fits, BlockLatch, SameTables, CountsSound, Dnp3FlowFields
<1>8. SameErrors(s.fl, g)
  BY <1>0, Zenon DEF SameErrors, Dnp3FlowFields
<1>2. RestartFrame(s) = MaybeEmitT0827(u)
  BY ReportSound DEF RestartFrame, SetFlow
<1>3. IsSet(s, u, g, ts)
  <2> HIDE DEF g
  <2> QED BY <1>1, ReportAndSet
<1> HIDE DEF g, u
<1>4. /\ Sound(u, ts) /\ Kept(s, u) /\ (BlockLatch(s.fl) => BlockLatch(u.fl))
      /\ SameErrors(s.fl, u.fl)
  BY <1>1, <1>3, <1>8 DEF IsSet
<1>5. PICK t : t = RestartFrame(s)
  OBVIOUS
<1>6. /\ Sound(t, ts) /\ Kept(u, t) /\ LossLatch(t.fl) /\ (BlockLatch(u.fl) => BlockLatch(t.fl))
      /\ SameErrors(u.fl, t.fl)
  BY <1>2, <1>4, <1>5, T0827Sound
<1>9. Counted(s.fl, t.fl, ts)
  <2>1. SameErrors(s.fl, t.fl)
    BY <1>4, <1>6, Zenon DEF SameErrors
  <2> QED BY <1>0, <2>1, CountedSame
<1>7. Handles(s, t, ts)
  BY <1>4, <1>6, <1>9 DEF Handles, Kept, Latched
<1> QED BY <1>5, <1>7

\* A response takes the request it answers off the pending ones.
LEMMA ResponseSound ==
    ASSUME NEW ts \in Nat, NEW s, Sound(s, ts), s.fl.frame_count # 0, NEW f
    PROVE  Detects(s, ResponseFrame(s, f), ts)
<1> DEFINE t == DetectUnsolicitedAnomaly(s, f)
           after == Without(t.fl.pending_requests, <<f.src, f.seq>>)
           u == [t EXCEPT !.fl.pending_requests = after]
<1>1. Detects(s, t, ts)
  BY UnsolicitedAnomalySound
<1>2. ResponseFrame(s, f) = IF f.fc = 129 THEN u ELSE t
  BY Zenon DEF ResponseFrame
<1> HIDE DEF t
<1>3. Sound(t, ts) /\ t.fl.frame_count # 0
  BY <1>1 DEF Detects, Kept
<1>4. /\ DOMAIN t = WalkFields /\ DOMAIN t.fl = Dnp3FlowFields /\ AnSound(t.an)
      /\ Capped(DOMAIN t.fl.pending_requests, MAX_PENDING_REQUESTS)
  BY <1>3 DEF Sound, FlowSound, TablesSound
<1>5. Noted(t.fl.pending_requests, after, ts)
  <2>1. PICK pending : pending = t.fl.pending_requests
    OBVIOUS
  <2>2. /\ DOMAIN after \subseteq DOMAIN pending
        /\ \A r \in DOMAIN after : r \in DOMAIN pending /\ after[r] = pending[r]
    BY <2>1 DEF Without
  <2> HIDE DEF after
  <2>3. /\ IsFiniteSet(DOMAIN pending) /\ Cardinality(DOMAIN pending) \in Nat
        /\ Cardinality(DOMAIN pending) <= MAX_PENDING_REQUESTS
    BY <1>4, <2>1, FS_CardinalityType DEF Capped
  <2>4. IsFiniteSet(DOMAIN after) /\ Cardinality(DOMAIN after) <= Cardinality(DOMAIN pending)
    BY <2>2, <2>3, FS_Subset
  <2>5. Cardinality(DOMAIN after) \in Nat
    BY <2>4, FS_CardinalityType
  <2> QED BY <2>1, <2>2, <2>3, <2>4, <2>5, Dnp3Assumption DEF Noted, Capped
<1>6. u = [t EXCEPT !.fl = [t.fl EXCEPT !.pending_requests = after], !.an = t.an]
  <2> HIDE DEF after
  <2> QED BY <1>4, Zenon DEF WalkFields, Dnp3FlowFields
<1> HIDE DEF after, u
<1>7. Detects(t, u, ts)
  BY <1>3, <1>4, <1>5, <1>6, NotedSound, Zenon
<1>8. Detects(s, u, ts)
  BY <1>1, <1>7, DetectsChain
<1> QED BY <1>1, <1>2, <1>8, ZenonT(30)

\* what a frame that is processed leaves alone, and what it leaves sound
Processes(s, t, ts) ==
    /\ Sound(t, ts) /\ (Latched(s.fl) => Latched(t.fl)) /\ Counted(s.fl, t.fl, ts)
    /\ t.fl.frame_count # 0
    /\ t.buf = s.buf /\ t.processed = s.processed /\ t.done = s.done
    /\ t.an.flows = s.an.flows /\ t.fl.carry = s.fl.carry /\ t.fl.is_non_dnp3 = s.fl.is_non_dnp3

\* What a frame does to the flow can be followed by a detector.
LEMMA ProcessThen ==
    ASSUME NEW ts, NEW s, NEW t, NEW u, Processes(s, t, ts), Handles(t, u, ts)
    PROVE  Processes(s, u, ts)
<1>1. Counted(s.fl, u.fl, ts)
  BY CountedChain DEF Processes, Handles
<1> QED BY <1>1 DEF Processes, Handles, Kept

\* A frame that passed the gates.
LEMMA ProcessFrameSound ==
    ASSUME NEW ts \in Nat, NEW s, Sound(s, ts), NEW f
    PROVE  Processes(s, ProcessFrame(s, f, ts), ts)
<1> DEFINE known   == s.fl.master_addrs_seen
           unseen  == f.master /\ f.src \notin known
           room    == Cardinality(known) < MAX_MASTER_ADDRS
           counted == [s EXCEPT !.fl.frame_count = @ + 1,
                                !.fl.master_addrs_seen = IF unseen /\ room THEN @ \cup {f.src} ELSE @,
                                !.an.master_addrs_dropped = @ + (IF unseen /\ ~room THEN 1 ELSE 0)]
           noted   == [counted EXCEPT !.an.fn_code_counts = With(@, f.fc, Get(@, f.fc, 0) + 1)]
           app     == UnsolicitedControl(noted, f)
<1>0. ProcessFrame(s, f, ts) =
         IF ~AppOf(s.buf, f) THEN counted
         ELSE CASE ClassifyDnp3Fc(f.fc) = "Control" -> ControlFrame(app, f, known, ts)
                [] ClassifyDnp3Fc(f.fc) = "Restart" -> RestartFrame(app)
                [] ClassifyDnp3Fc(f.fc) = "Write" -> DetectWrite(app)
                [] ClassifyDnp3Fc(f.fc) = "Response" -> ResponseFrame(app, f)
                [] OTHER -> app
  BY Zenon DEF ProcessFrame
<1>1. /\ DOMAIN s = WalkFields /\ DOMAIN s.fl = Dnp3FlowFields /\ DOMAIN s.an = Dnp3Fields
      /\ CountsSound(s.fl) /\ TablesSound(s.fl) /\ Timely(s.fl, ts) /\ AnSound(s.an)
  BY DEF Sound, FlowSound, AnSound
<1>2. PICK masters, dropped :
         /\ counted = [s EXCEPT !.fl = [s.fl EXCEPT !.frame_count = @ + 1, !.master_addrs_seen = masters],
                                !.an = [s.an EXCEPT !.master_addrs_dropped = dropped]]
         /\ Capped(masters, MAX_MASTER_ADDRS)
  <2> DEFINE masters == IF unseen /\ room THEN known \cup {f.src} ELSE known
             dropped == s.an.master_addrs_dropped + (IF unseen /\ ~room THEN 1 ELSE 0)
  <2>1. counted = [s EXCEPT !.fl = [s.fl EXCEPT !.frame_count = @ + 1, !.master_addrs_seen = masters],
                            !.an = [s.an EXCEPT !.master_addrs_dropped = dropped]]
    <3> HIDE DEF unseen, room
    <3> QED BY <1>1, Zenon DEF WalkFields, Dnp3FlowFields, Dnp3Fields
  <2>2. Capped(known, MAX_MASTER_ADDRS)
    BY <1>1 DEF TablesSound
  <2>3. room => Capped(known \cup {f.src}, MAX_MASTER_ADDRS)
    <3>1. PICK K : K = known
      OBVIOUS
    <3>2. Capped(K, MAX_MASTER_ADDRS) /\ Cardinality(K) \in Nat
      BY <2>2, <3>1, FS_CardinalityType DEF Capped
    <3>3. room => Capped(K \cup {f.src}, MAX_MASTER_ADDRS)
      BY <3>1, <3>2, CappedAdd, Dnp3Assumption
    <3> QED BY <3>1, <3>3
  <2>4. Capped(masters, MAX_MASTER_ADDRS)
    <3> HIDE DEF known, room, unseen
    <3> QED BY <2>2, <2>3
  <2> HIDE DEF masters, dropped, counted
  <2> QED BY <2>1, <2>4, Zenon
<1> HIDE DEF counted
<1> DEFINE g == [s.fl EXCEPT !.frame_count = @ + 1, !.master_addrs_seen = masters]
<1>3. /\ DOMAIN g = Dnp3FlowFields /\ CountsSound(g) /\ SameEvents(s.fl, g) /\ g.frame_count # 0
      /\ g.pending_requests = s.fl.pending_requests /\ g.master_addrs_seen = masters
      /\ g.carry = s.fl.carry /\ g.is_non_dnp3 = s.fl.is_non_dnp3
  BY <1>1 DEF Dnp3FlowFields, CountsSound, SameEvents
<1>14. Counted(s.fl, g, ts)
  <2>1. SameErrors(s.fl, g)
    BY <1>1, Zenon DEF SameErrors, Dnp3FlowFields
  <2> HIDE DEF g
  <2> QED BY <1>1, <2>1, CountedSame
<1>4. /\ DOMAIN counted = WalkFields /\ counted.fl = g /\ AnSound(counted.an)
      /\ counted.an.flows = s.an.flows /\ counted.buf = s.buf /\ counted.processed = s.processed
      /\ counted.done = s.done
  BY <1>1, <1>2 DEF WalkFields, AnSound, Dnp3Fields
<1> HIDE DEF g
<1>5. TablesSound(g) /\ Timely(g, ts)
  BY <1>1, <1>2, <1>3 DEF TablesSound, Timely
<1>6. Sound(counted, ts) /\ Processes(s, counted, ts)
  BY <1>3, <1>4, <1>5, <1>14 DEF Sound, FlowSound, Processes, SameEvents, Latched, BlockLatch, LossLatch
<1>7. Detects(counted, noted, ts)
  <2>1. /\ DOMAIN noted = WalkFields /\ noted.fl = counted.fl /\ AnSound(noted.an)
        /\ noted.an.flows = counted.an.flows /\ noted.buf = counted.buf /\ noted.done = counted.done
        /\ noted.processed = counted.processed /\ noted.tie = counted.tie
    BY <1>4 DEF WalkFields, AnSound, Dnp3Fields
  <2>2. Counted(counted.fl, noted.fl, ts)
    <3> HIDE DEF noted
    <3> QED BY <1>6, <2>1, CountedSame DEF Sound, FlowSound, SameErrors
  <2> HIDE DEF noted
  <2> QED BY <1>6, <2>1, <2>2 DEF Detects, Sound, Kept, SameEvents
<1>8. Detects(noted, app, ts)
  <2> HIDE DEF noted
  <2> QED BY <1>7, UnsolicitedControlSound DEF Detects
<1> HIDE DEF noted, app, known
<1>9. Handles(counted, app, ts)
  BY <1>7, <1>8, DetectsChain, DetectsHandles
<1>10. Processes(s, app, ts)
  BY <1>6, <1>9, ProcessThen
<1>11. Sound(app, ts) /\ app.fl.frame_count # 0
  BY <1>10 DEF Processes
<1>12. /\ Handles(app, ControlFrame(app, f, known, ts), ts) /\ Handles(app, RestartFrame(app), ts)
       /\ Handles(app, DetectWrite(app), ts) /\ Handles(app, ResponseFrame(app, f), ts)
  <2>1. Detects(app, ControlFrame(app, f, known, ts), ts)
    BY <1>11, ControlSound
  <2>2. Detects(app, DetectWrite(app), ts)
    BY <1>11, ReportSound DEF DetectWrite
  <2>3. Detects(app, ResponseFrame(app, f), ts)
    BY <1>11, ResponseSound
  <2>4. Handles(app, RestartFrame(app), ts)
    BY <1>11, RestartSound
  <2> QED BY <2>1, <2>2, <2>3, <2>4, DetectsHandles
<1>13. /\ Processes(s, ControlFrame(app, f, known, ts), ts) /\ Processes(s, RestartFrame(app), ts)
       /\ Processes(s, DetectWrite(app), ts) /\ Processes(s, ResponseFrame(app, f), ts)
  BY <1>10, <1>12, ProcessThen
<1> QED BY <1>0, <1>6, <1>10, <1>13


-----------------------------------------------------------------------------
(* The walk                                                                *)

\* What a round of the walk that starts with s leaves in t.
Walks(s, t, ts) ==
    /\ Sound(t, ts) /\ (Latched(s.fl) => Latched(t.fl)) /\ Counted(s.fl, t.fl, ts)
    /\ t.an.flows = s.an.flows /\ t.fl.carry = s.fl.carry /\ t.fl.is_non_dnp3 = s.fl.is_non_dnp3
    /\ t.buf \in Seq(Dnp3Cells) /\ Len(t.buf) <= Len(s.buf)
    /\ \/ Done(t) /\ AwaitsMore(t.buf)
       \/ Going(t) /\ Len(t.buf) < Len(s.buf)

\* the same without the buffer
Steps(s, t, ts) ==
    /\ Sound(t, ts) /\ (Latched(s.fl) => Latched(t.fl)) /\ Counted(s.fl, t.fl, ts) /\ t.done = s.done
    /\ t.an.flows = s.an.flows /\ t.fl.carry = s.fl.carry /\ t.fl.is_non_dnp3 = s.fl.is_non_dnp3

\* A round ends with what is left of the buffer, and goes on or stops.
LEMMA RoundGoesOn ==
    ASSUME NEW ts, NEW s, NEW t, Steps(s, t, ts), Going(s), s.buf \in Seq(Dnp3Cells),
           NEW b \in Seq(Dnp3Cells), Len(b) < Len(s.buf)
    PROVE  Walks(s, [t EXCEPT !.buf = b], ts)
<1>1. Len(b) \in Nat /\ Len(s.buf) \in Nat
  OBVIOUS
<1> QED BY <1>1 DEF Walks, Steps, Sound, WalkFields, Done, Going

\* A round that stops leaves a buffer that awaits more.
LEMMA RoundStops ==
    ASSUME NEW ts, NEW s, NEW t, Steps(s, t, ts),
           NEW b \in Seq(Dnp3Cells), Len(b) <= Len(s.buf), AwaitsMore(b)
    PROVE  Walks(s, Stop([t EXCEPT !.buf = b]), ts)
BY DEF Walks, Steps, Sound, WalkFields, Done, Going, Stop

\* ... or with the buffer as it was.
LEMMA RoundWaits ==
    ASSUME NEW ts, NEW s, NEW t, Steps(s, t, ts), t.buf = s.buf,
           s.buf \in Seq(Dnp3Cells), AwaitsMore(s.buf)
    PROVE  Walks(s, Stop(t), ts)
<1>1. Len(s.buf) \in Nat
  OBVIOUS
<1> QED BY <1>1 DEF Walks, Steps, Sound, WalkFields, Done, Going, Stop

\* What the resynchronisation leaves of a buffer that is not empty.
LEMMA ResyncShorter ==
    ASSUME NEW c \in Seq(Dnp3Cells), NEW r, c # <<>>,
           r = Resync(c, 2) \/ r = Resync(Rest(c, 1), 1)
    PROVE  /\ r \in Seq(Dnp3Cells) /\ Len(r) < Len(c) /\ Len(r) \in Nat /\ Len(c) \in Nat
           /\ r = <<>> \/ SyncAt(r, 1)
<1>1. Len(c) \in Nat /\ Len(c) > 0
  OBVIOUS
<1>2. CASE r = Resync(c, 2)
  <2>1. r \in Seq(Dnp3Cells) /\ (r = <<>> \/ (SyncAt(r, 1) /\ Len(r) <= Len(c) - 2 + 1))
    BY <1>2, ResyncFacts
  <2> QED BY <1>1, <2>1
<1>3. CASE r = Resync(Rest(c, 1), 1)
  <2>1. PICK e : e = Rest(c, 1)
    OBVIOUS
  <2>2. e \in Seq(Dnp3Cells) /\ Len(e) = Len(c) - 1
    BY <1>1, <2>1, RestFacts
  <2>3. r \in Seq(Dnp3Cells) /\ (r = <<>> \/ (SyncAt(r, 1) /\ Len(r) <= Len(e) - 1 + 1))
    BY <1>3, <2>1, <2>2, ResyncFacts
  <2> QED BY <1>1, <2>2, <2>3
<1> QED BY <1>2, <1>3

\* An error is counted, and may be reported; nothing else changes.
LEMMA MalformedSteps ==
    ASSUME NEW ts, NEW s, Sound(s, ts)
    PROVE  Steps(s, Malformed(s, ts), ts)
<1>1. Detects(s, Malformed(s, ts), ts)
  BY MalformedSound
<1> QED BY <1>1 DEF Steps, Detects, Kept, SameEvents, Latched, BlockLatch, LossLatch

\* Doing nothing is a step.
LEMMA StepsNothing ==
    ASSUME NEW ts, NEW s, Sound(s, ts)
    PROVE  Steps(s, s, ts)
<1>1. Counted(s.fl, s.fl, ts)
  BY CountedSame DEF Sound, FlowSound, SameErrors
<1> QED BY <1>1 DEF Steps

\* With less than a header left the walk stops, and what it leaves awaits more.
LEMMA WalkShortSound ==
    ASSUME NEW ts, NEW s, Sound(s, ts), s.buf \in Seq(Dnp3Cells), Len(s.buf) < LinkHeaderLen
    PROVE  Walks(s, WalkShort(s, ts), ts)
<1> DEFINE c == s.buf
<1>0. Len(c) \in Nat
  OBVIOUS
<1>1. Steps(s, Malformed(s, ts), ts) /\ Steps(s, s, ts)
  BY MalformedSteps, StepsNothing
<1>2. CASE Len(c) >= 2 /\ ~SyncAt(c, 1)
  <2>1. PICK r : r = Resync(c, 2)
    OBVIOUS
  <2>2. /\ r \in Seq(Dnp3Cells) /\ Len(r) < Len(c) /\ Len(r) \in Nat
        /\ r = <<>> \/ SyncAt(r, 1)
    BY <1>2, <2>1, ResyncShorter
  <2>3. AwaitsMore(r) /\ Len(r) <= Len(s.buf)
    BY <1>0, <2>2, Dnp3Assumption DEF AwaitsMore
  <2>4. Walks(s, Stop([Malformed(s, ts) EXCEPT !.buf = r]), ts)
    BY <1>1, <2>2, <2>3, RoundStops
  <2> QED BY <1>2, <2>1, <2>4 DEF WalkShort
<1>3. CASE ~(Len(c) >= 2 /\ ~SyncAt(c, 1)) /\ Len(c) >= 3 /\ s.processed /\ ~LengthOK(c)
  <2>1. PICK r : r = Resync(Rest(c, 1), 1)
    OBVIOUS
  <2>2. /\ r \in Seq(Dnp3Cells) /\ Len(r) < Len(c) /\ Len(r) \in Nat
        /\ r = <<>> \/ SyncAt(r, 1)
    BY <1>3, <2>1, ResyncShorter
  <2>3. AwaitsMore(r) /\ Len(r) <= Len(s.buf)
    BY <1>0, <2>2, Dnp3Assumption DEF AwaitsMore
  <2>4. Walks(s, Stop([Malformed(s, ts) EXCEPT !.buf = r]), ts)
    BY <1>1, <2>2, <2>3, RoundStops
  <2> QED BY <1>3, <2>1, <2>4 DEF WalkShort
<1>4. CASE ~(Len(c) >= 2 /\ ~SyncAt(c, 1)) /\ ~(Len(c) >= 3 /\ s.processed /\ ~LengthOK(c))
  <2>1. AwaitsMore(c)
    BY <1>0, <1>4 DEF AwaitsMore
  <2>2. Walks(s, Stop(s), ts)
    BY <1>1, <2>1, RoundWaits
  <2>3. WalkShort(s, ts) = Stop(s)
    BY <1>4 DEF WalkShort
  <2> QED BY <2>2, <2>3
<1> QED BY <1>2, <1>3, <1>4

\* A round that does not stop consumes at least a byte: every frame has some.
LEMMA WalkFrameSound ==
    ASSUME NEW ts \in Nat, NEW s, Sound(s, ts), s.buf \in Seq(Dnp3Cells), Going(s)
    PROVE  Walks(s, WalkFrame(s, ts), ts)
<1> DEFINE c == s.buf
           f == c[3][1]
           t == [s EXCEPT !.processed = TRUE]
<1>0. Len(c) \in Nat
  OBVIOUS
<1>1. /\ Sound(t, ts) /\ t.buf = c /\ t.done = s.done /\ t.fl = s.fl /\ t.an = s.an
  BY DEF Sound, WalkFields
<1>2. WalkFrame(s, ts) =
        IF Len(c) < LinkHeaderLen THEN WalkShort(s, ts)
        ELSE IF ~SyncAt(c, 1) THEN [Malformed(t, ts) EXCEPT !.buf = Resync(c, 2)]
        ELSE IF ~LengthOK(c) THEN [Malformed(t, ts) EXCEPT !.buf = Resync(Rest(c, 1), 1)]
        ELSE IF Len(c) < f.len THEN Stop(t)
        ELSE [ProcessFrame(t, f, ts) EXCEPT !.buf = Rest(c, f.len)]
  BY Zenon DEF WalkFrame
<1> HIDE DEF t
<1>3. Steps(s, t, ts) /\ Steps(s, Malformed(t, ts), ts) /\ Steps(s, ProcessFrame(t, f, ts), ts)
  <2>1. Steps(t, Malformed(t, ts), ts)
    BY <1>1, MalformedSteps
  <2>2. Processes(t, ProcessFrame(t, f, ts), ts)
    BY <1>1, ProcessFrameSound
  <2>3. Steps(t, t, ts)
    BY <1>1, StepsNothing
  <2> QED BY <1>1, <2>1, <2>2, <2>3, Zenon DEF Steps, Processes
<1>4. CASE Len(c) < LinkHeaderLen
  BY <1>2, <1>4, WalkShortSound
<1>5. CASE ~(Len(c) < LinkHeaderLen)
  <2>0. Len(c) >= 3 /\ c # <<>> /\ c[3] \in Dnp3Cells
    BY <1>0, <1>5, Dnp3Assumption
  <2>1. CASE ~SyncAt(c, 1)
    <3>1. PICK r : r = Resync(c, 2)
      OBVIOUS
    <3>2. r \in Seq(Dnp3Cells) /\ Len(r) < Len(s.buf)
      BY <2>0, <3>1, ResyncShorter
    <3>3. Walks(s, [Malformed(t, ts) EXCEPT !.buf = r], ts)
      BY <1>3, <3>2, RoundGoesOn
    <3> QED BY <1>2, <1>5, <2>1, <3>1, <3>3
  <2>2. CASE SyncAt(c, 1) /\ ~LengthOK(c)
    <3>1. PICK r : r = Resync(Rest(c, 1), 1)
      OBVIOUS
    <3>2. r \in Seq(Dnp3Cells) /\ Len(r) < Len(s.buf)
      BY <2>0, <3>1, ResyncShorter
    <3>3. Walks(s, [Malformed(t, ts) EXCEPT !.buf = r], ts)
      BY <1>3, <3>2, RoundGoesOn
    <3> QED BY <1>2, <1>5, <2>2, <3>1, <3>3
  <2>3. CASE SyncAt(c, 1) /\ LengthOK(c) /\ Len(c) < f.len
    <3>1. AwaitsMore(c)
      BY <1>0, <2>3 DEF AwaitsMore
    <3>2. Walks(s, Stop(t), ts)
      BY <1>1, <1>3, <3>1, RoundWaits
    <3>3. WalkFrame(s, ts) = Stop(t)
      BY <1>2, <1>5, <2>3
    <3> QED BY <3>2, <3>3
  <2>4. CASE SyncAt(c, 1) /\ LengthOK(c) /\ ~(Len(c) < f.len)
    <3>1. f \in Dnp3Frames
      BY <2>0 DEF Dnp3Cells
    <3>2. f.len \in Nat \ {0}
      BY <3>1, Dnp3Assumption DEF Dnp3Frames
    <3>3. PICK n \in 0 .. Len(c) : n = f.len
      BY <1>0, <2>4, <3>2
    <3>4. PICK r : r = Rest(c, f.len)
      OBVIOUS
    <3>5. r \in Seq(Dnp3Cells) /\ Len(r) = Len(c) - n
      BY <3>3, <3>4, RestFacts, Zenon
    <3>6. Len(r) < Len(s.buf)
      BY <1>0, <3>2, <3>3, <3>5, SMTT(30)
    <3>7. Walks(s, [ProcessFrame(t, f, ts) EXCEPT !.buf = r], ts)
      BY <1>3, <3>5, <3>6, RoundGoesOn
    <3>8. WalkFrame(s, ts) = [ProcessFrame(t, f, ts) EXCEPT !.buf = Rest(c, f.len)]
      BY <1>2, <1>5, <2>4
    <3> QED BY <3>4, <3>7, <3>8
  <2> QED BY <2>1, <2>2, <2>3, <2>4
<1> QED BY <1>4, <1>5

\* The state after n rounds; the buffer has lost a byte for each.
Walking(s, t, ts, n) ==
    /\ Sound(t, ts) /\ Latched(t.fl) /\ Counted(s.fl, t.fl, ts)
    /\ t.an.flows = s.an.flows /\ t.fl.carry = s.fl.carry /\ t.fl.is_non_dnp3 = s.fl.is_non_dnp3
    /\ t.buf \in Seq(Dnp3Cells) /\ Len(t.buf) <= Len(s.buf)
    /\ \/ Done(t) /\ AwaitsMore(t.buf)
       \/ Going(t) /\ Len(t.buf) + n <= Len(s.buf)

\* The walk is not both done and going on.
LEMMA DoneOrGoing ==
    ASSUME NEW t
    PROVE  ~(Done(t) /\ Going(t))
BY Zenon DEF Done, Going

\* The walk ends: with a round more than there are bytes it is done.
LEMMA WalkSound ==
    ASSUME NEW ts \in Nat, NEW s, Sound(s, ts), Latched(s.fl), s.buf \in Seq(Dnp3Cells), Going(s),
           NEW t, t = Walk(s, ts, Len(s.buf) + 1)
    PROVE  Walking(s, t, ts, 0) /\ AwaitsMore(t.buf)
<1>0. PICK fuel \in Nat : fuel = Len(s.buf) + 1
  OBVIOUS
<1>1. PICK f : IsWalk(f, s, ts, fuel)
  BY WalkRounds, Zenon
<1> DEFINE T == {n \in 0 .. fuel : ~Walking(s, f[n], ts, n)}
<1>2. T = {}
  <2> SUFFICES ASSUME T # {} PROVE FALSE
    OBVIOUS
  <2>1. PICK m \in T : \A y \in T : m <= y
    <3>1. T \in SUBSET Nat
      OBVIOUS
    <3> HIDE DEF T
    <3> QED BY <3>1, NatMinimum, Zenon
  <2>2. Walking(s, f[0], ts, 0)
    <3>1. Len(s.buf) \in Nat
      OBVIOUS
    <3>3. Counted(s.fl, s.fl, ts)
      BY StepsNothing DEF Steps
    <3>2. Walking(s, s, ts, 0)
      BY <3>1, <3>3, SMTT(30) DEF Walking
    <3> QED BY <1>1, <3>2 DEF IsWalk
  <2>3. m \in 1 .. fuel /\ m - 1 \in 0 .. fuel /\ m - 1 \notin T /\ ~Walking(s, f[m], ts, m)
    BY <2>1, <2>2
  <2>4. PICK u : u = f[m - 1]
    OBVIOUS
  <2>5. Walking(s, u, ts, m - 1)
    BY <2>3, <2>4
  <2> HIDE DEF T
  <2>0. (Done(u) => f[m] = u) /\ (Going(u) => f[m] = WalkFrame(u, ts))
    BY <1>1, <2>3, <2>4 DEF IsWalk
  <2>6. CASE Done(u)
    <3>1. Walking(s, u, ts, m)
      BY <2>5, <2>6, DoneOrGoing DEF Walking
    <3>2. f[m] = u
      BY <2>0, <2>6
    <3> QED BY <2>3, <3>1, <3>2
  <2>7. CASE Going(u)
    <3>1. f[m] = WalkFrame(u, ts)
      BY <2>0, <2>7
    <3>2. Sound(u, ts) /\ u.buf \in Seq(Dnp3Cells) /\ Going(u)
      BY <2>5, <2>7 DEF Walking
    <3>3. PICK v : v = WalkFrame(u, ts)
      OBVIOUS
    <3>4. Walks(u, v, ts)
      BY <3>2, <3>3, WalkFrameSound
    <3>5. Len(u.buf) \in Nat /\ Len(v.buf) \in Nat /\ Len(s.buf) \in Nat
      BY <3>2, <3>4 DEF Walks
    <3>7. Counted(s.fl, v.fl, ts)
      BY <2>5, <3>4, CountedChain DEF Walking, Walks
    <3>6. Walking(s, v, ts, m)
      BY <2>3, <2>5, <2>7, <3>4, <3>5, <3>7, DoneOrGoing, SMTT(30) DEF Walking, Walks
    <3> QED BY <2>3, <3>1, <3>3, <3>6
  <2> QED BY <2>5, <2>6, <2>7 DEF Walking
<1>3. Walking(s, t, ts, fuel)
  BY <1>0, <1>1, <1>2 DEF IsWalk
<1> HIDE DEF T
<1>4. Len(s.buf) \in Nat /\ Len(t.buf) \in Nat
  BY <1>3 DEF Walking
<1>5. ~Going(t)
  <2>1. Going(t) => Len(t.buf) + fuel <= Len(s.buf)
    BY <1>3, DoneOrGoing DEF Walking
  <2>2. PICK p \in Nat, q \in Nat : p = Len(s.buf) /\ q = Len(t.buf)
    BY <1>4
  <2>3. fuel = p + 1 /\ (Going(t) => q + fuel <= p)
    BY <1>0, <2>1, <2>2, Zenon
  <2> QED BY <2>3
<1> QED BY <1>3, <1>4, <1>5 DEF Walking

-----------------------------------------------------------------------------
(* on_data                                                                 *)

\* The carry and the chunk go into the buffer, or what fits of them.
LEMMA AccumulateSound ==
    ASSUME NEW ts, NEW s, Sound(s, ts), Latched(s.fl),
           NEW carry \in Seq(Dnp3Cells), Len(carry) <= MAX_DNP3_FRAME_LEN, NEW data \in Seq(Dnp3Cells),
           NEW t, t = Accumulate(s, carry, data, ts)
    PROVE  /\ Steps(s, t, ts) /\ t.buf \in Seq(Dnp3Cells) /\ Len(t.buf) <= MAX_DNP3_FRAME_LEN
<1> DEFINE room == MAX_DNP3_FRAME_LEN - Len(carry)
<1>0. Len(carry) \in Nat /\ Len(data) \in Nat /\ room \in Nat /\ MAX_DNP3_FRAME_LEN \in Nat
  BY Dnp3Assumption
<1>1. CASE Len(data) > room
  <2>1. PICK c : c = carry \o SubSeq(data, 1, room)
    BY Zenon
  <2>2. c \in Seq(Dnp3Cells) /\ Len(c) = MAX_DNP3_FRAME_LEN
    <3>1. PICK e : e = SubSeq(data, 1, room)
      BY Zenon
    <3>2. e \in Seq(Dnp3Cells) /\ Len(e) = room
      BY <1>0, <1>1, <3>1
    <3> QED BY <1>0, <2>1, <3>1, <3>2
  <2>3. PICK r : r = Resync(c, 1)
    OBVIOUS
  <2>4. r \in Seq(Dnp3Cells) /\ (r = <<>> \/ Len(r) <= Len(c) - 1 + 1)
    BY <2>2, <2>3, ResyncFacts
  <2>5. Len(r) <= MAX_DNP3_FRAME_LEN
    BY <1>0, <2>2, <2>4
  <2>6. t = [Malformed(s, ts) EXCEPT !.buf = r]
    BY <1>1, <2>1, <2>3 DEF Accumulate
  <2>7. Steps(s, Malformed(s, ts), ts)
    BY MalformedSteps
  <2> QED BY <2>4, <2>5, <2>6, <2>7 DEF Steps, Sound, WalkFields
<1>2. CASE ~(Len(data) > room)
  <2>1. PICK c : c = carry \o data
    BY Zenon
  <2>2. c \in Seq(Dnp3Cells) /\ Len(c) <= MAX_DNP3_FRAME_LEN
    BY <1>0, <1>2, <2>1
  <2>3. t = [s EXCEPT !.buf = c]
    BY <1>2, <2>1 DEF Accumulate
  <2>4. Steps(s, s, ts)
    BY StepsNothing
  <2> QED BY <2>2, <2>3, <2>4 DEF Steps, Sound, WalkFields
<1> QED BY <1>1, <1>2

\* a window that has not begun has no errors
Begun(fl) ==
    fl.correlation_window_seeded \/ (fl.malformed_in_window = 0 /\ ~fl.malformed_anomaly_emitted)

\* the errors of the window of the flow fl, or none in a window that begins
Windowed(fl, g) ==
    /\ g.parse_errors = fl.parse_errors /\ g.correlation_window_seeded
    /\ \/ /\ g.correlation_window_start_ts = fl.correlation_window_start_ts
          /\ g.malformed_in_window = fl.malformed_in_window
          /\ g.malformed_anomaly_emitted = fl.malformed_anomaly_emitted
       \/ /\ g.correlation_window_start_ts # fl.correlation_window_start_ts
          /\ g.malformed_in_window = 0 /\ ~g.malformed_anomaly_emitted

\* The windowed fields are reset together, so the latches stay exact.
LEMMA ExpireSound ==
    ASSUME NEW ts \in Nat, NEW fl, FlowSound(fl), Latched(fl), Begun(fl),
           NEW g, g = MaybeExpireCorrelationWindow(fl, ts)
    PROVE  /\ FlowSound(g) /\ Latched(g) /\ Windowed(fl, g)
           /\ g.carry = fl.carry /\ g.is_non_dnp3 = fl.is_non_dnp3
<1>0. DOMAIN fl = Dnp3FlowFields /\ CountsSound(fl) /\ TablesSound(fl)
  BY DEF FlowSound
<1> DEFINE seeded  == [fl EXCEPT !.correlation_window_start_ts = ts, !.correlation_window_seeded = TRUE]
           expired == [fl EXCEPT !.restart_event_count = 0, !.block_event_count = 0,
                                 !.block_finding_emitted_this_window = FALSE,
                                 !.loss_of_control_emitted = FALSE, !.malformed_in_window = 0,
                                 !.malformed_anomaly_emitted = FALSE, !.correlation_window_start_ts = ts]
<1> DEFINE over == Elapsed(ts, fl.correlation_window_start_ts) > CORRELATION_WINDOW_SECS
<1>1. \/ g = seeded /\ ~fl.correlation_window_seeded
      \/ g = expired /\ over /\ fl.correlation_window_seeded
      \/ g = fl /\ fl.correlation_window_seeded
  BY Zenon DEF MaybeExpireCorrelationWindow
<1>5. over => ts # fl.correlation_window_start_ts
  <2> SUFFICES ASSUME ts = fl.correlation_window_start_ts, over PROVE FALSE
    OBVIOUS
  <2>1. Elapsed(ts, ts) = 0
    BY DEF Elapsed
  <2> QED BY <2>1, Dnp3Assumption
<1> HIDE DEF over
<1>2. CASE g = seeded /\ ~fl.correlation_window_seeded
  <2>1. DOMAIN g = Dnp3FlowFields /\ CountsSound(g) /\ Latched(g)
    BY <1>0, <1>2 DEF CountsSound, Dnp3FlowFields, Latched, BlockLatch, LossLatch
  <2>2. TablesSound(g) /\ g.carry = fl.carry /\ g.is_non_dnp3 = fl.is_non_dnp3
    BY <1>0, <1>2 DEF TablesSound, Dnp3FlowFields
  <2>3. Windowed(fl, g)
    <3>1. /\ g.parse_errors = fl.parse_errors /\ g.correlation_window_seeded = TRUE
          /\ g.malformed_in_window = fl.malformed_in_window
          /\ g.malformed_anomaly_emitted = fl.malformed_anomaly_emitted
      BY <1>0, <1>2, Zenon DEF Dnp3FlowFields
    <3> QED BY <1>2, <3>1, Zenon DEF Windowed, Begun
  <2> QED BY <2>1, <2>2, <2>3 DEF FlowSound
<1>3. CASE g = expired /\ over /\ fl.correlation_window_seeded
  <2>1. DOMAIN g = Dnp3FlowFields /\ CountsSound(g) /\ Latched(g)
    BY <1>0, <1>3, Dnp3Assumption DEF CountsSound, Dnp3FlowFields, Latched, BlockLatch, LossLatch
  <2>2. TablesSound(g) /\ g.carry = fl.carry /\ g.is_non_dnp3 = fl.is_non_dnp3
    BY <1>0, <1>3 DEF TablesSound, Dnp3FlowFields
  <2>3. Windowed(fl, g)
    <3>1. /\ g.parse_errors = fl.parse_errors /\ g.malformed_in_window = 0
          /\ g.malformed_anomaly_emitted = FALSE /\ g.correlation_window_start_ts = ts
          /\ g.correlation_window_seeded = fl.correlation_window_seeded
      BY <1>0, <1>3, Zenon DEF Dnp3FlowFields
    <3> QED BY <1>3, <1>5, <3>1, Zenon DEF Windowed
  <2> QED BY <2>1, <2>2, <2>3 DEF FlowSound
<1>4. CASE g = fl /\ fl.correlation_window_seeded
  BY <1>4 DEF Windowed
<1> QED BY <1>1, <1>2, <1>3, <1>4

\* A window that is kept or begins, and the errors of the call in it.
LEMMA WindowCounted ==
    ASSUME NEW ts, NEW fl, NEW e, NEW g, Windowed(fl, e), Counted(e, g, ts)
    PROVE  MalformedCounted(fl, g, ts)
<1>1. CASE e.correlation_window_start_ts = fl.correlation_window_start_ts
  BY <1>1, SMTT(30) DEF Windowed, Counted, MalformedCounted
<1>2. CASE e.correlation_window_start_ts # fl.correlation_window_start_ts
  BY <1>2, SMTT(30) DEF Windowed, Counted, MalformedCounted
<1> QED BY <1>1, <1>2

\* A flow whose errors stay as they were has none to report.
LEMMA MalformedSame ==
    ASSUME NEW ts, NEW f, NEW g, CountsSound(f), SameErrors(f, g)
    PROVE  MalformedCounted(f, g, ts)
<1>1. Counted(f, g, ts)
  BY CountedSame
<1> QED BY <1>1, SMTT(30) DEF SameErrors, Counted, MalformedCounted

\* the carries of a flow between two calls
CarriesSound(fl) ==
    /\ fl.carry \in [Direction -> Seq(Dnp3Cells)]
    /\ \A d \in Direction : Len(fl.carry[d]) <= MAX_DNP3_FRAME_LEN /\ AwaitsMore(fl.carry[d])

\* only a flow without a frame is given up
NotGivenUp(fl) == fl.is_non_dnp3 => fl.frame_count = 0

FlowInv(fl) == FlowSound(fl) /\ Latched(fl) /\ CarriesSound(fl) /\ NotGivenUp(fl) /\ Begun(fl)

\* A flow starts sound.
LEMMA NewFlowInv == FlowInv(NewDnp3Flow)
<1>0. DOMAIN NewDnp3Flow = Dnp3FlowFields
  BY DEF NewDnp3Flow, Dnp3FlowFields
<1>a. /\ NewDnp3Flow.frame_count = 0 /\ NewDnp3Flow.parse_errors = 0
      /\ NewDnp3Flow.malformed_in_window = 0
      /\ NewDnp3Flow.restart_event_count = 0 /\ NewDnp3Flow.block_event_count = 0
      /\ NewDnp3Flow.block_finding_emitted_this_window = FALSE
      /\ NewDnp3Flow.loss_of_control_emitted = FALSE
      /\ NewDnp3Flow.malformed_anomaly_emitted = FALSE /\ NewDnp3Flow.is_non_dnp3 = FALSE
  BY DEF NewDnp3Flow
<1>1. CountsSound(NewDnp3Flow) /\ NotGivenUp(NewDnp3Flow)
  <2>1. /\ NewDnp3Flow.frame_count \in Nat /\ NewDnp3Flow.parse_errors \in Nat
        /\ NewDnp3Flow.malformed_in_window \in Nat
        /\ NewDnp3Flow.restart_event_count \in Nat /\ NewDnp3Flow.block_event_count \in Nat
        /\ NewDnp3Flow.malformed_in_window <= NewDnp3Flow.parse_errors
    BY <1>a
  <2>2. /\ ~NewDnp3Flow.block_finding_emitted_this_window /\ ~NewDnp3Flow.loss_of_control_emitted
        /\ ~NewDnp3Flow.malformed_anomaly_emitted /\ ~NewDnp3Flow.is_non_dnp3
        /\ NewDnp3Flow.block_finding_emitted_this_window \in BOOLEAN
        /\ NewDnp3Flow.loss_of_control_emitted \in BOOLEAN
    BY <1>a, Zenon
  <2> QED BY <2>1, <2>2, ZenonT(30) DEF CountsSound, NotGivenUp
<1>b. BLOCK_CMD_THRESHOLD \in Nat \ {0} /\ T0827_THRESHOLD \in Nat \ {0}
  BY Dnp3Assumption
<1>2. Latched(NewDnp3Flow)
  BY <1>a, <1>b DEF Latched, BlockLatch, LossLatch
<1>3. TablesSound(NewDnp3Flow)
  <2>1. Capped({}, MAX_PENDING_REQUESTS) /\ Capped({}, MAX_MASTER_ADDRS)
    BY FS_EmptySet, Dnp3Assumption DEF Capped
  <2>2. DOMAIN NewDnp3Flow.pending_requests = {} /\ NewDnp3Flow.master_addrs_seen = {}
    BY DEF NewDnp3Flow, Empty
  <2> QED BY <2>1, <2>2 DEF TablesSound
<1>4. CarriesSound(NewDnp3Flow)
  <2>1. NewDnp3Flow.carry = [d \in Direction |-> <<>>]
    BY DEF NewDnp3Flow
  <2>2. <<>> \in Seq(Dnp3Cells) /\ Len(<<>>) = 0 /\ AwaitsMore(<<>>)
    BY DEF AwaitsMore
  <2> QED BY <2>1, <2>2, Dnp3Assumption DEF CarriesSound
<1>5. Begun(NewDnp3Flow)
  BY <1>a, Zenon DEF Begun
<1> QED BY <1>0, <1>1, <1>2, <1>3, <1>4, <1>5, Zenon DEF FlowInv, FlowSound

\* What on_data leaves: the flow in hand is sound, no request of it overdue, and
\* every error counted.
LEMMA OnDataSound ==
    ASSUME NEW ts \in Nat, NEW a, AnSound(a), NEW k, NEW fl, fl = Get(a.flows, k, NewDnp3Flow), FlowInv(fl),
           NEW direction \in Direction, NEW data \in Seq(Dnp3Cells), NEW tie
    PROVE  \E an, g : /\ Dnp3OnData(a, k, direction, data, ts, tie) = [an EXCEPT !.flows = With(a.flows, k, g)]
                      /\ AnSound(an) /\ FlowInv(g) /\ Timely(g, ts) /\ MalformedCounted(fl, g, ts)
<1> DEFINE keep(t) == [t.an EXCEPT !.flows = With(@, k, [t.fl EXCEPT !.carry[direction] = t.buf])]
           start   == [ an |-> a, fl |-> MaybeExpireCorrelationWindow(fl, ts), tie |-> tie,
                        buf |-> <<>>, processed |-> FALSE, done |-> FALSE ]
           scanned == ScanBlockTimeouts(start, ts)
           filled  == Accumulate(scanned, fl.carry[direction], data, ts)
           walked  == Walk(filled, ts, Len(filled.buf) + 1)
<1>0. /\ FlowSound(fl) /\ Latched(fl) /\ CarriesSound(fl) /\ NotGivenUp(fl) /\ Begun(fl)
      /\ DOMAIN fl = Dnp3FlowFields
  BY DEF FlowInv, FlowSound
<1>1. CASE fl.is_non_dnp3 \/ Desynced(fl, data)
  <2> DEFINE g == [fl EXCEPT !.is_non_dnp3 = TRUE]
  <2>1. Dnp3OnData(a, k, direction, data, ts, tie) = [a EXCEPT !.flows = With(a.flows, k, g)]
    BY <1>1, Zenon DEF Dnp3OnData
  <2>2. fl.frame_count = 0
    BY <1>0, <1>1 DEF NotGivenUp, Desynced
  <2>3. /\ DOMAIN g = Dnp3FlowFields /\ CountsSound(g) /\ Latched(g) /\ g.frame_count = 0
        /\ g.carry = fl.carry /\ g.pending_requests = fl.pending_requests
    BY <1>0, <2>2 DEF FlowSound, CountsSound, Dnp3FlowFields, Latched, BlockLatch, LossLatch
  <2>4. TablesSound(g)
    BY <1>0, <2>2 DEF FlowSound, TablesSound, Dnp3FlowFields
  <2>6. SameErrors(fl, g)
    BY <1>0 DEF Dnp3FlowFields, SameErrors
  <2> HIDE DEF g
  <2>7. MalformedCounted(fl, g, ts) /\ Begun(g)
    BY <1>0, <2>6, MalformedSame, Zenon DEF FlowSound, SameErrors, Begun
  <2>5. FlowInv(g) /\ Timely(g, ts)
    BY <1>0, <2>3, <2>4, <2>7, Zenon DEF FlowInv, FlowSound, CarriesSound, NotGivenUp, Timely, TablesSound
  <2> QED BY <2>1, <2>5, <2>7, Zenon
<1>2. CASE ~(fl.is_non_dnp3 \/ Desynced(fl, data))
  <2>1. Dnp3OnData(a, k, direction, data, ts, tie) = keep(walked)
    BY <1>2, Zenon DEF Dnp3OnData, Walk
  <2>2. /\ Started(start) /\ Going(start) /\ start.an = a /\ start.fl.carry = fl.carry
        /\ start.fl.is_non_dnp3 = fl.is_non_dnp3 /\ Windowed(fl, start.fl)
    <3>1. PICK e : e = MaybeExpireCorrelationWindow(fl, ts)
      OBVIOUS
    <3>2. /\ FlowSound(e) /\ Latched(e) /\ Windowed(fl, e)
          /\ e.carry = fl.carry /\ e.is_non_dnp3 = fl.is_non_dnp3
      BY <1>0, <3>1, ExpireSound
    <3> QED BY <3>1, <3>2 DEF Started, Going, WalkFields
  <2> HIDE DEF start
  <2>3. /\ Sound(scanned, ts) /\ Kept(start, scanned) /\ Latched(scanned.fl)
        /\ SameErrors(start.fl, scanned.fl)
    <3>1. PICK u : u = ScanBlockTimeouts(start, ts)
      OBVIOUS
    <3>2. Sound(u, ts) /\ Kept(start, u) /\ Latched(u.fl) /\ SameErrors(start.fl, u.fl)
      BY <2>2, <3>1, ScanSound, ZenonT(30)
    <3> QED BY <3>1, <3>2, Zenon
  <2> HIDE DEF scanned
  <2>4. fl.carry[direction] \in Seq(Dnp3Cells) /\ Len(fl.carry[direction]) <= MAX_DNP3_FRAME_LEN
    BY <1>0 DEF CarriesSound
  <2>5. Steps(scanned, filled, ts) /\ filled.buf \in Seq(Dnp3Cells) /\ Len(filled.buf) <= MAX_DNP3_FRAME_LEN
    BY <2>3, <2>4, AccumulateSound
  <2> HIDE DEF filled
  <2>6. Sound(filled, ts) /\ Latched(filled.fl) /\ Going(filled)
    BY <2>2, <2>3, <2>5 DEF Steps, Kept, Going
  <2>7. Walking(filled, walked, ts, 0) /\ AwaitsMore(walked.buf)
    BY <2>5, <2>6, WalkSound
  <2> HIDE DEF walked
  <2>8. /\ Sound(walked, ts) /\ Latched(walked.fl) /\ walked.an.flows = a.flows
        /\ walked.fl.carry = fl.carry /\ walked.fl.is_non_dnp3 = fl.is_non_dnp3
        /\ walked.buf \in Seq(Dnp3Cells) /\ Len(walked.buf) <= Len(filled.buf)
    BY <2>2, <2>3, <2>5, <2>7, Zenon DEF Walking, Steps, Kept
  <2> DEFINE g == [walked.fl EXCEPT !.carry[direction] = walked.buf]
  <2>9. keep(walked) = [walked.an EXCEPT !.flows = With(a.flows, k, g)]
    <3>1. walked.an.flows = a.flows
      BY <2>8
    <3> QED BY <3>1
  <2>10. /\ DOMAIN walked.fl = Dnp3FlowFields /\ AnSound(walked.an) /\ CountsSound(walked.fl)
         /\ TablesSound(walked.fl) /\ Timely(walked.fl, ts)
    BY <2>8, Zenon DEF Sound, FlowSound
  <2>11. /\ DOMAIN g = Dnp3FlowFields /\ CountsSound(g) /\ Latched(g)
         /\ g.carry = [fl.carry EXCEPT ![direction] = walked.buf]
         /\ SameTables(walked.fl, g) /\ g.frame_count = walked.fl.frame_count
         /\ g.is_non_dnp3 = walked.fl.is_non_dnp3
    BY <2>8, <2>10 DEF CountsSound, Dnp3FlowFields, Latched, BlockLatch, LossLatch, SameTables
  <2>16. SameErrors(walked.fl, g)
    BY <2>10 DEF Dnp3FlowFields, SameErrors
  <2> HIDE DEF g, keep
  <2>17. Counted(start.fl, g, ts)
    <3>1. Counted(start.fl, scanned.fl, ts)
      BY <2>2, <2>3, CountedSame, Zenon DEF Started, FlowSound
    <3>2. Counted(scanned.fl, filled.fl, ts) /\ Counted(filled.fl, walked.fl, ts)
      BY <2>5, <2>7, Zenon DEF Steps, Walking
    <3>3. Counted(walked.fl, g, ts)
      BY <2>10, <2>16, CountedSame
    <3>4. Counted(start.fl, filled.fl, ts)
      BY <3>1, <3>2, CountedChain
    <3>5. Counted(start.fl, walked.fl, ts)
      BY <3>2, <3>4, CountedChain
    <3> QED BY <3>3, <3>5, CountedChain
  <2>18. MalformedCounted(fl, g, ts) /\ Begun(g)
    <3>1. g.correlation_window_seeded
      BY <2>2, <2>17, Zenon DEF Windowed, Counted
    <3> QED BY <2>2, <2>17, <3>1, WindowCounted, Zenon DEF Begun
  <2>12. TablesSound(g) /\ Timely(g, ts)
    BY <2>10, <2>11, SameTablesSound, ZenonT(30)
  <2>13. CarriesSound(g)
    <3>1. Len(walked.buf) \in Nat /\ Len(filled.buf) \in Nat /\ MAX_DNP3_FRAME_LEN \in Nat
      BY <2>5, <2>8, Dnp3Assumption
    <3>2. Len(walked.buf) <= MAX_DNP3_FRAME_LEN
      BY <2>5, <2>8, <3>1
    <3> QED BY <1>0, <2>7, <2>8, <2>11, <3>2, Zenon DEF CarriesSound
  <2>14. NotGivenUp(g)
    BY <1>2, <2>8, <2>11 DEF NotGivenUp
  <2>15. FlowInv(g)
    BY <2>11, <2>12, <2>13, <2>14, <2>18, Zenon DEF FlowInv, FlowSound
  <2> QED BY <2>1, <2>9, <2>10, <2>12, <2>15, <2>18, Zenon
<1> QED BY <1>1, <1>2

-----------------------------------------------------------------------------
(* The byte stream                                                         *)

WireFields == {"frames", "times", "sent"}

WireSound(w) ==
    /\ DOMAIN w = WireFields
    /\ w.times \subseteq Nat
    /\ \A d \in Direction : w.frames[d] \subseteq Dnp3Frames
    /\ w.sent \in [Dnp3Key -> [Direction -> Seq(Dnp3Cells)]]

\* Every frame of a capture has a byte.
LEMMA FrameLen ==
    ASSUME NEW f \in Dnp3Frames
    PROVE  f.len \in Nat \ {0}
BY Dnp3Assumption DEF Dnp3Frames

\* The bytes of a frame are cells.
LEMMA BytesOfFrame ==
    ASSUME NEW f \in Dnp3Frames
    PROVE  Bytes(f) \in Seq(Dnp3Cells) /\ Len(Bytes(f)) = f.len
<1>1. f.len \in Nat
  BY FrameLen
<1>2. \A i \in 1 .. f.len : <<f, i>> \in Dnp3Cells
  BY <1>1 DEF Dnp3Cells
<1> QED BY <1>1, <1>2 DEF Bytes

\* A chunk is made of bytes of frames of the capture, and so is what remains
\* of an unfinished one.
LEMMA ChunkSound ==
    ASSUME NEW partial \in Seq(Dnp3Cells), NEW frames \in SUBSET Dnp3Frames, NEW c \in Chunks(partial, frames)
    PROVE  c.data \in Seq(Dnp3Cells) /\ c.partial \in Seq(Dnp3Cells)
<1> DEFINE current == IF partial = <<>> THEN frames ELSE {partial[1][1]}
           from    == Len(partial)
<1>0. PICK f \in current, g \in frames : \E n \in (from + 1) .. (f.len + g.len) : c = ChunkOf(f, g, from, n)
  BY DEF Chunks
<1>1. PICK n \in (from + 1) .. (f.len + g.len) : c = ChunkOf(f, g, from, n)
  BY <1>0
<1>2. f \in Dnp3Frames /\ g \in Dnp3Frames
  <2>1. CASE partial = <<>>
    BY <1>0, <2>1
  <2>2. CASE partial # <<>>
    <3>1. partial[1] \in Dnp3Cells
      BY <2>2
    <3> QED BY <1>0, <2>2, <3>1 DEF Dnp3Cells
  <2> QED BY <2>1, <2>2
<1>3. f.len \in Nat \ {0} /\ g.len \in Nat \ {0} /\ from \in Nat
  BY <1>2, FrameLen
<1>4. PICK both : both = Bytes(f) \o Bytes(g)
  BY Zenon
<1>5. both \in Seq(Dnp3Cells) /\ Len(both) = f.len + g.len
  <2>1. PICK p \in Seq(Dnp3Cells), q \in Seq(Dnp3Cells) :
            p = Bytes(f) /\ q = Bytes(g) /\ Len(p) = f.len /\ Len(q) = g.len
    BY <1>2, BytesOfFrame
  <2> QED BY <1>4, <2>1
<1>6. PICK i \in Nat, j \in Nat, m \in Nat : i = from + 1 /\ j = f.len + 1 /\ m = n /\ i >= 1 /\ j >= 1 /\ m <= Len(both)
  <2>1. from + 1 \in Nat /\ from + 1 >= 1 /\ f.len + 1 \in Nat /\ f.len + 1 >= 1 /\ f.len + g.len \in Nat
    BY <1>3
  <2>2. n \in Nat /\ n <= Len(both)
    BY <1>1, <1>5, <2>1
  <2> QED BY <2>1, <2>2, Zenon
<1>7. /\ SubSeq(both, i, m) \in Seq(Dnp3Cells) /\ SubSeq(both, 1, m) \in Seq(Dnp3Cells)
      /\ SubSeq(both, j, m) \in Seq(Dnp3Cells) /\ <<>> \in Seq(Dnp3Cells)
  BY <1>5, <1>6
<1>8. /\ c.data = SubSeq(both, i, m)
      /\ c.partial \in {SubSeq(both, 1, m), SubSeq(both, j, m), <<>>}
  BY <1>1, <1>4, <1>6, Zenon DEF ChunkOf
<1> QED BY <1>7, <1>8, Zenon

-----------------------------------------------------------------------------
(* The invariant                                                           *)

Dnp3Inv ==
    /\ AnSound(dn) /\ DOMAIN dn.flows \subseteq Dnp3Key
    /\ \A k \in DOMAIN dn.flows : FlowInv(dn.flows[k]) /\ Timely(dn.flows[k], dnClock[k])
    /\ WireSound(dnWire)
    /\ dnClock \in [Dnp3Key -> Nat]

\* The invariant holds for a new analyzer.
LEMMA Dnp3InitInv == Dnp3Init => Dnp3Inv
<1> SUFFICES ASSUME Dnp3Init PROVE Dnp3Inv
  OBVIOUS
<1>1. AnSound(dn) /\ DOMAIN dn.flows = {}
  <2>1. <<>> \in Seq(Nat) /\ Len(<<>>) = 0
    OBVIOUS
  <2> QED BY <2>1, Dnp3Assumption DEF Dnp3Init, NewDnp3, AnSound, IsSeq, Dnp3Fields, Empty
<1>2. WireSound(dnWire)
  <2>1. PICK c \in Dnp3Capture :
           dnWire = [frames |-> c.frames, times |-> c.times, sent |-> [k \in Dnp3Key |-> NoBytes]]
    BY DEF Dnp3Init, Wires
  <2>2. NoBytes \in [Direction -> Seq(Dnp3Cells)]
    BY DEF NoBytes
  <2>3. \A d \in Direction : c.frames[d] \subseteq Dnp3Frames
    BY DEF Dnp3Frames
  <2> QED BY <2>1, <2>2, <2>3, Dnp3Assumption DEF WireSound, WireFields
<1>3. dnClock \in [Dnp3Key -> Nat]
  BY DEF Dnp3Init
<1> QED BY <1>1, <1>2, <1>3 DEF Dnp3Inv

\* A direction that is cut starts with a new frame.
LEMMA CutSound ==
    ASSUME NEW w, WireSound(w), NEW k \in Dnp3Key
    PROVE  WireSound(Cut(w, k))
<1>1. NoBytes \in [Direction -> Seq(Dnp3Cells)]
  BY DEF NoBytes
<1> QED BY <1>1 DEF WireSound, WireFields, Cut

\* What was sent of an unfinished frame consists of cells.
LEMMA SentSound ==
    ASSUME NEW w, WireSound(w), NEW k \in Dnp3Key, NEW d \in Direction, NEW partial \in Seq(Dnp3Cells)
    PROVE  WireSound(Sent(w, k, d, partial))
<1>1. PICK sent \in [Dnp3Key -> [Direction -> Seq(Dnp3Cells)]] : sent = w.sent
  BY DEF WireSound
<1>2. PICK after : after = [sent EXCEPT ![k][d] = partial]
  BY Zenon
<1>3. after \in [Dnp3Key -> [Direction -> Seq(Dnp3Cells)]]
  BY <1>1, <1>2
<1>4. Sent(w, k, d, partial) = [w EXCEPT !.sent = after]
  BY <1>1, <1>2 DEF Sent, WireSound, WireFields
<1> QED BY <1>3, <1>4 DEF WireSound, WireFields

\* A chunk leaves the flow in hand sound and the others as they were.
LEMMA DataSound ==
    ASSUME Dnp3Inv, NEW k \in Dnp3Key, NEW d \in Direction, Dnp3Data(k, d)
    PROVE  \E g, ts : /\ AnSound(dn') /\ dn'.flows = With(dn.flows, k, g)
                      /\ FlowInv(g) /\ Timely(g, ts)
                      /\ MalformedCounted(Get(dn.flows, k, NewDnp3Flow), g, ts)
                      /\ dnClock' \in [Dnp3Key -> Nat] /\ dnClock'[k] = ts
                      /\ \A l \in Dnp3Key : l # k => dnClock'[l] = dnClock[l]
                      /\ WireSound(dnWire')
<1>0. /\ AnSound(dn) /\ DOMAIN dn.flows \subseteq Dnp3Key /\ WireSound(dnWire)
      /\ \A l \in DOMAIN dn.flows : FlowInv(dn.flows[l]) /\ Timely(dn.flows[l], dnClock[l])
      /\ dnClock \in [Dnp3Key -> Nat]
  BY DEF Dnp3Inv
<1>1. PICK c \in Chunks(dnWire.sent[k][d], dnWire.frames[d]), ts \in dnWire.times,
           tie \in {<<f.dst, f.seq>> : f \in dnWire.frames["ClientToServer"]} :
         /\ dn' = Dnp3OnData(dn, k, d, c.data, ts, tie)
         /\ dnWire' = IF dn'.flows[k].is_non_dnp3
                      THEN Cut(dnWire, k)
                      ELSE Sent(dnWire, k, d, c.partial)
         /\ dnClock' = [dnClock EXCEPT ![k] = ts]
  BY Zenon DEF Dnp3Data
<1>2. ts \in Nat /\ c.data \in Seq(Dnp3Cells) /\ c.partial \in Seq(Dnp3Cells)
  <2>1. PICK partial \in Seq(Dnp3Cells), frames \in SUBSET Dnp3Frames :
            partial = dnWire.sent[k][d] /\ frames = dnWire.frames[d]
    BY <1>0 DEF WireSound
  <2>2. c \in Chunks(partial, frames)
    BY <1>1, <2>1
  <2> QED BY <1>0, <1>1, <2>2, ChunkSound, Zenon DEF WireSound
<1>3. PICK fl : fl = Get(dn.flows, k, NewDnp3Flow)
  OBVIOUS
<1>4. FlowInv(fl)
  BY <1>0, <1>3, NewFlowInv DEF Get
<1>5. PICK an, g : /\ Dnp3OnData(dn, k, d, c.data, ts, tie) = [an EXCEPT !.flows = With(dn.flows, k, g)]
                   /\ AnSound(an) /\ FlowInv(g) /\ Timely(g, ts) /\ MalformedCounted(fl, g, ts)
  <2>1. PICK data \in Seq(Dnp3Cells) : data = c.data
    BY <1>2
  <2>2. \E an, g : /\ Dnp3OnData(dn, k, d, data, ts, tie) = [an EXCEPT !.flows = With(dn.flows, k, g)]
                   /\ AnSound(an) /\ FlowInv(g) /\ Timely(g, ts) /\ MalformedCounted(fl, g, ts)
    BY <1>0, <1>2, <1>3, <1>4, OnDataSound
  <2> QED BY <2>1, <2>2
<1>6. AnSound(dn') /\ dn'.flows = With(dn.flows, k, g)
  BY <1>1, <1>5 DEF AnSound, Dnp3Fields
<1>8. /\ dnClock' \in [Dnp3Key -> Nat] /\ dnClock'[k] = ts
      /\ \A l \in Dnp3Key : l # k => dnClock'[l] = dnClock[l]
  <2>1. dnClock' = [dnClock EXCEPT ![k] = ts]
    BY <1>1, Zenon
  <2> QED BY <1>0, <1>2, <2>1
<1>9. WireSound(dnWire')
  <2>1. WireSound(Cut(dnWire, k)) /\ WireSound(Sent(dnWire, k, d, c.partial))
    BY <1>0, <1>2, CutSound, SentSound
  <2>2. dnWire' = Cut(dnWire, k) \/ dnWire' = Sent(dnWire, k, d, c.partial)
    BY <1>1, Zenon
  <2> QED BY <2>1, <2>2
<1> QED BY <1>3, <1>5, <1>6, <1>8, <1>9

\* A chunk keeps the invariant.
LEMMA DataInv ==
    ASSUME Dnp3Inv, NEW k \in Dnp3Key, NEW d \in Direction, Dnp3Data(k, d)
    PROVE  Dnp3Inv'
<1>0. /\ DOMAIN dn.flows \subseteq Dnp3Key
      /\ \A l \in DOMAIN dn.flows : FlowInv(dn.flows[l]) /\ Timely(dn.flows[l], dnClock[l])
  BY DEF Dnp3Inv
<1>5. PICK g, ts : /\ AnSound(dn') /\ dn'.flows = With(dn.flows, k, g)
                   /\ FlowInv(g) /\ Timely(g, ts)
                   /\ dnClock' \in [Dnp3Key -> Nat] /\ dnClock'[k] = ts
                   /\ \A l \in Dnp3Key : l # k => dnClock'[l] = dnClock[l]
                   /\ WireSound(dnWire')
  BY DataSound, Zenon
<1>7. /\ DOMAIN dn'.flows = DOMAIN dn.flows \cup {k} /\ dn'.flows[k] = g
      /\ \A l \in DOMAIN dn.flows : l # k => dn'.flows[l] = dn.flows[l]
  BY <1>5 DEF With
<1>10. \A l \in DOMAIN dn'.flows : FlowInv(dn'.flows[l]) /\ Timely(dn'.flows[l], dnClock'[l])
  <2> SUFFICES ASSUME NEW l \in DOMAIN dn'.flows
               PROVE  FlowInv(dn'.flows[l]) /\ Timely(dn'.flows[l], dnClock'[l])
    OBVIOUS
  <2>1. CASE l = k
    BY <1>5, <1>7, <2>1
  <2>2. CASE l # k
    <3>1. l \in DOMAIN dn.flows /\ l \in Dnp3Key
      BY <1>0, <1>7, <2>2
    <3>2. dn'.flows[l] = dn.flows[l] /\ dnClock'[l] = dnClock[l]
      BY <1>5, <1>7, <2>2, <3>1
    <3> QED BY <1>0, <3>1, <3>2
  <2> QED BY <2>1, <2>2
<1>11. DOMAIN dn'.flows \subseteq Dnp3Key
  BY <1>0, <1>7
<1> QED BY <1>5, <1>10, <1>11, Zenon DEF Dnp3Inv

\* A chunk counts the errors of the flow in hand and of no other.
LEMMA DataCounted ==
    ASSUME Dnp3Inv, NEW k \in Dnp3Key, NEW d \in Direction, Dnp3Data(k, d)
    PROVE  Dnp3MalformedStep
<1>1. PICK g, ts : /\ dn'.flows = With(dn.flows, k, g) /\ dnClock'[k] = ts
                   /\ MalformedCounted(Get(dn.flows, k, NewDnp3Flow), g, ts)
  BY DataSound, Zenon
<1>2. /\ DOMAIN dn'.flows = DOMAIN dn.flows \cup {k} /\ dn'.flows[k] = g
      /\ \A l \in DOMAIN dn.flows : l # k => dn'.flows[l] = dn.flows[l]
  BY <1>1 DEF With
<1>3. ASSUME NEW l \in DOMAIN dn'.flows
      PROVE  MalformedCounted(Get(dn.flows, l, NewDnp3Flow), dn'.flows[l], dnClock'[l])
  <2>1. CASE l = k
    BY <1>1, <1>2, <2>1, Zenon
  <2>2. CASE l # k
    <3>1. l \in DOMAIN dn.flows
      BY <1>2, <2>2
    <3>2. dn'.flows[l] = dn.flows[l] /\ Get(dn.flows, l, NewDnp3Flow) = dn.flows[l]
      BY <1>2, <2>2, <3>1, Zenon DEF Get
    <3>3. MalformedCounted(dn.flows[l], dn.flows[l], dnClock'[l])
      BY <3>1, MalformedSame DEF Dnp3Inv, FlowInv, FlowSound, SameErrors
    <3> QED BY <3>2, <3>3, Zenon
  <2> QED BY <2>1, <2>2
<1> QED BY <1>3, Zenon DEF Dnp3MalformedStep

\* A close takes the flow away and changes no other.
LEMMA CloseInv ==
    ASSUME Dnp3Inv, NEW k \in Dnp3Key, Dnp3Close(k)
    PROVE  Dnp3Inv'
<1>0. /\ AnSound(dn) /\ DOMAIN dn.flows \subseteq Dnp3Key /\ WireSound(dnWire)
      /\ \A l \in DOMAIN dn.flows : FlowInv(dn.flows[l]) /\ Timely(dn.flows[l], dnClock[l])
      /\ dnClock \in [Dnp3Key -> Nat] /\ dnClock' = dnClock
  BY DEF Dnp3Inv, Dnp3Close
<1>1. AnSound(dn') /\ dn'.flows = Without(dn.flows, k)
  <2>1. DOMAIN dn = Dnp3Fields /\ k \in DOMAIN dn.flows /\ dn' = Dnp3OnFlowClose(dn, k)
    BY <1>0 DEF AnSound, Dnp3Close
  <2> QED BY <1>0, <2>1 DEF Dnp3OnFlowClose, AnSound, Dnp3Fields
<1>2. /\ DOMAIN dn'.flows = DOMAIN dn.flows \ {k}
      /\ \A l \in DOMAIN dn'.flows : dn'.flows[l] = dn.flows[l]
  BY <1>1 DEF Without
<1>3. WireSound(dnWire')
  BY <1>0, CutSound DEF Dnp3Close
<1>4. DOMAIN dn'.flows \subseteq Dnp3Key
  BY <1>0, <1>2
<1>5. \A l \in DOMAIN dn'.flows : FlowInv(dn'.flows[l]) /\ Timely(dn'.flows[l], dnClock'[l])
  BY <1>0, <1>2
<1>6. dnClock' \in [Dnp3Key -> Nat]
  BY <1>0
<1> QED BY <1>1, <1>3, <1>4, <1>5, <1>6, Zenon DEF Dnp3Inv

\* A close counts no error.
LEMMA CloseCounted ==
    ASSUME Dnp3Inv, NEW k \in Dnp3Key, Dnp3Close(k)
    PROVE  Dnp3MalformedStep
<1>1. DOMAIN dn = Dnp3Fields /\ k \in DOMAIN dn.flows /\ dn' = Dnp3OnFlowClose(dn, k)
  BY DEF Dnp3Inv, AnSound, Dnp3Close
<1>2. dn'.flows = Without(dn.flows, k)
  BY <1>1 DEF Dnp3OnFlowClose, Dnp3Fields
<1>3. ASSUME NEW l \in DOMAIN dn'.flows
      PROVE  MalformedCounted(Get(dn.flows, l, NewDnp3Flow), dn'.flows[l], dnClock'[l])
  <2>1. l \in DOMAIN dn.flows /\ dn'.flows[l] = dn.flows[l]
    BY <1>2 DEF Without
  <2>2. MalformedCounted(dn.flows[l], dn.flows[l], dnClock'[l])
    BY <2>1, MalformedSame DEF Dnp3Inv, FlowInv, FlowSound, SameErrors
  <2> QED BY <2>1, <2>2, Zenon DEF Get
<1> QED BY <1>3, Zenon DEF Dnp3MalformedStep

\* Every step keeps the invariant.
LEMMA Dnp3StepInv == Dnp3Inv /\ [Dnp3Next]_dnVars => Dnp3Inv'
<1> SUFFICES ASSUME Dnp3Inv, [Dnp3Next]_dnVars PROVE Dnp3Inv'
  OBVIOUS
<1>1. CASE UNCHANGED dnVars
  BY <1>1 DEF dnVars, Dnp3Inv
<1>2. CASE Dnp3Next
  <2>1. PICK k \in Dnp3Key : Dnp3Close(k) \/ \E d \in Direction : Dnp3Data(k, d)
    BY <1>2 DEF Dnp3Next
  <2> QED BY <2>1, CloseInv, DataInv
<1> QED BY <1>1, <1>2

\* Every step counts the errors it meets.
LEMMA Dnp3StepCounted == Dnp3Inv /\ [Dnp3Next]_dnVars => [Dnp3MalformedStep]_dnVars
<1> SUFFICES ASSUME Dnp3Inv, Dnp3Next PROVE Dnp3MalformedStep
  OBVIOUS
<1>1. PICK k \in Dnp3Key : Dnp3Close(k) \/ \E d \in Direction : Dnp3Data(k, d)
  BY DEF Dnp3Next
<1> QED BY <1>1, CloseCounted, DataCounted

\* The inductive invariant holds in every reachable state of the analyzer.
THEOREM Dnp3Invariant == Dnp3Spec => []Dnp3Inv
BY Dnp3InitInv, Dnp3StepInv, PTL DEF Dnp3Spec

-----------------------------------------------------------------------------
(* The properties                                                          *)

\* The invariant has every request in time.
LEMMA Dnp3InvNoOverdue == Dnp3Inv => Dnp3NoOverdueRequest
BY DEF Dnp3Inv, Timely, Dnp3NoOverdueRequest

\* The invariant has every table within its cap.
LEMMA Dnp3InvTypeOK == Dnp3Inv => Dnp3TypeOK
<1> SUFFICES ASSUME Dnp3Inv PROVE Dnp3TypeOK
  OBVIOUS
<1>1. Len(dn.all_findings) <= MAX_FINDINGS /\ DOMAIN dn.flows \subseteq Dnp3Key
  BY DEF Dnp3Inv, AnSound
<1>2. ASSUME NEW k \in DOMAIN dn.flows
      PROVE  CarriesSound(dn.flows[k]) /\ TablesSound(dn.flows[k])
  BY DEF Dnp3Inv, FlowInv, FlowSound
<1>3. ASSUME NEW k \in DOMAIN dn.flows
      PROVE  /\ \A d \in Direction : Len(dn.flows[k].carry[d]) <= MAX_DNP3_FRAME_LEN
             /\ Cardinality(DOMAIN dn.flows[k].pending_requests) <= MAX_PENDING_REQUESTS
             /\ Cardinality(dn.flows[k].master_addrs_seen) <= MAX_MASTER_ADDRS
  BY <1>2 DEF CarriesSound, TablesSound, Capped
<1> QED BY <1>1, <1>3, Zenon DEF Dnp3TypeOK

\* The invariant has every carry awaiting more bytes.
LEMMA Dnp3InvAwaits == Dnp3Inv => Dnp3CarryAwaitsMore
BY Zenon DEF Dnp3Inv, FlowInv, CarriesSound, AwaitsMore, Dnp3CarryAwaitsMore

\* The invariant has no flow with a frame given up.
LEMMA Dnp3InvEstablished == Dnp3Inv => Dnp3EstablishedKept
BY Zenon DEF Dnp3Inv, FlowInv, NotGivenUp, Dnp3EstablishedKept

\* A latch implies its count, and the count its latch: together they are equal.
LEMMA Dnp3InvLatches == Dnp3Inv => Dnp3LatchesExact
<1> SUFFICES ASSUME Dnp3Inv, NEW k \in DOMAIN dn.flows, NEW fl, fl = dn.flows[k]
             PROVE  /\ fl.block_finding_emitted_this_window
                          = (fl.block_event_count >= BLOCK_CMD_THRESHOLD)
                    /\ fl.loss_of_control_emitted
                          = (fl.restart_event_count + fl.block_event_count >= T0827_THRESHOLD)
                    /\ fl.malformed_anomaly_emitted
                          => fl.malformed_in_window >= MALFORMED_ANOMALY_THRESHOLD
                    /\ fl.malformed_in_window <= fl.parse_errors
  BY DEF Dnp3LatchesExact
<1>1. CountsSound(fl) /\ Latched(fl)
  BY DEF Dnp3Inv, FlowInv, FlowSound
<1> QED BY <1>1, SMTT(30) DEF CountsSound, Latched, BlockLatch, LossLatch

\* After a chunk no pending request is older than the timeout: scan_block_timeouts
\* runs before the frames of the chunk, and a chunk that is turned away belongs to
\* a flow that has no request.
THEOREM Dnp3NoneOverdue == Dnp3Spec => []Dnp3NoOverdueRequest
BY Dnp3Invariant, Dnp3InvNoOverdue, PTL

\* Carries, pending requests, masters and findings keep to their caps, whatever
\* the frames and however they are cut.
THEOREM Dnp3TablesCapped == Dnp3Spec => []Dnp3TypeOK
BY Dnp3Invariant, Dnp3InvTypeOK, PTL

\* What the frame walk leaves in a carry is the start of an incomplete frame.
THEOREM Dnp3CarriesAwait == Dnp3Spec => []Dnp3CarryAwaitsMore
BY Dnp3Invariant, Dnp3InvAwaits, PTL

\* is_non_dnp3 is only ever set on a flow without a frame.
THEOREM Dnp3Established == Dnp3Spec => []Dnp3EstablishedKept
BY Dnp3Invariant, Dnp3InvEstablished, PTL

\* The latches of blocked commands and of loss of control are set exactly while
\* the counts of the window have reached their thresholds.
THEOREM Dnp3Latches == Dnp3Spec => []Dnp3LatchesExact
BY Dnp3Invariant, Dnp3InvLatches, PTL

\* Every structural error of a chunk is counted once in the correlation window that
\* maybe_expire_correlation_window leaves, and the latch of check_malformed_anomaly
\* is set exactly if it was in that window or an error of the chunk reached the
\* threshold with less than the window elapsed.
THEOREM Dnp3Malformed == Dnp3Spec => Dnp3MalformedExact
BY Dnp3Invariant, Dnp3StepCounted, PTL DEF Dnp3Spec, Dnp3MalformedExact

=============================================================================
