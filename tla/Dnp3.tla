-------------------------------- MODULE Dnp3 --------------------------------
(***************************************************************************)
(* The DNP3 analyzer of src/analyzer/dnp3.rs: the capped carry buffers and *)
(* the frame walk with its resynchronisation, the pending control requests *)
(* and their timeouts, and the detectors that share a correlation window.  *)
(*                                                                         *)
(* A frame has the fields sync (it begins with the sync word), goodLen     *)
(* (its LENGTH is at least 5), app (it carries user data with FIR set),    *)
(* master (the DIR bit), src, dst, seq and fc.  The first two bytes are    *)
(* the sync word, the third the LENGTH; fc and seq are in byte AppByte.  A *)
(* byte read out of its place is neither of these.  The fc_counts of a     *)
(* flow are left out: they are never read.                                 *)
(***************************************************************************)
EXTENDS StreamAnalysis

CONSTANTS
    Dnp3Key,                        \* flow keys
    Dnp3Capture,                    \* captures: the frames and timestamps that occur
    LinkHeaderLen,                  \* bytes of a link header: 10
    AppByte,                        \* the byte that tells the application function: 13
    MAX_DNP3_FRAME_LEN,             \* 292
    MAX_PENDING_REQUESTS,           \* 256
    MAX_MASTER_ADDRS,               \* 64
    MALFORMED_ANOMALY_THRESHOLD,    \* 3
    CORRELATION_WINDOW_SECS,        \* 300
    BLOCK_CMD_TIMEOUT_SECS,         \* 10
    BLOCK_CMD_THRESHOLD,            \* 3
    T0827_THRESHOLD,                \* 3
    DETECTION_WINDOW_SECS,          \* 60
    direct_operate_threshold,       \* 10 unless configured
    MaxDnp3Events                   \* bound of the model: frames, errors and closes

ASSUME Dnp3Assumption ==
    /\ MAX_FINDINGS \in Nat
    /\ LinkHeaderLen \in Nat /\ LinkHeaderLen >= 3
    /\ MAX_DNP3_FRAME_LEN \in Nat /\ MAX_PENDING_REQUESTS \in Nat \ {0} /\ MAX_MASTER_ADDRS \in Nat
    /\ MALFORMED_ANOMALY_THRESHOLD \in Nat /\ CORRELATION_WINDOW_SECS \in Nat
    /\ BLOCK_CMD_TIMEOUT_SECS \in Nat
    /\ BLOCK_CMD_THRESHOLD \in Nat \ {0} /\ T0827_THRESHOLD \in Nat \ {0}
    /\ \A c \in Dnp3Capture :
          /\ c.times \subseteq Nat
          /\ \A d \in Direction : \A f \in c.frames[d] : f.len \in Nat \ {0}

VARIABLES
    dn,         \* the analyzer
    dnWire,     \* the capture, and what has been sent of unfinished frames
    dnClock     \* per flow, the timestamp of the last chunk

dnVars == <<dn, dnWire, dnClock>>

-----------------------------------------------------------------------------
(* Function codes and addresses                                            *)

ClassifyDnp3Fc(fc) ==
    CASE fc = 1 -> "Read"
      [] fc = 2 -> "Write"
      [] fc \in 3 .. 6 -> "Control"
      [] fc \in {0} \cup 7 .. 12 \cup 15 .. 26 -> "Management"
      [] fc \in {13, 14} -> "Restart"
      [] fc \in 129 .. 131 -> "Response"
      [] OTHER -> "Unknown"

IsBroadcastDestination(dst) == dst >= 65533

-----------------------------------------------------------------------------
(* The carry                                                               *)

SyncAt(c, i) ==
    /\ i < Len(c)
    /\ c[i][1].sync /\ c[i][2] = 1
    /\ c[i + 1] = <<c[i][1], 2>>

\* Faulty variant: without a sync word the bytes stay.
ResyncKeeping(c, from) ==
    LET syncs == {i \in from .. Len(c) : SyncAt(c, i)}
    IN  IF syncs = {} THEN c ELSE Rest(c, (CHOOSE i \in syncs : \A j \in syncs : i <= j) - 1)

\* the bytes from the first sync word at or after byte from, or none at all
Resync(c, from) ==
    LET syncs == {i \in from .. Len(c) : SyncAt(c, i)}
    IN  IF syncs = {} THEN <<>>
        ELSE Rest(c, (CHOOSE i \in syncs : \A j \in syncs : i <= j) - 1)

\* compute_dnp3_frame_len has a value for the third byte of c
LengthOK(c) == c[3][2] = 3 /\ c[3][1].goodLen

\* the application layer of the frame at the head of c is in its place
AppOf(c, f) == f.app /\ f.len >= AppByte /\ c[AppByte] = <<f, AppByte>>

-----------------------------------------------------------------------------
(* Per-flow state and the correlation window                               *)

NewDnp3Flow ==
    [ carry |-> [d \in Direction |-> <<>>], is_non_dnp3 |-> FALSE, frame_count |-> 0,
      parse_errors |-> 0, direct_operate_count |-> 0, window_start_ts |-> 0,
      direct_operate_emitted |-> FALSE, master_addrs_seen |-> {},
      restart_event_count |-> 0, block_event_count |-> 0, pending_requests |-> Empty,
      block_finding_emitted_this_window |-> FALSE, loss_of_control_emitted |-> FALSE,
      correlation_window_start_ts |-> 0, correlation_window_seeded |-> FALSE,
      malformed_in_window |-> 0, malformed_anomaly_emitted |-> FALSE,
      enable_unsolicited_seen |-> FALSE, response_seen |-> FALSE,
      unsolicited_anomaly_emitted |-> FALSE, unexpected_source_emitted |-> FALSE ]

\* Faulty variant: the latch of loss of control survives its window.
MaybeExpireKeepingLatch(fl, ts) ==
    IF ~fl.correlation_window_seeded
    THEN [fl EXCEPT !.correlation_window_start_ts = ts, !.correlation_window_seeded = TRUE]
    ELSE IF Elapsed(ts, fl.correlation_window_start_ts) > CORRELATION_WINDOW_SECS
    THEN [fl EXCEPT !.restart_event_count = 0, !.block_event_count = 0,
                    !.block_finding_emitted_this_window = FALSE,
                    !.malformed_in_window = 0,
                    !.malformed_anomaly_emitted = FALSE, !.correlation_window_start_ts = ts]
    ELSE fl

\* The six windowed fields are reset together, and parse_errors is not.
MaybeExpireCorrelationWindow(fl, ts) ==
    IF ~fl.correlation_window_seeded
    THEN [fl EXCEPT !.correlation_window_start_ts = ts, !.correlation_window_seeded = TRUE]
    ELSE IF Elapsed(ts, fl.correlation_window_start_ts) > CORRELATION_WINDOW_SECS
    THEN [fl EXCEPT !.restart_event_count = 0, !.block_event_count = 0,
                    !.block_finding_emitted_this_window = FALSE,
                    !.loss_of_control_emitted = FALSE, !.malformed_in_window = 0,
                    !.malformed_anomaly_emitted = FALSE, !.correlation_window_start_ts = ts]
    ELSE fl

-----------------------------------------------------------------------------
(* Detectors.  s holds the analyzer, the flow in hand and the tie-breaker. *)

MaybeEmitT0827(s) ==
    IF s.fl.restart_event_count + s.fl.block_event_count >= T0827_THRESHOLD
       /\ ~s.fl.loss_of_control_emitted
    THEN [Report(s, "loss of control") EXCEPT !.fl.loss_of_control_emitted = TRUE]
    ELSE s

\* Faulty variant: a request that timed out is counted and stays.
ScanBlockTimeoutsKeeping(s, ts) ==
    LET pending == s.fl.pending_requests
    IN  [s EXCEPT !.fl.block_event_count =
             @ + Cardinality({r \in DOMAIN pending :
                                 Elapsed(ts, pending[r]) > BLOCK_CMD_TIMEOUT_SECS})]

\* Requests without an answer are given up, and counted, before the chunk is
\* looked at.
ScanBlockTimeouts(s, ts) ==
    LET pending  == s.fl.pending_requests
        timedOut == {r \in DOMAIN pending : Elapsed(ts, pending[r]) > BLOCK_CMD_TIMEOUT_SECS}
        scanned  == [s EXCEPT !.fl.pending_requests =
                                  [r \in DOMAIN pending \ timedOut |-> pending[r]],
                              !.fl.block_event_count = @ + Cardinality(timedOut)]
        blocked  == IF scanned.fl.block_event_count >= BLOCK_CMD_THRESHOLD
                       /\ ~scanned.fl.block_finding_emitted_this_window
                    THEN [Report(scanned, "blocked command")
                             EXCEPT !.fl.block_finding_emitted_this_window = TRUE]
                    ELSE scanned
    IN  IF timedOut = {} THEN blocked ELSE MaybeEmitT0827(blocked)

\* a structural error: both counters, then check_malformed_anomaly
Malformed(s, ts) ==
    LET t == [s EXCEPT !.fl.parse_errors = @ + 1, !.fl.malformed_in_window = @ + 1]
    IN  IF /\ t.fl.malformed_in_window >= MALFORMED_ANOMALY_THRESHOLD
           /\ ~t.fl.malformed_anomaly_emitted
           /\ Elapsed(ts, t.fl.correlation_window_start_ts) < CORRELATION_WINDOW_SECS
        THEN [Report(t, "malformed frames") EXCEPT !.fl.malformed_anomaly_emitted = TRUE]
        ELSE t

\* A full table gives up its oldest request, which is never counted as blocked.
\* Of several oldest the map's iteration order decides: tie prefers one.
InsertPendingRequest(s, request, ts) ==
    LET pending == s.fl.pending_requests
        full    == /\ Cardinality(DOMAIN pending) >= MAX_PENDING_REQUESTS
                   /\ request \notin DOMAIN pending
        minimal == {r \in DOMAIN pending : \A q \in DOMAIN pending : pending[r] <= pending[q]}
        oldest  == IF s.tie \in minimal THEN s.tie ELSE CHOOSE r \in minimal : TRUE
    IN  IF full
        THEN [s EXCEPT !.fl.pending_requests = With(Without(@, oldest), request, ts),
                       !.an.pending_requests_evicted = @ + 1]
        ELSE [s EXCEPT !.fl.pending_requests = With(@, request, ts)]

DetectControlClassBurst(s, ts) ==
    LET fl    == s.fl
        count == fl.direct_operate_count + 1
        start == IF count = 1 THEN ts ELSE fl.window_start_ts
        fires == /\ count > direct_operate_threshold
                 /\ ~fl.direct_operate_emitted
                 /\ Elapsed(ts, start) <= DETECTION_WINDOW_SECS
        seen  == [s EXCEPT !.fl.direct_operate_count = count, !.fl.window_start_ts = start,
                           !.fl.direct_operate_emitted = @ \/ fires]
    IN  IF fl.direct_operate_count > 0 /\ Elapsed(ts, fl.window_start_ts) > DETECTION_WINDOW_SECS
        THEN [s EXCEPT !.fl.direct_operate_count = 1, !.fl.window_start_ts = ts,
                       !.fl.direct_operate_emitted = FALSE]
        ELSE IF fires THEN Report(seen, "control burst") ELSE seen

DetectUnexpectedSource(s) ==
    IF s.fl.unexpected_source_emitted THEN s
    ELSE [Report(s, "unexpected source") EXCEPT !.fl.unexpected_source_emitted = TRUE]

DetectBroadcastAnomaly(s) == Report(s, "broadcast control")

DetectWrite(s) == Report(s, "write")

\* known: what was known of the masters before this frame was recorded
ControlFrame(s, f, known, ts) ==
    LET broadcast == IF IsBroadcastDestination(f.dst) THEN DetectBroadcastAnomaly(s) ELSE s
        source    == IF f.master /\ known # {} /\ f.src \notin known
                     THEN DetectUnexpectedSource(broadcast) ELSE broadcast
        pending   == IF f.fc = 6 THEN source ELSE InsertPendingRequest(source, <<f.dst, f.seq>>, ts)
    IN  DetectControlClassBurst(pending, ts)

RestartFrame(s) ==
    MaybeEmitT0827([Report(s, "restart") EXCEPT !.fl.restart_event_count = @ + 1])

DetectUnsolicitedAnomaly(s, f) ==
    LET fl == s.fl
    IN  CASE f.fc = 129 -> [s EXCEPT !.fl.response_seen = TRUE]
          [] /\ f.fc = 130
             /\ ~fl.enable_unsolicited_seen /\ ~fl.response_seen
             /\ ~fl.unsolicited_anomaly_emitted ->
               [Report(s, "unsolicited response") EXCEPT !.fl.unsolicited_anomaly_emitted = TRUE]
          [] OTHER -> s

\* A response answers the request that went to its sender.
ResponseFrame(s, f) ==
    LET t == DetectUnsolicitedAnomaly(s, f)
    IN  IF f.fc = 129 THEN [t EXCEPT !.fl.pending_requests = Without(@, <<f.src, f.seq>>)] ELSE t

\* detect_unsolicited_control looks at the raw function code
UnsolicitedControl(s, f) ==
    CASE f.fc = 21 -> Report(s, "disable unsolicited")
      [] f.fc = 20 -> Report([s EXCEPT !.fl.enable_unsolicited_seen = TRUE], "enable unsolicited")
      [] OTHER -> s

-----------------------------------------------------------------------------
(* The frame walk, over the carry s.buf of the active direction            *)

\* a frame that passed the gates: counted, its master recorded, and detected on
\* if it is the first fragment of an application message
ProcessFrame(s, f, ts) ==
    LET known   == s.fl.master_addrs_seen
        unseen  == f.master /\ f.src \notin known
        room    == Cardinality(known) < MAX_MASTER_ADDRS
        counted == [s EXCEPT !.fl.frame_count = @ + 1,
                             !.fl.master_addrs_seen = IF unseen /\ room THEN @ \cup {f.src} ELSE @,
                             !.an.master_addrs_dropped = @ + (IF unseen /\ ~room THEN 1 ELSE 0)]
        app     == UnsolicitedControl([counted EXCEPT !.an.fn_code_counts =
                                                          With(@, f.fc, Get(@, f.fc, 0) + 1)], f)
    IN  IF ~AppOf(s.buf, f) THEN counted
        ELSE CASE ClassifyDnp3Fc(f.fc) = "Control" -> ControlFrame(app, f, known, ts)
               [] ClassifyDnp3Fc(f.fc) = "Restart" -> RestartFrame(app)
               [] ClassifyDnp3Fc(f.fc) = "Write" -> DetectWrite(app)
               [] ClassifyDnp3Fc(f.fc) = "Response" -> ResponseFrame(app, f)
               [] OTHER -> app

\* Fewer bytes than a header: junk is an error, and so is an impossible LENGTH
\* left over by this call; anything else waits for more.
WalkShort(s, ts) ==
    LET c == s.buf
    IN  IF Len(c) >= 2 /\ ~SyncAt(c, 1)
        THEN Stop([Malformed(s, ts) EXCEPT !.buf = Resync(c, 2)])
        ELSE IF Len(c) >= 3 /\ s.processed /\ ~LengthOK(c)
        THEN Stop([Malformed(s, ts) EXCEPT !.buf = Resync(Rest(c, 1), 1)])
        ELSE Stop(s)

\* One round of the walk.  The sync gate and the LENGTH gate skip to the next
\* sync word, an incomplete frame ends the walk.
WalkFrame(s, ts) ==
    LET c == s.buf
        f == c[3][1]
        t == [s EXCEPT !.processed = TRUE]
    IN  IF Len(c) < LinkHeaderLen THEN WalkShort(s, ts)
        ELSE IF ~SyncAt(c, 1) THEN [Malformed(t, ts) EXCEPT !.buf = Resync(c, 2)]
        ELSE IF ~LengthOK(c) THEN [Malformed(t, ts) EXCEPT !.buf = Resync(Rest(c, 1), 1)]
        ELSE IF Len(c) < f.len THEN Stop(t)
        ELSE [ProcessFrame(t, f, ts) EXCEPT !.buf = Rest(c, f.len)]

-----------------------------------------------------------------------------
(* on_data and on_flow_close                                               *)

\* Bytes past the cap of the carry are thrown away, as one error.
Accumulate(s, carry, data, ts) ==
    LET room == MAX_DNP3_FRAME_LEN - Len(carry)
    IN  IF Len(data) > room
        THEN [Malformed(s, ts) EXCEPT !.buf = Resync(carry \o SubSeq(data, 1, room), 1)]
        ELSE [s EXCEPT !.buf = carry \o data]

\* no frame yet, nothing carried, and the first bytes are not the sync word
Desynced(fl, data) ==
    /\ fl.frame_count = 0
    /\ \A d \in Direction : fl.carry[d] = <<>>
    /\ Len(data) >= 2 /\ ~SyncAt(data, 1)

Dnp3OnData(a, k, direction, data, ts, tie) ==
    LET fl      == Get(a.flows, k, NewDnp3Flow)
        keep(t) == [t.an EXCEPT !.flows = With(@, k, [t.fl EXCEPT !.carry[direction] = t.buf])]
        start   == [ an |-> a, fl |-> MaybeExpireCorrelationWindow(fl, ts), tie |-> tie,
                     buf |-> <<>>, processed |-> FALSE, done |-> FALSE ]
        filled  == Accumulate(ScanBlockTimeouts(start, ts), fl.carry[direction], data, ts)
    IN  IF fl.is_non_dnp3 \/ Desynced(fl, data)
        THEN [a EXCEPT !.flows = With(@, k, [fl EXCEPT !.is_non_dnp3 = TRUE])]
        ELSE keep(Loop(LAMBDA t : WalkFrame(t, ts), LAMBDA t : t.done,
                       filled, Len(filled.buf) + 1))

\* What the flow counted is folded into the aggregates before it goes.
Dnp3OnFlowClose(a, k) ==
    IF k \notin DOMAIN a.flows THEN a
    ELSE [a EXCEPT !.flows = Without(@, k),
                   !.total_frames_closed = @ + a.flows[k].frame_count,
                   !.parse_errors_closed = @ + a.flows[k].parse_errors,
                   !.closed_flow_direct_operates =
                       Append(@, <<k, a.flows[k].direct_operate_count>>),
                   !.closed_flows_count = @ + 1]

NewDnp3 ==
    [ flows |-> Empty, fn_code_counts |-> Empty, all_findings |-> <<>>, dropped_findings |-> 0,
      master_addrs_dropped |-> 0, pending_requests_evicted |-> 0, closed_flows_count |-> 0,
      total_frames_closed |-> 0, parse_errors_closed |-> 0, closed_flow_direct_operates |-> <<>> ]

\* the aggregates of summarize: what closed flows left and what open ones hold
Dnp3Summarize(a) ==
    [ flows_analyzed |-> a.closed_flows_count + Cardinality(DOMAIN a.flows),
      total_frames   |-> a.total_frames_closed + SumOver(a.flows, LAMBDA fl : fl.frame_count),
      parse_errors   |-> a.parse_errors_closed + SumOver(a.flows, LAMBDA fl : fl.parse_errors),
      control_operation_counts |->
          [k \in Dnp3Key |->
              SelectSeq(a.closed_flow_direct_operates, LAMBDA e : e[1] = k)
              \o When(k \in DOMAIN a.flows, <<k, a.flows[k].direct_operate_count>>)] ]

Dnp3Init ==
    /\ dn = NewDnp3
    /\ dnWire \in Wires(Dnp3Capture, Dnp3Key)
    /\ dnClock = [k \in Dnp3Key |-> 0]

Dnp3Data(k, d) ==
    /\ LET sum == Dnp3Summarize(dn)
       IN  sum.total_frames + sum.parse_errors + dn.closed_flows_count < MaxDnp3Events
    /\ \E c \in Chunks(dnWire.sent[k][d], dnWire.frames[d]), ts \in dnWire.times,
          tie \in {<<f.dst, f.seq>> : f \in dnWire.frames["ClientToServer"]} :
          /\ dn' = Dnp3OnData(dn, k, d, c.data, ts, tie)
          /\ dnWire' = IF dn'.flows[k].is_non_dnp3
                       THEN Cut(dnWire, k)
                       ELSE Sent(dnWire, k, d, c.partial)
          /\ dnClock' = [dnClock EXCEPT ![k] = ts]

Dnp3Close(k) ==
    /\ k \in DOMAIN dn.flows
    /\ dn' = Dnp3OnFlowClose(dn, k)
    /\ dnWire' = Cut(dnWire, k)
    /\ UNCHANGED dnClock

Dnp3Next == \E k \in Dnp3Key : Dnp3Close(k) \/ \E d \in Direction : Dnp3Data(k, d)

Dnp3Spec == Dnp3Init /\ [][Dnp3Next]_dnVars

-----------------------------------------------------------------------------
\* The tables of a flow keep to their caps: carry, pending requests, masters.
Dnp3TypeOK ==
    /\ Len(dn.all_findings) <= MAX_FINDINGS
    /\ DOMAIN dn.flows \subseteq Dnp3Key
    /\ \A k \in DOMAIN dn.flows :
          /\ \A d \in Direction : Len(dn.flows[k].carry[d]) <= MAX_DNP3_FRAME_LEN
          /\ Cardinality(DOMAIN dn.flows[k].pending_requests) <= MAX_PENDING_REQUESTS
          /\ Cardinality(dn.flows[k].master_addrs_seen) <= MAX_MASTER_ADDRS

\* After every call a carry waits for more bytes: it is a single byte, or begins
\* with the sync word of a frame that is not complete.  So it always has room
\* for the next chunk, and no resynchronisation leaves a flow stuck on junk.
Dnp3CarryAwaitsMore ==
    \A k \in DOMAIN dn.flows, d \in Direction :
        LET c == dn.flows[k].carry[d]
        IN  \/ Len(c) <= 1
            \/ SyncAt(c, 1) /\ Len(c) < LinkHeaderLen
            \/ SyncAt(c, 1) /\ LengthOK(c) /\ Len(c) < c[3][1].len

\* A flow that has carried a frame is never given up as not being DNP3, whatever
\* comes later from either side.
Dnp3EstablishedKept ==
    \A k \in DOMAIN dn.flows : dn.flows[k].is_non_dnp3 => dn.flows[k].frame_count = 0

\* The detectors of the correlation window agree with the counts they look at.
\* Blocked commands and loss of control have been reported exactly if their count,
\* or the two counts combined, reached the threshold in this window, in whatever
\* order restarts, timeouts and expiry of the window came.  Malformed frames are
\* reported only with a count that reached its threshold, and the count is of
\* errors that parse_errors has; Dnp3MalformedExact says when they are reported.
Dnp3LatchesExact ==
    \A k \in DOMAIN dn.flows :
        LET fl == dn.flows[k]
        IN  /\ fl.block_finding_emitted_this_window
                  = (fl.block_event_count >= BLOCK_CMD_THRESHOLD)
            /\ fl.loss_of_control_emitted
                  = (fl.restart_event_count + fl.block_event_count >= T0827_THRESHOLD)
            /\ fl.malformed_anomaly_emitted
                  => fl.malformed_in_window >= MALFORMED_ANOMALY_THRESHOLD
            /\ fl.malformed_in_window <= fl.parse_errors

\* What a chunk at time ts makes of the errors of a flow: those of an older window
\* are forgotten, the new ones are added, and they are reported if there are new
\* ones, the threshold is reached and less than the window has passed.
MalformedCounted(old, new, ts) ==
    LET same   == new.correlation_window_start_ts = old.correlation_window_start_ts
        errors == new.parse_errors - old.parse_errors
    IN  /\ new.malformed_in_window = (IF same THEN old.malformed_in_window ELSE 0) + errors
        /\ new.malformed_anomaly_emitted <=>
              \/ same /\ old.malformed_anomaly_emitted
              \/ /\ errors > 0
                 /\ new.malformed_in_window >= MALFORMED_ANOMALY_THRESHOLD
                 /\ Elapsed(ts, new.correlation_window_start_ts) < CORRELATION_WINDOW_SECS

Dnp3MalformedStep ==
    \A k \in DOMAIN dn'.flows :
        MalformedCounted(Get(dn.flows, k, NewDnp3Flow), dn'.flows[k], dnClock'[k])

\* Every structural error is counted in the window it falls in, once, and a chunk
\* sets the latch of malformed frames exactly if check_malformed_anomaly is to fire
\* on one of its errors.  maybe_expire_correlation_window keeps the window at an
\* elapsed time equal to its length, where the detector is silent already.
Dnp3MalformedExact == [][Dnp3MalformedStep]_dnVars

\* dnp3.rs, check_malformed_anomaly: "When `malformed_in_window >=
\* MALFORMED_ANOMALY_THRESHOLD && !malformed_anomaly_emitted`: pushes one
\* `Finding`".  So no flow is left with the one and without the other.
MalformedReported ==
    \A k \in DOMAIN dn.flows :
        dn.flows[k].malformed_in_window >= MALFORMED_ANOMALY_THRESHOLD
            => dn.flows[k].malformed_anomaly_emitted

\* A request that is still pending after a chunk was not overdue when the chunk
\* came: every timeout is found by the first chunk after it, in either direction.
Dnp3NoOverdueRequest ==
    \A k \in DOMAIN dn.flows :
        \A r \in DOMAIN dn.flows[k].pending_requests :
            Elapsed(dnClock[k], dn.flows[k].pending_requests[r]) <= BLOCK_CMD_TIMEOUT_SECS

\* What summarize reports never goes back, in particular not when a flow closes.
Dnp3TotalsStep ==
    LET before == Dnp3Summarize(dn)
        after  == Dnp3Summarize(dn)'
    IN  /\ after.flows_analyzed >= before.flows_analyzed
        /\ after.total_frames >= before.total_frames
        /\ after.parse_errors >= before.parse_errors
        /\ \A k \in Dnp3Key : Len(after.control_operation_counts[k])
                                  >= Len(before.control_operation_counts[k])

Dnp3TotalsKept == [][Dnp3TotalsStep]_dnVars
=============================================================================
