------------------------------- MODULE Modbus -------------------------------
(***************************************************************************)
(* The Modbus/TCP analyzer of src/analyzer/modbus.rs: the carry buffers    *)
(* that put ADUs together from reassembled chunks, the table of pending    *)
(* transactions, and the windowed detectors of process_pdu.                *)
(*                                                                         *)
(* An ADU is a frame with the fields valid (the 3-point gate of            *)
(* is_valid_modbus_adu), id (the pair of transaction and unit identifier), *)
(* fc (the function code) and arg (what follows the function code, or -1   *)
(* where the ADU ends there).  last_ts is left out: it is never read.      *)
(***************************************************************************)
EXTENDS StreamAnalysis

CONSTANTS
    ModbusKey,                  \* flow keys
    ModbusCapture,              \* captures: the ADUs and timestamps that occur
    MbapLen,                    \* bytes of a header that can be parsed: 8
    MAX_ADU_CARRY_BYTES,        \* 260
    MAX_PENDING_TRANSACTIONS,   \* 256
    T0831_WINDOW_SECS,          \* 5
    WRITE_BURST_WINDOW_SECS,    \* 1
    WRITE_SUSTAINED_WINDOW_SECS,\* 2
    EXCEPTION_WINDOW_SECS,      \* 10
    EXCEPTION_RATE_THRESHOLD,   \* 5
    write_burst_threshold,      \* 20 unless configured
    write_sustained_threshold,  \* 10 unless configured
    MaxModbusPdus               \* bound of the model: ADUs analyzed or refused

VARIABLES
    mb,         \* the analyzer
    mbWire      \* the capture, and what has been sent of unfinished ADUs

mbVars == <<mb, mbWire>>

-----------------------------------------------------------------------------
(* Function codes                                                          *)

ClassifyFc(fc) ==
    CASE fc >= 128 -> "Exception"
      [] fc \in {5, 6, 15, 16, 21, 22, 23} -> "Write"
      [] fc \in {8, 43} -> "Diagnostic"
      [] fc \in {1, 2, 3, 4, 7, 11, 12, 17, 20, 24} -> "Read"
      [] OTHER -> "Unknown"

RegisterWrite == {6, 16, 22, 23}

-----------------------------------------------------------------------------
(* Per-flow state                                                          *)

FreshWindow == [start |-> 0, count |-> 0, emitted |-> FALSE]

NewModbusFlow ==
    [ pending |-> Empty, write_count |-> 0, exception_count |-> 0, pdu_count |-> 0,
      burst |-> FreshWindow, sustained |-> FreshWindow, t0831 |-> FreshWindow,
      exceptions |-> Empty, is_non_modbus |-> FALSE,
      carry |-> [d \in Direction |-> <<>>] ]

\* Faulty variant: the table grows one entry past its cap.
InsertRequestOneMore(fl, id, fc, ts) ==
    IF id \notin DOMAIN fl.pending /\ Cardinality(DOMAIN fl.pending) > MAX_PENDING_TRANSACTIONS
    THEN fl
    ELSE [fl EXCEPT !.pending = With(@, id, <<fc, ts>>)]

\* insert_request: an entry is overwritten, but never displaced by another
InsertRequest(fl, id, fc, ts) ==
    IF id \notin DOMAIN fl.pending /\ Cardinality(DOMAIN fl.pending) >= MAX_PENDING_TRANSACTIONS
    THEN fl
    ELSE [fl EXCEPT !.pending = With(@, id, <<fc, ts>>)]

MatchResponse(fl, id) == [fl EXCEPT !.pending = Without(@, id)]

\* attribute_exception closes a pair only when the function codes agree
AttributeException(fl, id, exception_fc) ==
    IF id \in DOMAIN fl.pending /\ fl.pending[id][1] = exception_fc % 128
    THEN [fl EXCEPT !.pending = Without(@, id)]
    ELSE fl

-----------------------------------------------------------------------------
(* Detection windows.  Each step returns the window and whether it fires.  *)

Opened(ts) == [start |-> ts, count |-> 1, emitted |-> FALSE]

\* count first, then compare; a window that has expired starts over silently
CountInWindow(w, ts, secs, limit) ==
    LET count == w.count + 1
        fires == count > limit /\ ~w.emitted
    IN  IF Elapsed(ts, w.start) > secs
        THEN [win |-> Opened(ts), fires |-> FALSE]
        ELSE [win |-> [w EXCEPT !.count = count, !.emitted = @ \/ fires], fires |-> fires]

\* The sustained detector compares an average, and restarts at its 2-second
\* mark whether or not it fired.
CountSustained(w, ts) ==
    LET count   == w.count + 1
        elapsed == Elapsed(ts, w.start)
        mature  == elapsed >= WRITE_SUSTAINED_WINDOW_SECS
    IN  IF w.count = 0 \/ mature
        THEN [win   |-> Opened(ts),
              fires |-> /\ w.count # 0 /\ ~w.emitted
                        /\ count > write_sustained_threshold * elapsed]
        ELSE [win |-> [w EXCEPT !.count = count], fires |-> FALSE]

-----------------------------------------------------------------------------
(* process_pdu.  s is the pair of the analyzer and the flow in hand.       *)

\* findings of either direction: device identification and unknown codes
ReconFindings(pdu) ==
    When(pdu.fc = 17 \/ (pdu.fc = 43 /\ pdu.arg = 14), "recon")
    \o When(ClassifyFc(pdu.fc) = "Unknown", "unknown")

CountPdu(s, pdu) ==
    [ an |-> [s.an EXCEPT !.total_flows_analyzed = @ + (IF s.fl.pdu_count = 0 THEN 1 ELSE 0),
                          !.total_pdu_count = @ + 1,
                          !.fn_code_counts = With(@, pdu.fc, Get(@, pdu.fc, 0) + 1)],
      fl |-> [s.fl EXCEPT !.pdu_count = @ + 1] ]

RegisterRequest(s, pdu, ts) ==
    LET known == pdu.id \in DOMAIN s.fl.pending
        full  == Cardinality(DOMAIN s.fl.pending) >= MAX_PENDING_TRANSACTIONS
    IN  [ an |-> [s.an EXCEPT !.dropped_transactions = @ + (IF ~known /\ full THEN 1 ELSE 0),
                              !.duplicate_inflight_txn = @ + (IF known THEN 1 ELSE 0)],
          fl |-> InsertRequest(s.fl, pdu.id, pdu.fc, ts) ]

\* the write finding, co-tagged T0831 by the second register write of a window,
\* then the burst and the sustained detector
WriteRequest(s, pdu, ts) ==
    LET register  == pdu.fc \in RegisterWrite
        t0831     == IF register THEN CountInWindow(s.fl.t0831, ts, T0831_WINDOW_SECS, 1)
                     ELSE [win |-> s.fl.t0831, fires |-> FALSE]
        burst     == CountInWindow(s.fl.burst, ts, WRITE_BURST_WINDOW_SECS, write_burst_threshold)
        sustained == CountSustained(s.fl.sustained, ts)
    IN  [ an |-> [s.an EXCEPT !.total_write_count = @ + 1],
          fl |-> [s.fl EXCEPT !.write_count = @ + 1, !.t0831 = t0831.win,
                              !.burst = burst.win, !.sustained = sustained.win],
          found |-> <<IF t0831.fires THEN "coordinated write" ELSE "write">>
                    \o When(burst.fires, "burst") \o When(sustained.fires, "sustained") ]

DiagnosticFindings(pdu) ==
    When(pdu.fc = 8 /\ pdu.arg \in {1, 4}, "denial of service")
    \o When(pdu.fc = 8 /\ pdu.arg = 10, "anti-forensic")

\* The start of a window is seeded by the first exception of its code.
ExceptionResponse(s, pdu, ts) ==
    LET code == IF pdu.arg = -1 THEN 255 ELSE pdu.arg
        win  == Get(s.fl.exceptions, code, [FreshWindow EXCEPT !.start = ts])
        next == CountInWindow(win, ts, EXCEPTION_WINDOW_SECS, EXCEPTION_RATE_THRESHOLD)
        fl   == AttributeException(s.fl, pdu.id, pdu.fc)
    IN  [ an |-> [s.an EXCEPT !.total_exception_count = @ + 1],
          fl |-> [fl EXCEPT !.exception_count = @ + 1,
                            !.exceptions = With(@, code, next.win)],
          found |-> When(next.fires, "exception burst") ]

ModbusProcessPdu(s, direction, pdu, ts) ==
    LET class   == ClassifyFc(pdu.fc)
        counted == CountPdu(s, pdu)
        asked   == IF class = "Exception" THEN counted ELSE RegisterRequest(counted, pdu, ts)
        quiet(t, found) == [an |-> t.an, fl |-> t.fl, found |-> found]
        result  ==
            IF direction = "ClientToServer"
            THEN CASE class = "Write" -> WriteRequest(asked, pdu, ts)
                   [] class = "Diagnostic" -> quiet(asked, DiagnosticFindings(pdu))
                   [] OTHER -> quiet(asked, <<>>)
            ELSE IF class = "Exception" THEN ExceptionResponse(counted, pdu, ts)
                 ELSE quiet([counted EXCEPT !.fl = MatchResponse(@, pdu.id)], <<>>)
    IN  [an |-> Push(result.an, ReconFindings(pdu) \o result.found), fl |-> result.fl]

-----------------------------------------------------------------------------
(* on_data and on_flow_close                                               *)

\* The tail that is not yet an ADU goes to the carry of its direction.  The cap
\* is compared with the carry that was emptied when the call began.
Stash(s, direction, tail) ==
    IF Len(s.fl.carry[direction]) + Len(tail) > MAX_ADU_CARRY_BYTES
    THEN [s EXCEPT !.fl.is_non_modbus = TRUE, !.an.parse_errors = @ + 1]
    ELSE [s EXCEPT !.fl.carry[direction] = @ \o tail]

\* An impossible header: the stream is not Modbus, and nothing of it is kept.
GiveUp(s) ==
    [s EXCEPT !.fl.is_non_modbus = TRUE, !.an.parse_errors = @ + 1,
              !.fl.carry = [d \in Direction |-> <<>>]]

\* One round of the walk over buf: the header of the ADU at the front is read,
\* checked, and the ADU analyzed if all of it is there.
WalkAdu(s, direction, ts) ==
    LET stopped(t) == [an |-> t.an, fl |-> t.fl, buf |-> <<>>]
        pdu == s.buf[1][1]
    IN  IF Len(s.buf) < MbapLen THEN stopped(Stash(s, direction, s.buf))
        ELSE IF ~pdu.valid THEN stopped(GiveUp(s))
        ELSE IF Len(s.buf) < pdu.len THEN stopped(Stash(s, direction, s.buf))
        ELSE LET t == ModbusProcessPdu(s, direction, pdu, ts)
             IN  [an |-> t.an, fl |-> t.fl, buf |-> Rest(s.buf, pdu.len)]

\* Faulty variant: a flow that was given up is analyzed again.
ModbusOnDataNoBail(a, k, direction, data, ts) ==
    LET fl   == Get(a.flows, k, NewModbusFlow)
        buf  == fl.carry[direction] \o data
        s    == [an |-> a, fl |-> [fl EXCEPT !.carry[direction] = <<>>], buf |-> buf]
        done == Loop(LAMBDA t : WalkAdu(t, direction, ts), LAMBDA t : t.buf = <<>>, s, Len(buf))
    IN  [done.an EXCEPT !.flows = With(@, k, done.fl)]

ModbusOnData(a, k, direction, data, ts) ==
    LET fl   == Get(a.flows, k, NewModbusFlow)
        buf  == fl.carry[direction] \o data
        s    == [an |-> a, fl |-> [fl EXCEPT !.carry[direction] = <<>>], buf |-> buf]
        done == Loop(LAMBDA t : WalkAdu(t, direction, ts), LAMBDA t : t.buf = <<>>, s, Len(buf))
    IN  IF fl.is_non_modbus THEN [a EXCEPT !.flows = With(@, k, fl)]
        ELSE [done.an EXCEPT !.flows = With(@, k, done.fl)]

ModbusOnFlowClose(a, k) == [a EXCEPT !.flows = Without(@, k)]

NewModbus ==
    [ duplicate_inflight_txn |-> 0, total_pdu_count |-> 0, total_write_count |-> 0,
      total_exception_count |-> 0, parse_errors |-> 0, fn_code_counts |-> Empty,
      all_findings |-> <<>>, dropped_findings |-> 0, dropped_transactions |-> 0,
      total_flows_analyzed |-> 0, flows |-> Empty ]

ModbusInit ==
    /\ mb = NewModbus
    /\ mbWire \in Wires(ModbusCapture, ModbusKey)

\* A chunk is delivered.  An ADU that began before the flow was given up is
\* not followed any further.
ModbusData(k, d) ==
    /\ mb.total_pdu_count + mb.parse_errors < MaxModbusPdus
    /\ \E c \in Chunks(mbWire.sent[k][d], mbWire.frames[d]), ts \in mbWire.times :
          /\ mb' = ModbusOnData(mb, k, d, c.data, ts)
          /\ mbWire' = IF mb'.flows[k].is_non_modbus THEN Cut(mbWire, k)
                       ELSE Sent(mbWire, k, d, c.partial)

ModbusClose(k) ==
    /\ k \in DOMAIN mb.flows
    /\ mb' = ModbusOnFlowClose(mb, k)
    /\ mbWire' = Cut(mbWire, k)

ModbusNext == \E k \in ModbusKey : ModbusClose(k) \/ \E d \in Direction : ModbusData(k, d)

ModbusSpec == ModbusInit /\ [][ModbusNext]_mbVars

-----------------------------------------------------------------------------
\* The analyzer's counters and tables have their types, and every table of a
\* flow keeps to its cap: carries within one ADU, pending within 256.
ModbusTypeOK ==
    /\ mb.total_pdu_count \in Nat
    /\ mb.parse_errors \in Nat
    /\ Len(mb.all_findings) <= MAX_FINDINGS
    /\ DOMAIN mb.flows \subseteq ModbusKey
    /\ \A k \in DOMAIN mb.flows :
          /\ Cardinality(DOMAIN mb.flows[k].pending) <= MAX_PENDING_TRANSACTIONS
          /\ \A d \in Direction : Len(mb.flows[k].carry[d]) < MAX_ADU_CARRY_BYTES

\* However the stream is cut, a carry holds exactly the bytes sent of the ADU
\* that is not complete: no byte is lost, kept twice, or put with the other
\* direction, and a flow that was given up holds none.
ModbusCarryExact ==
    \A k \in DOMAIN mb.flows : mb.flows[k].carry = mbWire.sent[k]

\* A detector is latched exactly while its window holds more events than its
\* threshold: it fires once per window, on the event that crosses, however the
\* clock jumps, and is armed again by the window that follows.
ModbusLatchesExact ==
    \A k \in DOMAIN mb.flows :
        LET fl == mb.flows[k]
        IN  /\ fl.burst.emitted = (fl.burst.count > write_burst_threshold)
            /\ fl.t0831.emitted = (fl.t0831.count > 1)
            /\ ~fl.sustained.emitted
            /\ \A c \in DOMAIN fl.exceptions :
                  fl.exceptions[c].emitted = (fl.exceptions[c].count > EXCEPTION_RATE_THRESHOLD)

\* Every write PDU has its finding: in the list until the cap is reached, and
\* from then on in dropped_findings, which counts nothing before.
ModbusWritesReported ==
    IF mb.dropped_findings = 0
    THEN mb.total_write_count =
             Cardinality({i \in DOMAIN mb.all_findings :
                             mb.all_findings[i] \in {"write", "coordinated write"}})
    ELSE /\ Len(mb.all_findings) = MAX_FINDINGS
         /\ mb.total_write_count <= MAX_FINDINGS + mb.dropped_findings

\* Requests enter the table and answers leave it: no chunk does both, so a full
\* table never loses a pending request to a new one (drop, not evict).
ModbusPendingStep ==
    \A k \in DOMAIN mb.flows \cap DOMAIN mb'.flows :
        \/ DOMAIN mb.flows[k].pending \subseteq DOMAIN mb'.flows[k].pending
        \/ DOMAIN mb'.flows[k].pending \subseteq DOMAIN mb.flows[k].pending

ModbusPendingNotEvicted == [][ModbusPendingStep]_mbVars

\* A flow that was found not to be Modbus stays as it is until it closes: no
\* later chunk of either direction brings a finding, a count or a byte back.
ModbusGivenUpStep ==
    \A k \in DOMAIN mb.flows \cap DOMAIN mb'.flows :
        mb.flows[k].is_non_modbus => mb'.flows[k] = mb.flows[k]

ModbusGivenUpForGood == [][ModbusGivenUpStep]_mbVars
=============================================================================
