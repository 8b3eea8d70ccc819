-------------------------------- MODULE Enip --------------------------------
(***************************************************************************)
(* The EtherNet/IP analyzer of src/analyzer/enip.rs: the byte walk over    *)
(* encapsulation frames, the queue of PDUs it leaves, the CIP services     *)
(* found in them, and the windows of the three rate detectors.             *)
(*                                                                         *)
(* A frame has the fields command, total (24 + its LENGTH field), cpf (the *)
(* bytes after the CPF item count, -1 if the PDU ends before it) and items *)
(* (the CPF items it declares).  An item has type_id, len, service, status *)
(* (its third byte, read of responses) and path (pairs of segment type and *)
(* value).  A header read out of its place has no known command.  The      *)
(* counter bytes_received is left out: nothing in the program reads it.    *)
(***************************************************************************)
EXTENDS StreamAnalysis

CONSTANTS
    EnipKey,                        \* flow keys
    EnipCapture,                    \* captures: the frames and timestamps that occur
    EnipHeaderLen,                  \* bytes of an encapsulation header: 24
    MAX_ENIP_CARRY_BYTES,           \* 600
    ENIP_MALFORMED_THRESHOLD,       \* MALFORMED_ANOMALY_THRESHOLD: 3
    EnipMalformedWindow,            \* 300 s
    EnipErrorWindow,                \* 10 s
    EnipWriteWindow,                \* 1 s
    enip_write_burst_threshold,     \* as configured
    enip_error_burst_threshold,     \* as configured
    MaxEnipEvents                   \* bound of the model: PDUs, errors and closes

VARIABLES
    en,         \* the analyzer
    enWire      \* the capture, and what has been sent of unfinished frames

enVars == <<en, enWire>>

-----------------------------------------------------------------------------
(* Codes                                                                   *)

ClassifyEnipCommand(command) ==
    CASE command = 4 -> "ListServices"
      [] command = 99 -> "ListIdentity"
      [] command = 100 -> "ListInterfaces"
      [] command = 101 -> "RegisterSession"
      [] command = 102 -> "UnRegisterSession"
      [] command = 111 -> "SendRRData"
      [] command = 112 -> "SendUnitData"
      [] command = 114 -> "IndicateStatus"
      [] command = 117 -> "Cancel"
      [] OTHER -> "Unknown"

\* The classes the detectors tell apart: MultipleServicePacket and GetAndClear
\* are treated as unknown services are.
ClassifyCipService(service) ==
    CASE service >= 128 -> "Response"
      [] service \in {1, 3, 14} -> "GetAttribute"
      [] service \in {2, 4, 16} -> "SetAttribute"
      [] service = 5 -> "Reset"
      [] service = 7 -> "Stop"
      [] service \in {84, 91} -> "ForwardOpen"
      [] service = 78 -> "ForwardClose"
      [] OTHER -> "Unknown"

\* parse_cpf_items: items up to the first that does not fit
CpfItems(f) ==
    LET end[i \in 0 .. Len(f.items)] == IF i = 0 THEN 0 ELSE end[i - 1] + 4 + f.items[i].len
    IN  SelectSeq([i \in 1 .. Len(f.items) |-> <<i, f.items[i]>>],
                  LAMBDA p : end[p[1]] <= f.cpf)

\* parse_cip_header has a value: the path the item declares is in the item
CipHeaderOK(item) == item.len >= 2 + 2 * Len(item.path)

\* parse_cip_request_path finds Class(0x01)
TargetsIdentity(item) == \E i \in DOMAIN item.path : item.path[i] = <<32, 1>>

-----------------------------------------------------------------------------
(* Detectors.  A latch closes only when its finding has been taken.        *)

NewEnipFlow ==
    [ error_counts_in_window |-> Empty, error_window_start_ts |-> 0,
      error_window_active |-> FALSE, error_rate_emitted |-> FALSE,
      list_identity_emitted |-> FALSE, is_non_enip |-> FALSE, command_counts |-> Empty,
      pdu_count |-> 0, parse_errors |-> 0, malformed_in_window |-> 0,
      carry |-> NoBytes, write_count_in_window |-> 0, write_burst_emitted |-> FALSE,
      write_window_start_ts |-> 0, open_connection_count |-> 0, close_connection_count |-> 0,
      malformed_anomaly_emitted |-> FALSE, malformed_window_start_ts |-> 0 ]

CheckT0814(s) ==
    IF /\ s.fl.malformed_in_window >= ENIP_MALFORMED_THRESHOLD
       /\ ~s.fl.malformed_anomaly_emitted
       /\ ~s.fl.is_non_enip
    THEN [Report(s, "malformed frames") EXCEPT !.fl.malformed_anomaly_emitted = Room(s)]
    ELSE s

EnipMalformed(s) ==
    CheckT0814([s EXCEPT !.fl.parse_errors = @ + 1, !.fl.malformed_in_window = @ + 1])

ListIdentity(s) ==
    IF s.fl.list_identity_emitted THEN s
    ELSE [Report(s, "list identity") EXCEPT !.fl.list_identity_emitted = Room(s)]

\* a response with an error status, of any service
CipError(s, status, ts) ==
    LET fl      == s.fl
        expired == /\ fl.error_window_active
                   /\ Elapsed(ts, fl.error_window_start_ts) > EnipErrorWindow
        counts  == IF expired THEN Empty ELSE fl.error_counts_in_window
        counted == [s EXCEPT
            !.fl.error_counts_in_window = With(counts, status, Get(counts, status, 0) + 1),
            !.fl.error_window_start_ts = IF expired \/ ~fl.error_window_active THEN ts ELSE @,
            !.fl.error_window_active = TRUE,
            !.fl.error_rate_emitted = @ /\ ~expired,
            !.an.error_count = @ + 1]
        total   == SumOver(counted.fl.error_counts_in_window, LAMBDA n : n)
    IN  IF total > enip_error_burst_threshold /\ ~counted.fl.error_rate_emitted
        THEN [Report(counted, "error burst") EXCEPT !.fl.error_rate_emitted = Room(s)]
        ELSE counted

CipWrite(s, ts) ==
    LET fl      == s.fl
        expired == /\ fl.write_count_in_window > 0
                   /\ Elapsed(ts, fl.write_window_start_ts) > EnipWriteWindow
        count   == IF expired THEN 1 ELSE fl.write_count_in_window + 1
        counted == [s EXCEPT !.fl.write_count_in_window = count,
                             !.fl.write_window_start_ts = IF count = 1 THEN ts ELSE @,
                             !.fl.write_burst_emitted = @ /\ ~expired,
                             !.an.write_count = @ + 1]
    IN  IF count > enip_write_burst_threshold /\ ~counted.fl.write_burst_emitted
        THEN [Report(counted, "write burst") EXCEPT !.fl.write_burst_emitted = Room(s)]
        ELSE counted

CipItem(s, item, ts) ==
    LET class == ClassifyCipService(item.service)
    IN  CASE item.type_id # 178 \/ ~CipHeaderOK(item) -> s
          [] class = "Response" ->
               IF item.len >= 4 /\ item.status # 0 THEN CipError(s, item.status, ts) ELSE s
          [] class = "GetAttribute" ->
               IF TargetsIdentity(item) THEN Report(s, "identity read") ELSE s
          [] class = "SetAttribute" -> CipWrite(s, ts)
          [] class \in {"Stop", "Reset"} -> Report(s, class)
          [] class = "ForwardOpen" ->
               Report([s EXCEPT !.fl.open_connection_count = @ + 1], "forward open")
          [] class = "ForwardClose" ->
               Report([s EXCEPT !.fl.close_connection_count = @ + 1], "forward close")
          [] OTHER -> s

EnipProcessPdu(s, f, ts) ==
    LET class   == ClassifyEnipCommand(f.command)
        counted == [s EXCEPT !.fl.pdu_count = @ + 1]
        items   == CpfItems(f)
        after[i \in 0 .. Len(items)] ==
            LET t == IF i = 0 THEN counted ELSE after[i - 1]
            IN  IF i = 0 THEN t ELSE CipItem(t, items[i][2], ts)
    IN  CASE s.fl.is_non_enip -> s
          [] class = "ListIdentity" -> ListIdentity(counted)
          [] class \in {"SendRRData", "SendUnitData"} -> after[Len(items)]
          [] OTHER -> counted

-----------------------------------------------------------------------------
(* The walk                                                                *)

\* parse_enip_header and is_valid_enip_frame, at the head of the buffer
EnipCommandAt(c) == IF c[1][2] = 1 THEN c[1][1].command ELSE 0

CountCommand(s, command) ==
    [s EXCEPT !.fl.command_counts = With(@, command, Get(@, command, 0) + 1)]

\* Faulty variant: a frame is counted as soon as its header is seen.
AwaitRestCounted(s, counted) == Stop(counted)

\* An incomplete frame ends the walk and is not yet counted.
AwaitRest(s, counted) == Stop(s)

Oversized(total) == total > MAX_ENIP_CARRY_BYTES

\* An unknown command costs one byte, a frame larger than the carry all that
\* has come of it, a complete frame is queued.
WalkEnip(s) ==
    LET c       == s.buf
        command == EnipCommandAt(c)
        counted == CountCommand(s, command)
        total   == c[1][1].total
    IN  IF Len(c) < EnipHeaderLen THEN Stop(s)
        ELSE IF ClassifyEnipCommand(command) = "Unknown"
        THEN [EnipMalformed(counted) EXCEPT !.buf = Rest(c, 1)]
        ELSE IF Oversized(total)
        THEN [EnipMalformed(counted) EXCEPT !.buf = Rest(c, IF total < Len(c) THEN total ELSE Len(c))]
        ELSE IF Len(c) < total THEN AwaitRest(s, counted)
        ELSE [counted EXCEPT !.queue = Append(@, c[1][1]), !.buf = Rest(c, total)]

\* What is left goes back to the carry of its direction; a carry over the cap
\* is given up together with the flow.
StashEnip(s, direction) ==
    IF Len(s.buf) > MAX_ENIP_CARRY_BYTES
    THEN [EnipMalformed(s) EXCEPT !.fl.is_non_enip = TRUE, !.fl.carry[direction] = <<>>]
    ELSE [s EXCEPT !.fl.carry[direction] = s.buf]

\* The walk comes first, over the whole buffer; the PDUs it queued follow.
EnipOnData(a, k, direction, data, ts) ==
    LET fl      == Get(a.flows, k, NewEnipFlow)
        expired == Elapsed(ts, fl.malformed_window_start_ts) > EnipMalformedWindow
        windows == IF expired
                   THEN [fl EXCEPT !.malformed_in_window = 0, !.malformed_anomaly_emitted = FALSE,
                                   !.malformed_window_start_ts = ts]
                   ELSE fl
        start   == [ an |-> a, fl |-> windows, buf |-> fl.carry[direction] \o data,
                     queue |-> <<>>, done |-> FALSE ]
        walked  == StashEnip(Loop(WalkEnip, LAMBDA s : s.done, start, Len(start.buf) + 1), direction)
        after[i \in 0 .. Len(walked.queue)] ==
            LET s == IF i = 0 THEN walked ELSE after[i - 1]
            IN  IF i = 0 THEN s ELSE EnipProcessPdu(s, walked.queue[i], ts)
        end     == after[Len(walked.queue)]
    IN  IF fl.is_non_enip THEN [a EXCEPT !.flows = With(@, k, fl)]
        ELSE [end.an EXCEPT !.flows = With(@, k, end.fl)]

-----------------------------------------------------------------------------
(* Closing and summing up                                                  *)

AddCounts(f, g) == [c \in DOMAIN f \cup DOMAIN g |-> Get(f, c, 0) + Get(g, c, 0)]

\* Faulty variant: the flow goes with what it counted.
EnipOnFlowCloseForgetting(a, k) ==
    IF k \notin DOMAIN a.flows THEN a
    ELSE [a EXCEPT !.flows = Without(@, k), !.flows_analyzed = @ + 1]

EnipOnFlowClose(a, k) ==
    IF k \notin DOMAIN a.flows THEN a
    ELSE [a EXCEPT !.flows = Without(@, k),
                   !.total_pdu_count = @ + a.flows[k].pdu_count,
                   !.parse_errors = @ + a.flows[k].parse_errors,
                   !.command_distribution = AddCounts(@, a.flows[k].command_counts),
                   !.flows_analyzed = @ + 1]

NewEnip ==
    [ all_findings |-> <<>>, error_count |-> 0, write_count |-> 0,
      flows |-> Empty, total_pdu_count |-> 0, parse_errors |-> 0,
      command_distribution |-> Empty, flows_analyzed |-> 0, dropped_findings |-> 0 ]

\* what closed flows left, and what open ones hold
EnipSummarize(a) ==
    LET commands == DOMAIN a.command_distribution
                      \cup UNION {DOMAIN a.flows[k].command_counts : k \in DOMAIN a.flows}
    IN  [ command_distribution |->
              [c \in commands |-> Get(a.command_distribution, c, 0)
                                    + SumOver(a.flows, LAMBDA fl : Get(fl.command_counts, c, 0))],
          total_pdu_count |-> a.total_pdu_count + SumOver(a.flows, LAMBDA fl : fl.pdu_count),
          parse_errors    |-> a.parse_errors + SumOver(a.flows, LAMBDA fl : fl.parse_errors),
          write_count     |-> a.write_count,
          error_count     |-> a.error_count,
          flows_analyzed  |-> a.flows_analyzed + Cardinality(DOMAIN a.flows) ]

-----------------------------------------------------------------------------
(* Behaviour                                                               *)

EnipInit ==
    /\ en = NewEnip
    /\ enWire \in Wires(EnipCapture, EnipKey)

EnipData(k, d) ==
    /\ LET sum == EnipSummarize(en)
       IN  sum.total_pdu_count + sum.parse_errors + en.flows_analyzed < MaxEnipEvents
    /\ \E c \in Chunks(enWire.sent[k][d], enWire.frames[d]), ts \in enWire.times :
          /\ en' = EnipOnData(en, k, d, c.data, ts)
          /\ enWire' = Sent(enWire, k, d, c.partial)

EnipClose(k) ==
    /\ k \in DOMAIN en.flows
    /\ en' = EnipOnFlowClose(en, k)
    /\ enWire' = Cut(enWire, k)

EnipNext == \E k \in EnipKey : EnipClose(k) \/ \E d \in Direction : EnipData(k, d)

EnipSpec == EnipInit /\ [][EnipNext]_enVars

-----------------------------------------------------------------------------
\* The list of findings keeps to its cap, whatever mix of PDUs and malformed
\* frames fills it, and flows are only kept under the keys that were seen.
EnipTypeOK ==
    /\ Len(en.all_findings) <= MAX_FINDINGS
    /\ DOMAIN en.flows \subseteq EnipKey
    /\ en.dropped_findings > 0 => Len(en.all_findings) = MAX_FINDINGS

\* The carry never gets past its cap and no flow is ever given up: a frame that
\* would not fit is skipped before it is waited for, so the overflow path of
\* on_data, and with it is_non_enip, is never reached.
EnipNeverGivenUp ==
    \A k \in DOMAIN en.flows :
        /\ ~en.flows[k].is_non_enip
        /\ \A d \in Direction : Len(en.flows[k].carry[d]) < MAX_ENIP_CARRY_BYTES

\* Every frame that was counted by its command was either processed or a parse
\* error, once: nothing is counted twice while it waits in the carry, and
\* nothing that was queued is lost.
EnipFramesAccounted ==
    \A k \in DOMAIN en.flows :
        LET fl == en.flows[k]
        IN  SumOver(fl.command_counts, LAMBDA n : n) = fl.pdu_count + fl.parse_errors

\* When every frame is what its header says and fits, a carry holds exactly the
\* bytes sent of the unfinished frame of its direction, however the stream is cut.
EnipCarryExact ==
    (\A f \in UNION {enWire.frames[e] : e \in Direction} :
        /\ f.total = f.len /\ f.len <= MAX_ENIP_CARRY_BYTES
        /\ ClassifyEnipCommand(f.command) # "Unknown")
    => \A k \in DOMAIN en.flows : en.flows[k].carry = enWire.sent[k]

\* A rate detector is latched exactly while its window holds more than its
\* threshold, except when the finding was dropped at the cap: no burst is
\* reported twice in a window, or hidden by the window before it.
EnipLatchesExact ==
    \A k \in DOMAIN en.flows :
        LET fl == en.flows[k]
            Exact(latch, over) == (latch => over) /\ (over /\ ~latch => en.dropped_findings > 0)
        IN  /\ Exact(fl.write_burst_emitted, fl.write_count_in_window > enip_write_burst_threshold)
            /\ Exact(fl.error_rate_emitted, SumOver(fl.error_counts_in_window, LAMBDA n : n)
                                              > enip_error_burst_threshold)
            /\ Exact(fl.malformed_anomaly_emitted,
                     fl.malformed_in_window >= ENIP_MALFORMED_THRESHOLD)

\* What summarize reports never goes back, in particular not when a flow closes.
EnipTotalsStep ==
    LET before == EnipSummarize(en)
        after  == EnipSummarize(en)'
    IN  /\ after.total_pdu_count >= before.total_pdu_count
        /\ after.parse_errors >= before.parse_errors
        /\ after.flows_analyzed >= before.flows_analyzed
        /\ \A c \in DOMAIN before.command_distribution :
              Get(after.command_distribution, c, 0) >= before.command_distribution[c]

EnipTotalsKept == [][EnipTotalsStep]_enVars
=============================================================================
