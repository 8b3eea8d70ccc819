------------------------------- MODULE Iec104 -------------------------------
(***************************************************************************)
(* The IEC 60870-5-104 analyzer of src/analyzer/iec104.rs: the walk over   *)
(* the APDUs of a direction, the U-frames that start and stop a session,   *)
(* the commands in I-frames and the check of their send numbers.           *)
(*                                                                         *)
(* An APDU has the fields start (it begins with 0x68), apdu (its length by *)
(* the LEN byte, which is LEN + 2), format, cf1 (of U-frames), ns and      *)
(* type_id (of I-frames; -1 if the ASDU is too short to have one).  0x68   *)
(* occurs nowhere else.                                                    *)
(***************************************************************************)
EXTENDS StreamAnalysis

CONSTANTS
    Iec104Key,                  \* flow keys
    Iec104Capture,              \* captures: the APDUs that occur
    MAX_IEC104_CARRY_BYTES,     \* 255
    MinApduLen,                 \* LEN is at least 4: 6
    MaxApduLen,                 \* LEN is at most 253: 255
    NsModulus,                  \* send numbers are 15 bits wide: 32768
    NsWindow,                   \* k, the most send numbers in flight: 12
    MaxIec104Apdus              \* bound of the model: APDUs seen, and closes

VARIABLES
    ic,         \* the analyzer
    icWire,     \* the capture, and what has been sent of unfinished APDUs
    icSeen      \* history: per open flow, the APDUs that were completed

icVars == <<ic, icWire, icSeen>>

-----------------------------------------------------------------------------
(* Frames                                                                  *)

NewIec104Flow ==
    [ carry |-> NoBytes, session_started |-> FALSE, last_ns |-> [d \in Direction |-> -1],
      malformed_len_reported |-> [d \in Direction |-> FALSE],
      carry_overflow_reported |-> [d \in Direction |-> FALSE], frame_count |-> 0 ]

\* process_u_frame: STARTDT 7, 11; STOPDT 19, 35; TESTFR 67, 131
ProcessUFrame(s, cf1) ==
    CASE cf1 \in {7, 11} -> [s EXCEPT !.fl.session_started = TRUE]
      [] cf1 = 19 ->
           [s EXCEPT !.fl.session_started = FALSE,
                     !.found = Append(@, IF s.fl.session_started THEN "stop" ELSE "stop unstarted")]
      [] cf1 = 35 -> [s EXCEPT !.fl.session_started = FALSE]
      [] cf1 \in {67, 131} -> s
      [] OTHER -> [s EXCEPT !.found = Append(@, "unknown U-frame")]

\* detect_iec104_threats, by the type of the ASDU: the commands, without and with
\* a time tag
CommandThreats(type_id) ==
    CASE type_id \in 45 .. 47 \cup 58 .. 60 -> <<"control">>
      [] type_id \in 48 .. 51 \cup 61 .. 64 -> <<"control", "parameter">>
      [] OTHER -> <<>>

\* and the types that are no command of the process
SystemThreats(type_id) ==
    CASE type_id = 105 -> <<"reset process">>
      [] type_id = 0 \/ type_id >= 128 -> <<"reserved type">>
      [] OTHER -> <<>>

\* parse_asdu has nothing for an ASDU that is too short
ThreatsOf(type_id) ==
    IF type_id = -1 THEN <<>> ELSE CommandThreats(type_id) \o SystemThreats(type_id)

\* Faulty variant: one send number for both directions.
TrackNsShared(s, d, ns) ==
    LET prev == s.fl.last_ns[d]
    IN  [s EXCEPT !.fl.last_ns = [e \in Direction |-> ns],
                  !.found = @ \o When(prev # -1 /\ (ns - prev) % NsModulus > NsWindow, "desync")]

\* track_ns_desync: the first number of a direction is taken as it comes
TrackNs(s, d, ns) ==
    LET prev == s.fl.last_ns[d]
    IN  [s EXCEPT !.fl.last_ns[d] = ns,
                  !.found = @ \o When(prev # -1 /\ (ns - prev) % NsModulus > NsWindow, "desync")]

ProcessApdu(s, d, f) ==
    LET t == [s EXCEPT !.fl.frame_count = @ + 1]
    IN  CASE f.format = "U" -> ProcessUFrame(t, f.cf1)
          [] f.format = "I" ->
               TrackNs([t EXCEPT !.found = @ \o ThreatsOf(f.type_id)], d, f.ns)
          [] f.format = "S" -> t

-----------------------------------------------------------------------------
(* The walk.  What ends it early is left in the carry of the direction.    *)

KeepRest(s, d) == Stop([s EXCEPT !.fl.carry[d] = s.buf])

LenInRange(f) == f.apdu \in MinApduLen .. MaxApduLen

MalformedLen(s, d) ==
    [s EXCEPT !.fl.malformed_len_reported[d] = TRUE,
              !.found = @ \o When(~s.fl.malformed_len_reported[d], "malformed LEN")]

WalkApdu(s, d) ==
    LET c == s.buf
        f == c[1][1]
    IN  IF c = <<>> THEN Stop(s)
        ELSE IF ~(f.start /\ c[1][2] = 1) THEN [s EXCEPT !.buf = Rest(c, 1)]
        ELSE IF Len(c) < 2 THEN KeepRest(s, d)
        ELSE IF ~LenInRange(f) THEN [MalformedLen(s, d) EXCEPT !.buf = Rest(c, 2)]
        ELSE IF Len(c) < f.apdu THEN KeepRest(s, d)
        ELSE [ProcessApdu(s, d, f) EXCEPT !.buf = Rest(c, f.apdu)]

\* The cap is looked at before the carry is taken; the findings of the call are
\* merged at its end.
Iec104OnData(a, k, d, data) ==
    LET fl       == Get(a.flows, k, NewIec104Flow)
        overflow == Len(fl.carry[d]) > MAX_IEC104_CARRY_BYTES
        kept     == IF overflow THEN <<>> ELSE fl.carry[d]
        start    == [ fl    |-> [fl EXCEPT !.carry[d] = <<>>,
                                           !.carry_overflow_reported[d] = @ \/ overflow],
                      found |-> When(overflow /\ ~fl.carry_overflow_reported[d], "carry overflow"),
                      buf   |-> kept \o data, done |-> FALSE ]
        end      == Loop(LAMBDA s : WalkApdu(s, d), LAMBDA s : s.done, start, Len(start.buf) + 1)
    IN  Push([a EXCEPT !.flows = With(@, k, end.fl)], end.found)

Iec104OnFlowClose(a, k) ==
    IF k \notin DOMAIN a.flows THEN a
    ELSE [a EXCEPT !.flows = Without(@, k), !.flows_analyzed = @ + 1,
                   !.total_frames_closed = @ + a.flows[k].frame_count]

NewIec104 ==
    [ flows |-> Empty, all_findings |-> <<>>, dropped_findings |-> 0, flows_analyzed |-> 0,
      total_frames_closed |-> 0 ]

Iec104Summarize(a) ==
    [ flows_analyzed   |-> a.flows_analyzed + Cardinality(DOMAIN a.flows),
      packets_analyzed |-> a.total_frames_closed + SumOver(a.flows, LAMBDA fl : fl.frame_count),
      total_findings   |-> Len(a.all_findings) ]

-----------------------------------------------------------------------------
(* Behaviour                                                               *)

Iec104Init ==
    /\ ic = NewIec104
    /\ icWire \in Wires(Iec104Capture, Iec104Key)
    /\ icSeen = [k \in Iec104Key |-> <<>>]

Iec104Data(k, d) ==
    /\ Len(icSeen[k]) + ic.total_frames_closed + ic.flows_analyzed < MaxIec104Apdus
    /\ \E c \in Chunks(icWire.sent[k][d], icWire.frames[d]) :
          /\ ic' = Iec104OnData(ic, k, d, c.data)
          /\ icWire' = Sent(icWire, k, d, c.partial)
          /\ icSeen' = [icSeen EXCEPT ![k] = @ \o [i \in DOMAIN c.whole |-> <<d, c.whole[i]>>]]

Iec104Close(k) ==
    /\ k \in DOMAIN ic.flows
    /\ ic' = Iec104OnFlowClose(ic, k)
    /\ icWire' = Cut(icWire, k)
    /\ icSeen' = [icSeen EXCEPT ![k] = <<>>]

Iec104Next == \E k \in Iec104Key : Iec104Close(k) \/ \E d \in Direction : Iec104Data(k, d)

Iec104Spec == Iec104Init /\ [][Iec104Next]_icVars

-----------------------------------------------------------------------------
\* The findings keep to their cap although a call merges all of its own at once.
Iec104TypeOK ==
    /\ Len(ic.all_findings) <= MAX_FINDINGS
    /\ ic.dropped_findings > 0 => Len(ic.all_findings) = MAX_FINDINGS
    /\ DOMAIN ic.flows \subseteq Iec104Key

\* A carry is empty or the beginning of one APDU, so it never passes its cap:
\* the overflow check of on_data finds nothing, whatever the stream holds.
Iec104CarryBounded ==
    \A k \in DOMAIN ic.flows, d \in Direction :
        /\ Len(ic.flows[k].carry[d]) < MAX_IEC104_CARRY_BYTES
        /\ ~ic.flows[k].carry_overflow_reported[d]

\* What the APDUs seen on a flow amount to, read one at a time and in order.
Last(seen, P(_)) ==
    LET ps == {i \in DOMAIN seen : P(seen[i])}
    IN  IF ps = {} THEN 0 ELSE CHOOSE i \in ps : \A j \in ps : j <= i

Iec104Reference(seen) ==
    LET good(e)  == e[2].start /\ e[2].apdu \in MinApduLen .. MaxApduLen
        start(e) == good(e) /\ e[2].format = "U" /\ e[2].cf1 \in {7, 11}
        stop(e)  == good(e) /\ e[2].format = "U" /\ e[2].cf1 \in {19, 35}
        ns(d)    == Last(seen, LAMBDA e : good(e) /\ e[1] = d /\ e[2].format = "I")
    IN  [ session_started |-> Last(seen, start) > Last(seen, stop),
          last_ns         |-> [d \in Direction |-> IF ns(d) = 0 THEN -1 ELSE seen[ns(d)][2].ns],
          frame_count     |-> Cardinality({i \in DOMAIN seen : good(seen[i])}) ]

\* However the two directions are cut into chunks and interleaved, and whatever
\* junk lies between the APDUs, a flow ends up in the state that its completed
\* APDUs give when they are read one at a time.
Iec104CuttingIrrelevant ==
    \A k \in DOMAIN ic.flows :
        LET fl == ic.flows[k]
        IN  Iec104Reference(icSeen[k]) = [ session_started |-> fl.session_started,
                                           last_ns         |-> fl.last_ns,
                                           frame_count     |-> fl.frame_count ]

\* A LEN out of range is reported at most once per direction of a flow.
Iec104MalformedOnce ==
    Cardinality({i \in DOMAIN ic.all_findings : ic.all_findings[i] = "malformed LEN"})
        <= 2 * Iec104Summarize(ic).flows_analyzed

\* The totals never go back, in particular not when a flow closes.
Iec104TotalsStep ==
    /\ Iec104Summarize(ic)'.packets_analyzed >= Iec104Summarize(ic).packets_analyzed
    /\ Iec104Summarize(ic)'.flows_analyzed >= Iec104Summarize(ic).flows_analyzed

Iec104TotalsKept == [][Iec104TotalsStep]_icVars
=============================================================================
