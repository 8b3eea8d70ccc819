------------------------------- MODULE S7comm -------------------------------
(***************************************************************************)
(* The S7comm analyzer of src/analyzer/s7comm.rs over the TPKT and COTP    *)
(* parsers of src/analyzer/iso_on_tcp.rs: the walk over TPKT frames, the   *)
(* connection handshake, the protocol a flow is classified as, and the     *)
(* check of classic headers.  No flow is routed to it by the dispatcher.   *)
(*                                                                         *)
(* A frame has the fields version, total (the TPKT length), cotp (the kind *)
(* of TPDU, or "none"), protocol (the byte after the COTP header of a DT,  *)
(* -1 if there is none), rosctr, s7len (bytes of the S7 PDU) and declared  *)
(* (its parameter and data lengths).  The version byte occurs nowhere else.*)
(***************************************************************************)
EXTENDS StreamAnalysis

CONSTANTS
    S7Key,                          \* flow keys
    S7Capture,                      \* captures: the frames that occur
    TpktHeaderLen,                  \* 4
    MinTpktLen,                     \* 7
    MAX_S7_ISO_ON_TCP_CARRY_BYTES,  \* 65535, the largest TPKT length there is
    MaxS7Frames                     \* bound of the model: frames seen on open flows

VARIABLES
    s7,         \* the analyzer
    s7Wire,     \* the capture, and what has been sent of unfinished frames
    s7Seen      \* history: per open flow, the frames that were completed

s7Vars == <<s7, s7Wire, s7Seen>>

-----------------------------------------------------------------------------
(* Headers                                                                 *)

\* parse_tpkt_header, at the head of the buffer
TpktOK(c) == c[1][2] = 1 /\ c[1][1].version = 3 /\ c[1][1].total >= MinTpktLen

\* parse_s7comm_header: an acknowledgement has two more bytes of header
S7HeaderLen(rosctr) == IF rosctr \in {2, 3} THEN 12 ELSE 10

S7HeaderOK(f) == f.rosctr \in {1, 2, 3, 7} /\ f.s7len >= S7HeaderLen(f.rosctr)

\* s7comm_bounds_ok
S7BoundsOK(f) == f.s7len >= S7HeaderLen(f.rosctr) + f.declared

NewS7Flow ==
    [ carry |-> NoBytes, carry_overflow_reported |-> [d \in Direction |-> FALSE],
      session_established |-> FALSE, cr_observed_dir |-> "none", classified_protocol |-> "none",
      malformed_header_reported |-> [d \in Direction |-> FALSE] ]

-----------------------------------------------------------------------------
(* Dispatch of a complete frame                                            *)

\* A confirm counts if the last request came from the other side.
ConnectConfirm(fl, d) ==
    [fl EXCEPT !.session_established = @ \/ fl.cr_observed_dir \notin {"none", d}]

S7ProtocolOf(byte) ==
    CASE byte = 50 -> "Classic" [] byte = 114 -> "Plus" [] OTHER -> "Unclassified"

\* classify_first_dt_frame
ClassifyFirstDtFrame(fl, byte) ==
    IF byte = -1 \/ fl.classified_protocol # "none" THEN fl
    ELSE [fl EXCEPT !.classified_protocol = S7ProtocolOf(byte)]

ReportMalformedHeader(s, d) ==
    [s EXCEPT !.fl.malformed_header_reported[d] = TRUE,
              !.found = @ \o When(~s.fl.malformed_header_reported[d], "malformed header")]

DispatchClassic(s, d, f) ==
    IF S7HeaderOK(f) /\ S7BoundsOK(f) THEN s ELSE ReportMalformedHeader(s, d)

DispatchCotp(s, d, f) ==
    LET classified == [s EXCEPT !.fl = ClassifyFirstDtFrame(@, f.protocol)]
    IN  CASE f.cotp = "CR" -> [s EXCEPT !.fl.cr_observed_dir = d]
          [] f.cotp = "CC" -> [s EXCEPT !.fl = ConnectConfirm(@, d)]
          [] f.cotp = "DT" ->
               IF f.protocol = 50 /\ classified.fl.classified_protocol = "Classic"
               THEN DispatchClassic(classified, d, f) ELSE classified
          [] OTHER -> s

-----------------------------------------------------------------------------
(* The walk                                                                *)

\* resync_one_byte, a byte at a time
S7Resync(s) == [s EXCEPT !.buf = Rest(@, 1)]

WalkTpkt(s, d) ==
    LET c == s.buf
        f == c[1][1]
    IN  IF Len(c) < TpktHeaderLen THEN Stop(s)
        ELSE IF ~TpktOK(c) THEN S7Resync(s)
        ELSE IF Len(c) < f.total THEN Stop(s)
        ELSE [DispatchCotp(s, d, f) EXCEPT !.buf = Rest(c, f.total)]

S7OnData(a, k, d, data) ==
    LET fl       == Get(a.flows, k, NewS7Flow)
        overflow == Len(fl.carry[d]) > MAX_S7_ISO_ON_TCP_CARRY_BYTES
        kept     == IF overflow THEN <<>> ELSE fl.carry[d]
        start    == [ fl    |-> [fl EXCEPT !.carry_overflow_reported[d] = @ \/ overflow],
                      found |-> When(overflow /\ ~fl.carry_overflow_reported[d], "carry overflow"),
                      buf   |-> kept \o data, done |-> FALSE ]
        end      == Loop(LAMBDA s : WalkTpkt(s, d), LAMBDA s : s.done, start, Len(start.buf) + 1)
    IN  [a EXCEPT !.flows = With(@, k, [end.fl EXCEPT !.carry[d] = end.buf]),
                  !.findings = @ \o end.found]

S7OnFlowClose(a, k) == [a EXCEPT !.flows = Without(@, k)]

NewS7 == [flows |-> Empty, findings |-> <<>>]

-----------------------------------------------------------------------------
(* Behaviour                                                               *)

S7Init ==
    /\ s7 = NewS7
    /\ s7Wire \in Wires(S7Capture, S7Key)
    /\ s7Seen = [k \in S7Key |-> <<>>]

S7Data(k, d) ==
    /\ Len(s7Seen[k]) + Len(s7.findings) < MaxS7Frames
    /\ \E c \in Chunks(s7Wire.sent[k][d], s7Wire.frames[d]) :
          /\ s7' = S7OnData(s7, k, d, c.data)
          /\ s7Wire' = Sent(s7Wire, k, d, c.partial)
          /\ s7Seen' = [s7Seen EXCEPT ![k] = @ \o [i \in DOMAIN c.whole |-> <<d, c.whole[i]>>]]

S7Close(k) ==
    /\ k \in DOMAIN s7.flows
    /\ s7' = S7OnFlowClose(s7, k)
    /\ s7Wire' = Cut(s7Wire, k)
    /\ s7Seen' = [s7Seen EXCEPT ![k] = <<>>]

S7Next == \E k \in S7Key : S7Close(k) \/ \E d \in Direction : S7Data(k, d)

S7Spec == S7Init /\ [][S7Next]_s7Vars

-----------------------------------------------------------------------------
\* A carry is shorter than the frame it waits for, so it never passes its cap
\* and the overflow check of on_data finds nothing, whatever the stream holds.
S7CarryBounded ==
    \A k \in DOMAIN s7.flows, d \in Direction :
        /\ Len(s7.flows[k].carry[d]) < MAX_S7_ISO_ON_TCP_CARRY_BYTES
        /\ ~s7.flows[k].carry_overflow_reported[d]

\* A session counts as established exactly if some confirm answered the other
\* side: the last connection request before it went the opposite way.  How the
\* handshake is cut into chunks, and what junk surrounds it, does not matter.
S7SessionExact ==
    \A k \in DOMAIN s7.flows :
        LET seen     == s7Seen[k]
            is(i, t) == seen[i][2].version = 3 /\ seen[i][2].total >= MinTpktLen
                          /\ seen[i][2].cotp = t
        IN  s7.flows[k].session_established <=>
                \E j \in DOMAIN seen : \E i \in 1 .. j - 1 :
                    /\ is(i, "CR") /\ is(j, "CC") /\ seen[i][1] # seen[j][1]
                    /\ \A m \in i + 1 .. j - 1 : ~is(m, "CR")

\* The protocol of a flow is settled by the first data frame that tells it and
\* is not changed by any later frame of either side.
S7ProtocolStep ==
    \A k \in DOMAIN s7.flows \cap DOMAIN s7'.flows :
        s7.flows[k].classified_protocol # "none"
            => s7'.flows[k].classified_protocol = s7.flows[k].classified_protocol

S7ProtocolLocked == [][S7ProtocolStep]_s7Vars

\* A direction has reported a malformed header exactly if it carried one on a
\* flow that was classic by then, whichever side made it so.
S7MalformedExact ==
    \A k \in DOMAIN s7.flows, d \in Direction :
        LET seen  == s7Seen[k]
            dt(i) == seen[i][2].version = 3 /\ seen[i][2].total >= MinTpktLen
                       /\ seen[i][2].cotp = "DT" /\ seen[i][2].protocol # -1
            bad(f) == \/ f.rosctr \notin {1, 2, 3, 7}
                      \/ f.s7len < f.declared + (IF f.rosctr \in {1, 7} THEN 10 ELSE 12)
        IN  s7.flows[k].malformed_header_reported[d] <=>
                \E i, j \in DOMAIN seen :
                    /\ i <= j /\ dt(i) /\ dt(j) /\ \A h \in 1 .. i - 1 : ~dt(h)
                    /\ seen[i][2].protocol = 50 /\ seen[j][2].protocol = 50
                    /\ seen[j][1] = d /\ bad(seen[j][2])
=============================================================================
