------------------------------- MODULE MCIcs --------------------------------
(* The analyzers of the industrial protocols, one at a time.  active names *)
(* the one that is fed; the others stay as they were created.  A capture   *)
(* has a small alphabet of frames per direction and the timestamps that    *)
(* occur; lengths are scaled down, headers to two bytes or so.             *)
EXTENDS Modbus, Dnp3, Enip, Iec104, S7comm, TLC

VARIABLE active

Captured(client, server, times) ==
    [frames |-> ("ClientToServer" :> client) @@ ("ServerToClient" :> server), times |-> times]

-----------------------------------------------------------------------------
Adu(len, id, fc, arg) == [valid |-> TRUE, len |-> len, id |-> id, fc |-> fc, arg |-> arg]

BadAdu == [Adu(2, 1, 6, -1) EXCEPT !.valid = FALSE]

MCModbusCaptures ==
    { Captured({Adu(2, 1, 6, -1), Adu(3, 2, 6, 7)}, {Adu(3, 1, 134, 2), Adu(3, 2, 6, 7)}, {0, 2}),
      Captured({Adu(2, 1, 5, -1), Adu(3, 1, 8, 4)}, {Adu(3, 1, 134, 2), Adu(2, 1, 134, -1)}, {0, 2}),
      Captured({Adu(2, 1, 99, -1), Adu(3, 2, 43, 14), BadAdu}, {Adu(2, 1, 3, -1)}, {0}) }

-----------------------------------------------------------------------------
Dnp3Frame(len, src, dst, seq, fc) ==
    [sync |-> TRUE, goodLen |-> TRUE, app |-> len >= 5, master |-> src < 5, len |-> len, src |-> src,
     dst |-> dst, seq |-> seq, fc |-> fc]

BadLength == [Dnp3Frame(4, 1, 9, 0, 0) EXCEPT !.goodLen = FALSE]

NoSync == [Dnp3Frame(2, 1, 9, 0, 0) EXCEPT !.sync = FALSE]

MCDnp3Captures ==
    { Captured({Dnp3Frame(5, 1, 9, 0, 5), Dnp3Frame(5, 2, 65535, 1, 6)}, {}, {0, 1}),
      Captured({Dnp3Frame(5, 1, 9, 0, 3), Dnp3Frame(5, 1, 9, 1, 4), Dnp3Frame(5, 1, 8, 1, 4)}, {}, {0, 2}),
      Captured({Dnp3Frame(5, 1, 9, 0, 3), Dnp3Frame(5, 1, 9, 0, 13)}, {Dnp3Frame(5, 9, 1, 0, 129)}, {0, 3}),
      Captured({Dnp3Frame(5, 1, 9, 0, 14)}, {Dnp3Frame(5, 9, 1, 0, 20), Dnp3Frame(5, 9, 1, 0, 130)}, {0}),
      Captured({BadLength, Dnp3Frame(5, 1, 9, 0, 2)}, {NoSync}, {0, 2, 3}) }

-----------------------------------------------------------------------------
CpfItem(len, service, status, path) ==
    [type_id |-> 178, len |-> len, service |-> service, status |-> status, path |-> path]

EnipFrame(command, len, total, cpf, items) ==
    [command |-> command, len |-> len, total |-> total, cpf |-> cpf, items |-> items]

CipWriteItem == CpfItem(2, 16, 0, <<>>)

CipErrorItem(status) == CpfItem(4, 144, status, <<>>)

MCEnipCaptures ==
    { Captured({EnipFrame(111, 3, 3, 12, <<CipWriteItem, CipWriteItem>>), EnipFrame(111, 2, 2, 6, <<CipWriteItem>>)},
               {EnipFrame(111, 3, 3, 8, <<CipErrorItem(5)>>)}, {0, 2}),
      Captured({EnipFrame(112, 3, 3, 16, <<CpfItem(4, 14, 0, << <<32, 1>> >>), CpfItem(2, 7, 0, <<>>)>>),
                EnipFrame(111, 3, 3, 6, <<CpfItem(2, 84, 0, <<>>)>>)},
               {EnipFrame(111, 3, 3, 20, <<CipErrorItem(5), CipErrorItem(6)>>)}, {0, 2}),
      Captured({EnipFrame(111, 3, 3, 5, <<CipWriteItem>>), EnipFrame(112, 3, 3, 6, <<CpfItem(2, 78, 0, <<>>)>>)},
               {EnipFrame(101, 2, 3, -1, <<>>)}, {0}),
      Captured({EnipFrame(0, 2, 2, -1, <<>>), EnipFrame(111, 4, 9, -1, <<>>), EnipFrame(99, 2, 2, -1, <<>>)},
               {EnipFrame(111, 5, 5, -1, <<>>)}, {0, 3}) }

-----------------------------------------------------------------------------
Apdu(format, cf1, ns, type_id, len) ==
    [start |-> TRUE, apdu |-> len, format |-> format, cf1 |-> cf1, ns |-> ns, type_id |-> type_id, len |-> len]

NoStart == [Apdu("S", 0, 0, -1, 1) EXCEPT !.start = FALSE]

BadApdu == [Apdu("S", 0, 0, -1, 3) EXCEPT !.apdu = 6]

MCIec104Captures ==
    { Captured({Apdu("I", 0, 7, 45, 3), Apdu("I", 0, 0, 61, 3)},
               {Apdu("I", 0, 1, -1, 3), Apdu("I", 0, 5, 105, 3)}, {0}),
      Captured({Apdu("U", 7, 0, -1, 3), Apdu("U", 19, 0, -1, 3)},
               {Apdu("U", 35, 0, -1, 3), Apdu("U", 3, 0, -1, 3)}, {0}),
      Captured({Apdu("U", 67, 0, -1, 3), NoStart, BadApdu},
               {Apdu("S", 0, 0, -1, 3), BadApdu, Apdu("I", 0, 1, 200, 4)}, {0}) }

-----------------------------------------------------------------------------
Tpkt(cotp, protocol, rosctr, s7len, declared) ==
    [version |-> 3, total |-> 3, len |-> 3, cotp |-> cotp, protocol |-> protocol, rosctr |-> rosctr,
     s7len |-> s7len, declared |-> declared]

NoTpkt == [Tpkt("CR", 0, 0, 0, 0) EXCEPT !.version = 0, !.len = 2]

ShortTpkt == [Tpkt("CR", 0, 0, 0, 0) EXCEPT !.total = 1]

MCS7Captures ==
    { Captured({Tpkt("CR", -1, 0, 0, 0), Tpkt("CC", -1, 0, 0, 0)}, {Tpkt("CC", -1, 0, 0, 0), Tpkt("CR", -1, 0, 0, 0)}, {0}),
      Captured({Tpkt("DT", 50, 1, 12, 2), Tpkt("DT", 114, 0, 0, 0), Tpkt("DT", 50, 9, 10, 0)}, {Tpkt("DT", 50, 3, 13, 2)}, {0}),
      Captured({NoTpkt, ShortTpkt, Tpkt("none", 0, 0, 0, 0)}, {Tpkt("DT", -1, 0, 0, 0), Tpkt("DT", 7, 0, 0, 0)}, {0}) }

-----------------------------------------------------------------------------
\* the capture of an analyzer that is not fed does not matter
FedOr(name, wire, captures, keys) == active = name \/ wire = CHOOSE w \in Wires(captures, keys) : TRUE

MCIcsInit ==
    /\ active \in {"modbus", "dnp3", "enip", "iec104", "s7comm"}
    /\ ModbusInit /\ FedOr("modbus", mbWire, ModbusCapture, ModbusKey)
    /\ Dnp3Init /\ FedOr("dnp3", dnWire, Dnp3Capture, Dnp3Key)
    /\ EnipInit /\ FedOr("enip", enWire, EnipCapture, EnipKey)
    /\ Iec104Init /\ FedOr("iec104", icWire, Iec104Capture, Iec104Key)
    /\ S7Init /\ FedOr("s7comm", s7Wire, S7Capture, S7Key)

MCIcsNext ==
    /\ UNCHANGED active
    /\ \/ active = "modbus" /\ ModbusNext /\ UNCHANGED <<dnVars, enVars, icVars, s7Vars>>
       \/ active = "dnp3" /\ Dnp3Next /\ UNCHANGED <<mbVars, enVars, icVars, s7Vars>>
       \/ active = "enip" /\ EnipNext /\ UNCHANGED <<mbVars, dnVars, icVars, s7Vars>>
       \/ active = "iec104" /\ Iec104Next /\ UNCHANGED <<mbVars, dnVars, enVars, s7Vars>>
       \/ active = "s7comm" /\ S7Next /\ UNCHANGED <<mbVars, dnVars, enVars, icVars>>

MCIcsSpec == MCIcsInit /\ [][MCIcsNext]_<<active, mbVars, dnVars, enVars, icVars, s7Vars>>

-----------------------------------------------------------------------------
(* What every one of these analyzers promises; the conjuncts are stated    *)
(* with the analyzer they are about.                                       *)

\* Whatever a capture holds, carry buffers, pending tables, address sets and
\* findings stay within the caps of the four analyzers.
IcsWithinCaps == ModbusTypeOK /\ Dnp3TypeOK /\ EnipTypeOK /\ Iec104TypeOK

\* What an on_data leaves in a carry buffer is the start of a frame that is not
\* complete: no frame that could be handled is left lying, none is handled twice,
\* and a flow is given up only for the reason the code states.
IcsCarriesSound ==
    /\ ModbusCarryExact /\ Dnp3CarryAwaitsMore
    /\ EnipCarryExact /\ EnipNeverGivenUp
    /\ Iec104CarryBounded /\ S7CarryBounded

\* With clocks that go back, the one-shot flag of a detection window is set exactly
\* while the count of the current window is over its threshold (in EtherNet/IP
\* unless the finding was dropped at the cap).  The malformed frames of DNP3 are
\* the exception: they are reported exactly if an error of a chunk reaches, or is
\* beyond, the threshold before the window is over.  IEC 104 reports a bad LEN at
\* most once per direction of a flow.
IcsLatchesExact ==
    /\ [](ModbusLatchesExact /\ Dnp3LatchesExact /\ EnipLatchesExact /\ Iec104MalformedOnce)
    /\ Dnp3MalformedExact

\* What summarize adds up never goes down: on_flow_close moves the counters of a
\* flow to the analyzer before it drops the flow.
IcsTotalsKept == Dnp3TotalsKept /\ EnipTotalsKept /\ Iec104TotalsKept

\* What an on_data settles stays settled for the life of the flow: a Modbus flow
\* given up, a pending Modbus request that a full table must not evict, a DNP3
\* flow with a frame, which is never given up, the protocol an ISO-on-TCP session
\* carries.
IcsSettledForGood ==
    /\ ModbusGivenUpForGood
    /\ ModbusPendingNotEvicted
    /\ []Dnp3EstablishedKept
    /\ S7ProtocolLocked

\* How the stream is cut into on_data calls does not matter: the state is that of
\* the whole frames seen so far, each direction on its own.
IcsCuttingIrrelevant == Iec104CuttingIrrelevant /\ S7SessionExact /\ S7MalformedExact

\* Every complete frame is counted once, however often on_data had to wait for the
\* rest of it, and every write command has its finding or is counted as dropped.
IcsEventsAccounted == EnipFramesAccounted /\ ModbusWritesReported
=============================================================================
