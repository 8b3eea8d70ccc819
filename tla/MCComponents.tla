---------------------------- MODULE MCComponents ----------------------------
(* HTTP, TLS, ARP, the capture reader, the findings report and the loops   *)
(* of the segment buffer, one at a time.  active names the one that runs;  *)
(* the others stay as they were created.                                   *)
EXTENDS Http, Tls, Arp, Reader, Report, TLC

CONSTANTS
    Byte, SeqSpace, CountMax, MaxDepth, MaxSegments, MaxReceiveWindow,
    MaxLen      \* the longest payload; its bytes are alike: the loops look at ranges only

VARIABLES active, dir, delivered

Loops == INSTANCE SegmentLoops WITH Payload <- UNION {[1 .. n -> Byte] : n \in 1 .. MaxLen}

-----------------------------------------------------------------------------
Request(len, method, host, agent, version, uri) ==
    [len |-> len, err |-> "none", errAt |-> 0, method |-> method, host |-> host, agent |-> agent,
     version |-> version, uri |-> uri, status |-> 0]

Response(len, status) == [Request(len, "", "", "", 0, {}) EXCEPT !.status = status]

Unparsable(len, at, err) == [Response(len, 0) EXCEPT !.err = err, !.errAt = at]

Captured(client, server) ==
    [frames |-> ("ClientToServer" :> client) @@ ("ServerToClient" :> server), times |-> {0}]

MCHttpCaptures ==
    { Captured({Request(2, "GET", "a", "", 1, {}), Request(2, "TRACE", "none", "b", 1, {"admin"})},
               {Response(2, 200), Response(2, 404)}),
      Captured({Request(2, "GET", "", "none", 0, {"traversal", "shell", "long"}), Unparsable(2, 1, "malformed")},
               {Response(2, 200), Unparsable(3, 2, "too many")}),
      Captured({Request(6, "GET", "a", "b", 1, {}), Request(2, "PUT", "b", "a", 1, {})}, {Response(6, 200)}) }

-----------------------------------------------------------------------------
Suite(id, name) == [id |-> id, name |-> name]

Hello(type, len, ok, version, extsOK, sni, ciphers) ==
    [type |-> type, len |-> len, stray |-> 2, ok |-> ok, version |-> version, extsOK |-> extsOK, sni |-> sni,
     ciphers |-> ciphers, exts |-> <<2570, 0>>, groups |-> <<29>>, formats |-> <<0>>]

ClientHello == Hello("ClientHello", 4, TRUE, 771, TRUE, "a.b", <<Suite(2570, "x"), Suite(1, "null")>>)

ClientHelloSsl == Hello("ClientHello", 2, TRUE, 768, TRUE, "non-ASCII", <<Suite(5, "rc4")>>)

ClientHelloBad == Hello("ClientHello", 2, FALSE, 771, TRUE, "none", <<>>)

ClientHelloBadExts == Hello("ClientHello", 3, TRUE, 769, FALSE, "a.b", <<Suite(5, "rc4")>>)

ServerHello == Hello("ServerHello", 3, TRUE, 771, TRUE, "none", <<Suite(5, "rc4")>>)

ServerHelloSsl == Hello("ServerHello", 2, TRUE, 768, FALSE, "none", <<Suite(6, "aes")>>)

OtherMessage(len) == Hello("Other", len, TRUE, 0, TRUE, "none", <<>>)

Record(handshake, payload) == [len |-> 2 + Len(payload), handshake |-> handshake, payload |-> payload, stray |-> 2]

OversizedRecord == [Record(TRUE, Bytes(ServerHello)) EXCEPT !.len = 8, !.stray = 9]

Part(m, from, to) == SubSeq(Bytes(m), from, to)

Dirs(client, server) == "ClientToServer" :> client @@ "ServerToClient" :> server

MCTlsCaptures ==
    { Dirs(<<Record(TRUE, Part(ClientHello, 1, 1)), Record(FALSE, Part(ClientHello, 1, 1)),
             Record(TRUE, Part(ClientHello, 2, 4))>>,
           <<Record(TRUE, Bytes(ServerHello)), Record(TRUE, Bytes(ServerHello))>>),
      Dirs(<<Record(TRUE, Bytes(ClientHelloBad) \o Bytes(ClientHelloSsl)), Record(TRUE, Bytes(ClientHelloSsl))>>,
           <<Record(FALSE, Bytes(ServerHello)), Record(TRUE, Bytes(ServerHelloSsl))>>),
      Dirs(<<Record(TRUE, Part(OtherMessage(30), 1, 3)), Record(TRUE, Bytes(ClientHelloBadExts))>>,
           <<OversizedRecord, Record(TRUE, Bytes(ServerHelloSsl))>>),
      Dirs(<<Record(TRUE, Part(OtherMessage(13), 1, 4)), Record(TRUE, Part(OtherMessage(13), 5, 8)),
             Record(TRUE, Part(OtherMessage(13), 9, 12)), Record(TRUE, Bytes(ClientHelloBadExts))>>,
           <<Record(TRUE, Bytes(ServerHelloSsl))>>) }

-----------------------------------------------------------------------------
Frame(operation, sender_ip, sender_mac, target_ip, outer) ==
    [operation |-> operation, sender_ip |-> sender_ip, sender_mac |-> sender_mac, target_ip |-> target_ip,
     outer |-> outer]

MCArpCaptures ==
    { [frames |-> {Frame(1, "i1", "m1", "i2", NoMac), Frame(2, "i1", "m2", "i1", "m2")}, times |-> {1, 2, 4}],
      [frames |-> {Frame(1, "i1", "m1", "i2", NoMac), Frame(2, "i2", "m2", "i1", "m1"),
                   Frame(3, "0.0.0.0", "m1", "i1", NoMac), Frame(2, "i2", "m1", "i1", "m1")}, times |-> {1, 2}],
      [frames |-> {Frame(1, "i1", "m1", "i2", NoMac), Frame(2, "i2", "m2", "i1", NoMac),
                   Frame(1, "i3", "m3", "i1", NoMac), Frame(2, "i3", "m3", "i3", NoMac)}, times |-> {1, 3}] }

-----------------------------------------------------------------------------
Block(type, body) ==
    [type |-> type, framed |-> TRUE, reserved |-> FALSE, body |-> body, link |-> "ETHERNET",
     options |-> [room |-> 0, tlvs |-> <<>>],
     interface_id |-> 0, captured_len |-> 0, original_len |-> 0, ticks |-> 0, ts |-> [secs |-> 0, frac |-> 0]]

Opt(code, len, resol) == [code |-> code, len |-> len, resol |-> resol]

IDB(link, room, tlvs) ==
    [Block("IDB", 8 + room) EXCEPT !.link = link, !.options = [room |-> room, tlvs |-> tlvs]]

EPB(body, id, captured_len, ticks) ==
    [Block("EPB", body) EXCEPT !.interface_id = id, !.captured_len = captured_len, !.ticks = ticks]

SPB(body, original_len) == [Block("SPB", body) EXCEPT !.original_len = original_len]

Unframed(b) == [b EXCEPT !.framed = FALSE]

File(magic, header, blocks) ==
    [magic |-> magic, size |-> 100, header |-> header, link |-> "RAW", nano |-> FALSE, blocks |-> blocks]

Base2(e) == [base |-> 2, exp |-> e]

MCReaderFiles ==
    { File("short", "ok", {}), File("other", "ok", {}), [File("pcapng", "ok", {}) EXCEPT !.size = 5000],
      File("pcapng", "E-INP-008", {}), File("classic", "bad", {}), [File("classic", "ok", {}) EXCEPT !.link = "NULL"],
      File("classic", "ok", {Block("packet", 4), Unframed(Block("packet", 4))}),
      [File("classic", "ok", {[Block("packet", 4) EXCEPT !.ts = [secs |-> 1, frac |-> 5999]]}) EXCEPT !.nano = TRUE],
      File("pcapng", "ok", {IDB("ETHERNET", 0, <<>>), IDB("RAW", 0, <<>>), EPB(24, 0, 4, 5), EPB(24, 1, 4, 35),
                            SPB(8, 9), Block("OPB", 8), Block("NRB", 8), Block("SHB", 28)}),
      File("pcapng", "ok", {IDB("NULL", 0, <<>>), IDB("RAW", 12, <<Opt(2, 3, 0), Opt(9, 1, Base10(0))>>),
                            IDB("RAW", 8, <<Opt(9, 1, Base10(3))>>), IDB("RAW", 7, <<Opt(9, 4, 0)>>),
                            IDB("RAW", 8, <<Opt(9, 2, 0)>>), EPB(24, 0, 4, 35), EPB(24, 0, 5, 35),
                            EPB(23, 0, 3, 35), EPB(19, 0, 0, 0)}),
      File("pcapng", "ok", {IDB("RAW", 8, <<Opt(9, 1, Base2(2))>>), IDB("RAW", 4, <<Opt(0, 0, 0)>>),
                            IDB("RAW", 8, <<Opt(9, 1, Base2(70))>>), [Block("IDB", 6) EXCEPT !.link = "RAW"],
                            [Block("IDB", 8) EXCEPT !.reserved = TRUE],
                            EPB(24, 0, 4, 7), EPB(24, 1, 2, 90), SPB(3, 9), Unframed(Block("ISB", 8))}) }

-----------------------------------------------------------------------------
Found(about, verdict, confidence, evidence, techniques) ==
    [about |-> about, verdict |-> verdict, confidence |-> confidence, evidence |-> evidence,
     mitre_techniques |-> techniques]

MCFindings ==
    { Found("write", "Likely", "High", <<"e1", "e2">>, <<"T0836", "T0831">>),
      Found("write", "Likely", "High", <<>>, <<"T0858">>),
      Found("write", "Likely", "High", <<"e3">>, <<>>),
      Found("write", "Possible", "Low", <<"e4">>, <<"T0836">>),
      Found("scan", "Inconclusive", "Medium", <<"e5">>, <<"T0846">>),
      Found("scan", "Unlikely", "Low", <<"e6">>, <<"T9999", "T1046">>),
      Found("web", "Possible", "High", <<"e7">>, <<"T1046">>),
      Found("arp", "Likely", "Medium", <<"e8">>, <<"T0830", "T1557.002">>) }

-----------------------------------------------------------------------------
\* the input of a component that does not run does not matter
FedOr(name, input, inputs) == active = name \/ input = CHOOSE i \in inputs : TRUE

MCComponentsInit ==
    /\ active \in {"http", "tls", "arp", "reader", "report", "loops"}
    /\ HttpInit /\ FedOr("http", htWire.frames, {c.frames : c \in HttpCapture})
    /\ TlsInit /\ FedOr("tls", tlWire.records, TlsCapture)
    /\ ArpInit /\ FedOr("arp", arWire, ArpCapture)
    /\ ReaderInit /\ FedOr("reader", rdFile, ReaderFile)
    /\ ReportInit
    /\ Loops!Init

MCComponentsNext ==
    /\ UNCHANGED active
    /\ \/ active = "http" /\ HttpNext /\ UNCHANGED <<tlVars, arVars, rdVars, rp, dir, delivered>>
       \/ active = "tls" /\ TlsNext /\ UNCHANGED <<htVars, arVars, rdVars, rp, dir, delivered>>
       \/ active = "arp" /\ ArpNext /\ UNCHANGED <<htVars, tlVars, rdVars, rp, dir, delivered>>
       \/ active = "reader" /\ ReaderNext /\ UNCHANGED <<htVars, tlVars, arVars, rp, dir, delivered>>
       \/ active = "report" /\ ReportNext /\ UNCHANGED <<htVars, tlVars, arVars, rdVars, dir, delivered>>
       \/ active = "loops" /\ Loops!Next /\ UNCHANGED <<htVars, tlVars, arVars, rdVars, rp>>

MCComponentsSpec ==
    MCComponentsInit /\ [][MCComponentsNext]_<<active, htVars, tlVars, arVars, rdVars, rp, dir, delivered>>

-----------------------------------------------------------------------------
(* Properties; the conjuncts are stated with the component they are about.  *)

\* Header buffers, tables, interface lists and findings stay within their caps, and
\* a TLS buffer never keeps a record that is complete.
ComponentsWithinCaps == HttpTypeOK /\ TlsTypeOK /\ TlsBufAwaitsMore /\ ArpTypeOK /\ ReaderTypeOK

\* How the stream is cut into on_data calls does not matter to HTTP and TLS: the
\* messages and hellos they count are those of the bytes so far.
ComponentsCuttingIrrelevant == HttpCuttingIrrelevant /\ TlsHellosExact

\* A direction that HTTP has given up (poisoned or full) and a flow TLS is done
\* with stay so, a direction is given up only for its own errors, and the totals
\* of TLS survive on_flow_close.
ComponentsSettledForGood == []HttpPoisonExact /\ HttpFullForGood /\ TlsDoneForGood /\ TlsTotalsKept

\* Every packet handed on has the time its block says, in the unit ticks_per_sec
\* gives its interface (clamped where the exponent is out of range), and no
\* interface is described after the first packet.
ReaderPacketsExact == []ReaderTimestampsExact /\ ReaderTableFrozen

\* What the reporter prints is what was found: each finding is in the one group of
\* its kind or its tactic, groups keep the order and the first evidence, the
\* counters of ARP are those of its findings.
ReportsFaithful ==
    /\ active = "report" =>
          ReportComplete /\ ReportCollapseStable /\ ReportEvidenceEarliest /\ ReportTacticsAgree
    /\ ArpCountersExact

\* The cursor sweep of select_gaps finds exactly the runs no segment holds, and the
\* while loop of flush_contiguous takes exactly the run the buffer model takes.
LoopsAgree == active = "loops" => Loops!SweepFindsTheGaps /\ Loops!FlushLoopTakesTheRun
=============================================================================
