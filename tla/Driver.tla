------------------------------- MODULE Driver -------------------------------
(***************************************************************************)
(* The commands of src/main.rs: analyze and summary, which walk over the   *)
(* targets, their files and the packets of each, and write one report at   *)
(* the end; and protocols, which lists the catalog.                        *)
(*                                                                         *)
(* A run has cli, the options after clap, and targets.  A target is a      *)
(* "file", a "dir" or "missing"; files is what it holds, and a dir that is *)
(* not listable fails in read_dir.  A file has name, magic (it begins like *)
(* a capture), readable (PcapSource::from_file succeeds: see Reader), link *)
(* and count packets, each one of packets.  What the reassembler and the   *)
(* analyzers behind it do is kept to what the driver sees of it: the       *)
(* packets of a flow open it, its end is passed on to the analyzer app     *)
(* that classify gives it, and there makes one finding.                    *)
(***************************************************************************)
EXTENDS Decoder, Catalog

CONSTANT DriverRun      \* the runs

Commands == {"analyze", "summary", "protocols"}

\* a packet, as far as the decoder looks into it: see Decoder
CapturedPacket(p) ==
    /\ p.kind \in {"ip", "arp", "other"}
    /\ p.cut \in {"none", "link", "net", "ext", "transport", "payload"}
    /\ p.sound \in BOOLEAN /\ p.standard \in BOOLEAN

\* A file that from_file accepts has a link type that decode_packet knows: see
\* ReaderWhole.
ASSUME DriverAssumption ==
    \A run \in DriverRun :
        /\ run.cli.command \in Commands
        /\ run.targets \in Seq({run.targets[i] : i \in DOMAIN run.targets})
        /\ \A i \in DOMAIN run.targets : \A f \in run.targets[i].files :
              f.readable => /\ f.link \in DecodableLinks
                            /\ f.count \in Nat
                            /\ \A p \in f.packets : CapturedPacket(p)

VARIABLES
    dr,         \* the state of the process
    drRun,      \* the run
    drSeen      \* history: the packets read, each with the link type of its file

drVars == <<dr, drRun, drSeen>>

StreamAnalyzers == <<"http", "tls", "modbus", "dnp3", "enip", "iec104">>

\* the order of the summaries in the report
Analyzers == <<"reassembly", "dns">> \o StreamAnalyzers \o <<"arp">>

-----------------------------------------------------------------------------
(* The set-up of run_analyze                                               *)

NeedsReassembly(c) == c.reassemble \/ \E i \in DOMAIN StreamAnalyzers : StreamAnalyzers[i] \in c.enabled

HasReassembler(c) == NeedsReassembly(c) /\ ~c.no_reassemble

\* the analyzers handed to the dispatcher
Present(c) ==
    IF c.no_reassemble THEN {} ELSE {StreamAnalyzers[i] : i \in DOMAIN StreamAnalyzers} \cap c.enabled

ResolveFormat(c) ==
    CASE c.json # "absent" -> "json"
      [] c.json = "absent" /\ c.csv # "absent" -> "csv"
      [] OTHER -> c.output_format

-----------------------------------------------------------------------------
(* One packet                                                              *)

\* a flow that ends: on_flow_close of the dispatcher
CloseFlow(d, c, flow) ==
    IF flow.app \in Present(c)
    THEN [d EXCEPT !.open = @ \ {flow}, !.found = Count(@, flow.app)]
    ELSE IF flow.app = "none" /\ Present(c) # {} /\ c.coverage_gaps
    THEN [d EXCEPT !.open = @ \ {flow}, !.tcp_gaps = Count(@, <<"Tcp", flow.port>>)]
    ELSE [d EXCEPT !.open = @ \ {flow}]

Lower(ports) == IF ports[1] < ports[2] THEN ports[1] ELSE ports[2]

\* process_packet of the reassembler, as far as the driver sees it
ProcessPacket(d, c, p, parsed) ==
    LET flow   == [app |-> p.app, port |-> Lower(parsed.ports)]
        noted  == [d EXCEPT !.found = IF p.anomaly THEN Count(@, "reassembly") ELSE @]
        opened == [noted EXCEPT !.open = @ \cup {flow}]
    IN  IF parsed.protocol # "tcp" THEN d
        ELSE IF p.fin THEN CloseFlow(opened, c, flow)
        ELSE opened

HasUdpGap(parsed) == ~CanDecode(parsed) /\ parsed.protocol = "udp"

OnIp(d, c, p, parsed) ==
    LET counted == [d EXCEPT !.summary = Ingest(@, parsed),
                             !.dns = IF "dns" \in c.enabled /\ CanDecode(parsed)
                                     THEN DnsAnalyze(@, parsed) ELSE @]
        passed  == IF HasReassembler(c) THEN ProcessPacket(counted, c, p, parsed) ELSE counted
    IN  IF c.coverage_gaps /\ HasUdpGap(parsed)
        THEN [passed EXCEPT !.udp_gaps = Count(@, <<"Udp", Lower(parsed.ports)>>)]
        ELSE passed

\* process_arp, which makes a finding of some frames: see Arp
OnArp(d, c, p) ==
    IF "arp" \notin c.enabled THEN d
    ELSE [d EXCEPT !.arp_frames = @ + 1, !.findings = IF p.anomaly THEN Append(@, "arp") ELSE @]

\* record_malformed, or the counter alone
OnMalformedArp(d, c) ==
    [d EXCEPT !.malformed_frames = @ + 1,
              !.findings = IF "arp" \in c.enabled THEN Append(@, "arp") ELSE @]

OnError(d) == [d EXCEPT !.decode_errors = @ + 1]

AnalyzePacket(d, c, p, frame) ==
    CASE frame.frame = "Ip" -> OnIp(d, c, p, frame.parsed)
      [] frame.frame = "Arp" -> OnArp(d, c, p)
      [] frame = MalformedArp -> OnMalformedArp(d, c)
      [] frame.frame = "Err" /\ frame # MalformedArp -> OnError(d)

\* summary makes no difference between the errors
SummaryPacket(d, frame) ==
    CASE frame.frame = "Ip" -> [d EXCEPT !.summary = Ingest(@, frame.parsed)]
      [] frame.frame = "Arp" -> d
      [] frame.frame = "Err" -> OnError(d)

-----------------------------------------------------------------------------
(* Targets and files                                                       *)

Resolves(t) == t.kind = "file" \/ (t.kind = "dir" /\ t.listable)

\* the files of a target; they are read by ascending name
ResolveTargets(t) == IF t.kind = "file" THEN t.files ELSE {f \in t.files : f.magic}

IsFirst(f, files) == \A g \in files : f.name <= g.name

Exit(d, code) == [d EXCEPT !.phase = "done", !.code = code]

\* Faulty variant: a file that cannot be read ends the run.
OpenFileBailing(d, f) ==
    IF ~f.readable THEN Exit(d, 1)
    ELSE [d EXCEPT !.link = f.link, !.packets = f.packets, !.left = f.count]

\* Faulty variant: the flag is that of the last file.
OpenFileForgetting(d, f) ==
    IF ~f.readable THEN [d EXCEPT !.any_error = TRUE]
    ELSE [d EXCEPT !.link = f.link, !.packets = f.packets, !.left = f.count, !.any_error = FALSE]

\* a file that cannot be read is reported and skipped, and so is one without packets
OpenFile(d, f) ==
    IF ~f.readable THEN [d EXCEPT !.any_error = TRUE]
    ELSE [d EXCEPT !.link = f.link, !.packets = f.packets, !.left = f.count]

-----------------------------------------------------------------------------
(* The report                                                              *)

AddCounts(f, g) ==
    [ k \in DOMAIN f \cup DOMAIN g |->
        (IF k \in DOMAIN f THEN f[k] ELSE 0) + (IF k \in DOMAIN g THEN g[k] ELSE 0) ]

\* Faulty variant: the flows that are still open are left alone.
FinalizeNot(d, c) == d

\* on_flow_close for every flow that is open, in any order
Finalize(d, c) ==
    LET known    == {flow \in d.open : flow.app \in Present(c)}
        unplaced == IF Present(c) # {} /\ c.coverage_gaps THEN {flow \in d.open : flow.app = "none"} ELSE {}
        found    == [a \in {flow.app : flow \in known} |-> Cardinality({flow \in known : flow.app = a})]
        gaps     == [k \in {<<"Tcp", flow.port>> : flow \in unplaced} |->
                        Cardinality({flow \in unplaced : flow.port = k[2]})]
    IN  IF ~HasReassembler(c) THEN d
        ELSE [d EXCEPT !.finalized = TRUE, !.open = {}, !.found = AddCounts(@, found),
                       !.tcp_gaps = AddCounts(@, gaps)]

Times(n, x) == [i \in 1 .. n |-> x]

FoundBy(d, a) == IF a \in DOMAIN d.found THEN Times(d.found[a], a) ELSE <<>>

Collect(d, c) ==
    FoundBy(d, "reassembly") \o FoundBy(d, "http") \o FoundBy(d, "tls") \o FoundBy(d, "modbus")
        \o FoundBy(d, "dnp3") \o FoundBy(d, "enip") \o FoundBy(d, "iec104")

HasSummary(c, a) ==
    CASE a = "reassembly" -> HasReassembler(c)
      [] a \in {"dns", "arp"} -> a \in c.enabled
      [] OTHER -> a \in Present(c)

CollectAllGaps(d) == AddCounts(d.tcp_gaps, d.udp_gaps)

AnalyzeReport(d, c) ==
    LET done == Finalize(d, c)
    IN  [done EXCEPT !.phase = "write",
                     !.summary.skipped_packets = done.decode_errors,
                     !.output = [ findings |-> done.findings \o Collect(done, c),
                                  summaries |-> SelectSeq(Analyzers, LAMBDA a : HasSummary(c, a)),
                                  gaps |-> IF c.coverage_gaps /\ ResolveFormat(c) # "csv"
                                           THEN RenderGaps(CollectAllGaps(done)) ELSE <<>>,
                                  listing |-> <<>> ]]

SummaryReport(d) ==
    [d EXCEPT !.phase = "write",
              !.summary.skipped_packets = d.decode_errors,
              !.output = [findings |-> <<>>, summaries |-> <<>>, gaps |-> <<>>, listing |-> <<>>]]

Listing(c) ==
    LET protocols == CASE c.filter = "all" -> KNOWN_PROTOCOLS
                       [] c.filter = "supported" -> SupportedProtocols
                       [] c.filter = "unsupported" -> UnsupportedProtocols
    IN  [i \in DOMAIN protocols |-> [name |-> protocols[i].name, supported |-> IsProtocolSupported(protocols[i])]]

ProtocolsReport(d, c) ==
    [d EXCEPT !.phase = "write",
              !.output = [findings |-> <<>>, summaries |-> <<>>, gaps |-> <<>>, listing |-> Listing(c)]]

\* the report goes to a file, which may fail, or to stdout
WriteFails(c) == (c.json = "path" \/ c.csv = "path") /\ ~c.writable

WriteOutput(d, c) ==
    IF WriteFails(c) THEN Exit(d, 1)
    ELSE Exit([d EXCEPT !.written = TRUE], IF d.any_error THEN 1 ELSE 0)

-----------------------------------------------------------------------------
(* Behaviour                                                               *)

NewDriver(run) ==
    [ phase |-> "start", code |-> -1, any_error |-> FALSE,
      targets |-> run.targets, files |-> {}, link |-> "NULL", packets |-> {}, left |-> 0,
      summary |-> NewSummary, dns |-> NewDns, decode_errors |-> 0, arp_frames |-> 0,
      malformed_frames |-> 0, open |-> {}, found |-> NoCounts, findings |-> <<>>,
      tcp_gaps |-> NoCounts, udp_gaps |-> NoCounts, finalized |-> FALSE,
      output |-> <<>>, written |-> FALSE ]

DriverInit ==
    /\ drRun \in DriverRun
    /\ dr = NewDriver(drRun)
    /\ drSeen = <<>>

\* main, and the checks of run_analyze
DriverStart ==
    /\ dr.phase = "start"
    /\ dr' = LET c == drRun.cli
             IN  IF c.command = "protocols"
                 THEN IF ResolveFormat(c) = "csv" THEN Exit(dr, 1) ELSE ProtocolsReport(dr, c)
                 ELSE IF c.command = "analyze" /\ ~c.valid THEN Exit(dr, 1)
                 ELSE [dr EXCEPT !.phase = "files"]
    /\ UNCHANGED <<drRun, drSeen>>

DriverNextTarget ==
    /\ dr.phase = "files" /\ dr.left = 0 /\ dr.files = {} /\ dr.targets # <<>>
    /\ dr' = IF ~Resolves(Head(dr.targets)) THEN Exit(dr, 1)
             ELSE [dr EXCEPT !.targets = Tail(@), !.files = ResolveTargets(Head(dr.targets))]
    /\ UNCHANGED <<drRun, drSeen>>

DriverNextFile ==
    /\ dr.phase = "files" /\ dr.left = 0
    /\ \E f \in dr.files : IsFirst(f, dr.files) /\ dr' = OpenFile([dr EXCEPT !.files = @ \ {f}], f)
    /\ UNCHANGED <<drRun, drSeen>>

DriverNextPacket(p) ==
    /\ dr.phase = "files" /\ dr.left > 0
    /\ dr' = LET d == [dr EXCEPT !.left = @ - 1]
             IN  IF drRun.cli.command = "analyze"
                 THEN AnalyzePacket(d, drRun.cli, p, DecodePacket(p, dr.link))
                 ELSE SummaryPacket(d, DecodePacket(p, dr.link))
    /\ drSeen' = Append(drSeen, [packet |-> p, link |-> dr.link])
    /\ UNCHANGED drRun

DriverFinish ==
    /\ dr.phase = "files" /\ dr.left = 0 /\ dr.files = {} /\ dr.targets = <<>>
    /\ dr' = IF drRun.cli.command = "analyze" THEN AnalyzeReport(dr, drRun.cli) ELSE SummaryReport(dr)
    /\ UNCHANGED <<drRun, drSeen>>

DriverWrite ==
    /\ dr.phase = "write"
    /\ dr' = WriteOutput(dr, drRun.cli)
    /\ UNCHANGED <<drRun, drSeen>>

DriverStep ==
    \/ DriverStart \/ DriverNextTarget \/ DriverNextFile \/ DriverFinish \/ DriverWrite
    \/ \E p \in dr.packets : DriverNextPacket(p)

\* the process has exited
DriverExited == dr.phase = "done" /\ UNCHANGED drVars

DriverNext == DriverStep \/ DriverExited

\* A process that is not interrupted takes its next step.
DriverSpec == DriverInit /\ [][DriverNext]_drVars /\ WF_drVars(DriverStep)

-----------------------------------------------------------------------------
(* Properties                                                              *)

\* what a packet is, whatever path the decoder takes to find out
Nature(s) ==
    LET p == s.packet
    IN  CASE p.sound /\ p.kind = "ip" /\ p.cut \notin {"link", "net"} -> "ip"
          [] p.sound /\ p.kind = "arp" /\ s.link \notin RawLinks /\ p.cut \in {"none", "ext"} ->
                IF p.standard THEN "arp" ELSE "malformed"
          [] p.sound /\ p.kind = "arp" /\ s.link = "ETHERNET" /\ p.cut = "payload" /\ ~p.standard ->
                "malformed"
          [] OTHER -> "lost"

Seen(nature) == Cardinality({i \in DOMAIN drSeen : Nature(drSeen[i]) = nature})

\* Every packet of every file that was read is counted once and in the right
\* place, across the strict and the lax path of the decoder, and the two commands
\* agree: what summary skips is what analyze skips and the malformed ARP frames.
DriverPacketsAccounted ==
    /\ dr.summary.total_packets = Seen("ip")
    /\ IF drRun.cli.command = "analyze"
       THEN /\ dr.decode_errors = Seen("lost")
            /\ dr.malformed_frames = Seen("malformed")
            /\ dr.arp_frames = IF "arp" \in drRun.cli.enabled THEN Seen("arp") ELSE 0
       ELSE dr.decode_errors = Seen("lost") + Seen("malformed")

\* the packet at i is the last of its flow: it ends the flow, or no later one
\* belongs to it
EndsFlow(i) ==
    LET flow(j) == [app |-> drSeen[j].packet.app, port |-> Lower(<<drSeen[j].packet.src, drSeen[j].packet.dst>>)]
        tcp(j)  == /\ Nature(drSeen[j]) = "ip" /\ drSeen[j].packet.transport = "tcp"
                   /\ drSeen[j].packet.cut # "transport"
    IN  tcp(i) /\ (drSeen[i].packet.fin \/ \A j \in i + 1 .. Len(drSeen) : ~(tcp(j) /\ flow(j) = flow(i)))

Ended(app) == Cardinality({i \in DOMAIN drSeen : EndsFlow(i) /\ drSeen[i].packet.app = app})

\* A report that is written is complete.  Every flow of a protocol that was asked
\* for has been passed on to its analyzer, those still open at the end included,
\* and what the analyzer found is in the report, once; so are the flows nobody
\* could place, if gaps were asked for.  No gap is a UDP port that has an analyzer,
\* DNS enabled or not, or has the name of one of several protocols on its port.
DriverReportComplete ==
    LET c == drRun.cli
        reported(a) == Len(SelectSeq(dr.output.findings, LAMBDA f : f = a))
    IN  dr.written /\ c.command = "analyze" =>
            /\ \A i \in DOMAIN dr.output.gaps :
                  LET gap == dr.output.gaps[i]
                  IN  /\ gap.transport = "Udp" => gap.state # "known-supported"
                      /\ gap.name \notin {"none", "shared"} => Len(Entries(gap.transport, gap.port)) = 1
            /\ c.no_reassemble \/ \A i \in DOMAIN StreamAnalyzers :
                  StreamAnalyzers[i] \in c.enabled => reported(StreamAnalyzers[i]) = Ended(StreamAnalyzers[i])
            /\ c.coverage_gaps /\ ~c.no_reassemble /\ Present(c) # {} =>
                  Cardinality(UNION {{k} \X (1 .. dr.tcp_gaps[k]) : k \in DOMAIN dr.tcp_gaps}) = Ended("none")

\* The exit code is 1 exactly if the options, a target, a file or the output
\* failed: a file read after the one that failed does not make up for it.
DriverExitCode ==
    dr.phase = "done" =>
        LET c == drRun.cli
            invalid == (c.command = "analyze" /\ ~c.valid) \/ (c.command = "protocols" /\ ResolveFormat(c) = "csv")
            failed  == \E i \in DOMAIN drRun.targets :
                          \/ ~Resolves(drRun.targets[i])
                          \/ \E f \in drRun.targets[i].files :
                                ~f.readable /\ (drRun.targets[i].kind = "file" \/ f.magic)
        IN  dr.code = IF invalid \/ WriteFails(c) \/ (c.command # "protocols" /\ failed) THEN 1 ELSE 0

\* A run whose options are valid, whose targets exist and whose output can be
\* written gets its report, however many of its files cannot be read.
DriverReports ==
    (/\ drRun.cli.command # "protocols" /\ drRun.cli.valid /\ ~WriteFails(drRun.cli)
     /\ \A i \in DOMAIN drRun.targets : Resolves(drRun.targets[i])) ~> dr.written

\* main.rs: "The reassembler `finalize` call below is always reached (loop never
\* bails)."
FinalizeAlwaysReached ==
    dr.phase = "done" /\ drRun.cli.command = "analyze" /\ drRun.cli.valid /\ HasReassembler(drRun.cli) =>
        dr.finalized
=============================================================================
