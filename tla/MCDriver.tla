------------------------------ MODULE MCDriver ------------------------------
(* The driver over whole runs of the program, and the dispatcher under its *)
(* own inputs; active names the one that moves.                            *)
EXTENDS Driver, Dispatcher, TLC

CONSTANTS k1, k2, k3, k4

VARIABLE active

-----------------------------------------------------------------------------
(* Four flows: one on a Modbus and a TLS port, one on a Modbus port only,  *)
(* two on unknown ports with the same lower number.                        *)
MCPorts ==
    (k1 :> {502, 443}) @@ (k2 :> {502, 50000}) @@ (k3 :> {7, 50000}) @@ (k4 :> {7, 50001})

-----------------------------------------------------------------------------
(* Runs of the program: options and targets.                               *)
Cli(command, enabled) ==
    [ command |-> command, enabled |-> enabled, reassemble |-> FALSE, no_reassemble |-> FALSE, valid |-> TRUE,
      coverage_gaps |-> FALSE, json |-> "absent", csv |-> "absent", output_format |-> "terminal",
      filter |-> "all", writable |-> TRUE ]
Pkt(kind) ==
    [ kind |-> kind, sound |-> TRUE, cut |-> "none", standard |-> TRUE, src_ip |-> 1, dst_ip |-> 2,
      transport |-> "tcp", src |-> 40000, dst |-> 502, query |-> FALSE, app |-> "none",
      anomaly |-> FALSE, fin |-> FALSE ]
Tcp(app, port, fin) == [Pkt("ip") EXCEPT !.app = app, !.dst = port, !.fin = fin]
Udp(src, dst) == [Pkt("ip") EXCEPT !.transport = "udp", !.src = src, !.dst = dst]
TcpPackets == {Tcp("iec104", 2404, FALSE), Tcp("iec104", 2404, TRUE), [Tcp("modbus", 502, FALSE) EXCEPT !.anomaly = TRUE],
               Tcp("none", 102, FALSE)}
UdpPackets == {[Udp(40000, 53) EXCEPT !.query = TRUE], Udp(53, 5000), Udp(161, 40000), Udp(9, 7),
               [Udp(53, 5000) EXCEPT !.cut = "transport"]}
L2Packets == {[Pkt("arp") EXCEPT !.standard = s, !.cut = cut, !.anomaly = s] : s \in BOOLEAN, cut \in {"none", "ext", "payload", "net"}}
                 \cup {Pkt("other"), [Pkt("ip") EXCEPT !.cut = "net"], [Pkt("ip") EXCEPT !.cut = "link"], [Pkt("ip") EXCEPT !.sound = FALSE]}
F(name, readable, link, packets, count) ==
    [name |-> name, magic |-> TRUE, readable |-> readable, link |-> link, packets |-> packets, count |-> count]
One(f) == [kind |-> "file", listable |-> TRUE, files |-> {f}]
Dir(files) == [kind |-> "dir", listable |-> TRUE, files |-> files]
Bad == F(2, FALSE, "NULL", {}, 0)
Text == [Bad EXCEPT !.name = 5, !.magic = FALSE]
Targets(packets, link) ==
    { <<One(F(1, TRUE, link, packets, 2)), Dir({Bad, Text, F(3, TRUE, link, packets, 1), F(4, TRUE, link, packets, 0)})>>,
      <<One(F(1, TRUE, link, packets, 2)), [Dir({}) EXCEPT !.listable = FALSE]>>,
      <<One(F(1, TRUE, link, packets, 3)), Dir({Text})>>,
      <<One(F(1, TRUE, link, packets, 1)), [kind |-> "missing", listable |-> FALSE, files |-> {}]>> }
Run(cli, targets) == [cli |-> cli, targets |-> targets]
AnalyzeClis == { [Cli("analyze", {"modbus", "iec104"}) EXCEPT !.coverage_gaps = TRUE], Cli("analyze", {"iec104"}),
                 [Cli("analyze", {"http", "dns"}) EXCEPT !.coverage_gaps = TRUE, !.csv = "path"],
                 [Cli("analyze", {}) EXCEPT !.coverage_gaps = TRUE, !.reassemble = TRUE, !.json = "path", !.writable = FALSE],
                 [Cli("analyze", {"tls", "dns", "arp"}) EXCEPT !.no_reassemble = TRUE, !.coverage_gaps = TRUE] }
MCDriverRuns ==
    {Run(c, t) : c \in AnalyzeClis \cup {Cli("summary", {})},
                 t \in Targets(TcpPackets, "ETHERNET") \cup Targets(UdpPackets, "RAW")}
    \cup {Run(c, t) : c \in {Cli("analyze", {"arp"}), Cli("analyze", {"dnp3"}), [Cli("summary", {}) EXCEPT !.csv = "stdout"]},
                      t \in Targets(L2Packets, "ETHERNET") \cup Targets(L2Packets, "LINUX_SLL")}
    \cup {Run([Cli("analyze", {"modbus"}) EXCEPT !.valid = FALSE], <<>>)}
    \cup {Run([Cli("protocols", {}) EXCEPT !.filter = f], <<>>) : f \in {"all", "supported", "unsupported"}}
    \cup {Run([Cli("protocols", {}) EXCEPT !.output_format = "csv"], <<>>), Run([Cli("protocols", {}) EXCEPT !.json = "path"], <<>>)}

-----------------------------------------------------------------------------
\* beside the dispatcher the driver rests, in a run that reads no packet
MCDriverInit ==
    /\ active \in {"driver", "dispatcher"}
    /\ DriverInit /\ Init
    /\ active = "dispatcher" => drRun = Run(Cli("protocols", {}), <<>>)

MCDriverNext ==
    /\ UNCHANGED active
    /\ \/ active = "driver" /\ DriverNext /\ UNCHANGED disp
       \/ active = "dispatcher" /\ Next /\ UNCHANGED drVars

\* A process that is not interrupted takes its next step.
MCDriverSpec ==
    /\ MCDriverInit
    /\ [][MCDriverNext]_<<active, drVars, disp>>
    /\ WF_drVars(active = "driver" /\ DriverStep)
=============================================================================
