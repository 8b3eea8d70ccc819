------------------------------ MODULE Catalog -------------------------------
(***************************************************************************)
(* The protocol catalog of src/protocols.rs and its uses in src/main.rs:   *)
(* the lists of the protocols command, and the state and name given to a   *)
(* coverage gap.  EtherTypes and descriptions are left out.                *)
(***************************************************************************)
EXTENDS Integers, Sequences, FiniteSets

SUPPORTED_PORTS == {502, 20000, 44818, 2404, 443, 8443, 80, 8080, 53}

Known(name, category, transport, ports) ==
    [name |-> name, category |-> category, transport |-> transport, canonical_ports |-> ports]

\* the group of protocols with an analyzer, as the table has it
AnalyzedProtocols ==
    << Known("Modbus/TCP", "ICS", "Tcp", {502}), Known("DNP3", "ICS", "Tcp", {20000}),
       Known("EtherNet/IP + CIP", "ICS", "Tcp", {44818}), Known("TLS", "IT", "Tcp", {443, 8443}),
       Known("ARP", "IT", "LinkLayer", {}), Known("DNS", "IT", "Udp", {53}),
       Known("HTTP", "IT", "Tcp", {80, 8080}) >>

IcsProtocols ==
    << Known("S7comm", "ICS", "Tcp", {102}), Known("S7comm-plus", "ICS", "Tcp", {102}),
       Known("IEC 60870-5-104", "ICS", "Tcp", {2404}), Known("IEC 61850 MMS", "ICS", "Tcp", {102}),
       Known("BACnet/IP", "ICS", "Udp", {47808}), Known("OPC-UA", "ICS", "Tcp", {4840}),
       Known("PROFINET RPC", "ICS", "Udp", {34962, 34963, 34964}),
       Known("ICCP/TASE.2", "ICS", "Tcp", {102}), Known("HART-IP", "ICS", "Udp", {5094}) >>

LinkLayerProtocols ==
    << Known("IEC 61850 GOOSE", "ICS", "LinkLayer", {}),
       Known("IEC 61850 Sampled Values", "ICS", "LinkLayer", {}),
       Known("PROFINET RT/DCP", "ICS", "LinkLayer", {}), Known("EtherCAT", "ICS", "LinkLayer", {}),
       Known("Ethernet POWERLINK", "ICS", "LinkLayer", {}) >>

ItProtocols ==
    << Known("SSH", "IT", "Tcp", {22}), Known("SMB", "IT", "Tcp", {445}), Known("RDP", "IT", "Tcp", {3389}),
       Known("FTP", "IT", "Tcp", {21}), Known("Telnet", "IT", "Tcp", {23}),
       Known("SNMP", "IT", "Udp", {161, 162}), Known("NTP", "IT", "Udp", {123}),
       Known("SMTP", "IT", "Tcp", {25}), Known("LDAP", "IT", "Tcp", {389}) >>

KNOWN_PROTOCOLS == AnalyzedProtocols \o IcsProtocols \o LinkLayerProtocols \o ItProtocols

SupportedProtocols ==
    SelectSeq(KNOWN_PROTOCOLS, LAMBDA p : p.canonical_ports \cap SUPPORTED_PORTS # {} \/ p.name = "ARP")

UnsupportedProtocols ==
    LET supported == {SupportedProtocols[i].name : i \in DOMAIN SupportedProtocols}
    IN  SelectSeq(KNOWN_PROTOCOLS, LAMBDA p : p.name \notin supported)

\* the "supported" column
IsProtocolSupported(p) ==
    p.name = "ARP" \/ \E i \in DOMAIN SupportedProtocols : SupportedProtocols[i].name = p.name

-----------------------------------------------------------------------------
(* Coverage gaps, keyed by transport and port                              *)

Entries(transport, port) ==
    SelectSeq(KNOWN_PROTOCOLS, LAMBDA p : p.transport = transport /\ port \in p.canonical_ports)

LookupProtocolState(transport, port) ==
    LET found == Entries(transport, port)
    IN  IF found = <<>> THEN "unknown"
        ELSE IF found[1].canonical_ports \cap SUPPORTED_PORTS # {} THEN "known-supported"
        ELSE "known-unsupported"

\* TCP/102 has a note in place of a name
GapName(transport, port) ==
    IF transport = "Tcp" /\ port = 102 THEN "shared"
    ELSE IF LookupProtocolState(transport, port) = "unknown" THEN "none"
    ELSE Entries(transport, port)[1].name

\* by port, TCP before UDP
GapOrder(a, b) == a[2] < b[2] \/ (a[2] = b[2] /\ a[1] = "Tcp" /\ b[1] = "Udp")

InGapOrder(keys) ==
    CHOOSE s \in [1 .. Cardinality(keys) -> keys] :
        \A i, j \in 1 .. Cardinality(keys) : i < j => GapOrder(s[i], s[j])

RenderGaps(counts) ==
    LET keys == InGapOrder(DOMAIN counts)
    IN  [ i \in DOMAIN keys |->
            [ transport |-> keys[i][1], port |-> keys[i][2], count |-> counts[keys[i]],
              state |-> LookupProtocolState(keys[i][1], keys[i][2]),
              name |-> GapName(keys[i][1], keys[i][2]) ] ]
=============================================================================
