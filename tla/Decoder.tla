------------------------------ MODULE Decoder -------------------------------
(***************************************************************************)
(* The decoder of src/decoder.rs, with the packet analyzers that sit right *)
(* behind it: the summary of src/summary.rs and the DNS counters of        *)
(* src/analyzer/dns.rs.                                                    *)
(*                                                                         *)
(* A packet is abstracted to what was sent and how much of it was          *)
(* captured: kind ("ip", "arp", "other"), sound (no header contradicts     *)
(* itself), cut (the first part that is missing: "link", "net",            *)
(* "transport", "payload"; "ext" when only the length of a link extension  *)
(* is wrong; "none"), standard (an Ethernet/IPv4 ARP header), and for IP   *)
(* src_ip, dst_ip, transport, src, dst (ports) and query (the captured      *)
(* payload holds a DNS header whose QR bit is clear).                      *)
(***************************************************************************)
EXTENDS Integers, Sequences, FiniteSets

RawLinks == {"RAW", "IPV4", "IPV6"}

DecodableLinks == {"ETHERNET", "LINUX_SLL"} \cup RawLinks

-----------------------------------------------------------------------------
(* etherparse: SlicedPacket fails with "content" or "len", or yields a     *)
(* network layer, which may be "none".  LaxSlicedPacket fails, yields a    *)
(* layer, or yields none and says at which it stopped.                     *)

NetLayer(p) == IF p.kind = "other" THEN "none" ELSE p.kind

StrictSlice(p, link) ==
    IF ~p.sound \/ (link \in RawLinks /\ p.kind # "ip") \/ (link = "LINUX_SLL" /\ p.cut = "link")
    THEN "content"
    ELSE IF p.cut = "none" THEN NetLayer(p)
    ELSE "len"

LaxSlice(p, link) ==
    CASE p.cut = "link" \/ (p.cut = "net" /\ link \in RawLinks) -> "error"
      [] p.cut = "ext" -> NetLayer(p)
      [] p.cut \in {"transport", "payload"} /\ p.kind = "ip" -> "ip"
      [] OTHER -> IF p.kind = "arp" THEN "stopped at arp" ELSE "none"

-----------------------------------------------------------------------------
(* decode_packet                                                           *)

Failed(message) == [frame |-> "Err", message |-> message]

MalformedArp == Failed("Non-Ethernet/IPv4 ARP frame")

\* the transport is known if its header was captured
BuildParsed(p) ==
    LET seen == IF p.cut = "transport" THEN "other" ELSE p.transport
    IN  [ protocol |-> seen,
          src_ip |-> p.src_ip, dst_ip |-> p.dst_ip,
          ports |-> IF seen \in {"tcp", "udp"} THEN <<p.src, p.dst>> ELSE <<>>,
          query |-> p.query ]

ExtractArpFrame(p) == IF p.standard THEN [frame |-> "Arp"] ELSE MalformedArp

\* Faulty variant: every ARP frame that is cut short is taken for a truncation.
StoppedAtArpBlind(p, link) == Failed("truncated ARP frame")

\* The slicer stopped inside the ARP packet: malformed if the fixed header can be
\* read, which is looked for behind an Ethernet header only, and is not standard.
StoppedAtArp(p, link) ==
    IF link = "ETHERNET" /\ p.cut = "payload" /\ ~p.standard THEN MalformedArp
    ELSE Failed("truncated ARP frame")

LaxDecode(p, link) ==
    LET net == LaxSlice(p, link)
    IN  CASE net = "error" -> Failed("Parse error")
          [] net = "arp" -> ExtractArpFrame(p)
          [] net = "ip" -> [frame |-> "Ip", parsed |-> BuildParsed(p)]
          [] net = "stopped at arp" -> StoppedAtArp(p, link)
          [] net = "none" -> Failed("No IP layer found")

DecodePacket(p, link) ==
    IF link \notin DecodableLinks THEN Failed("Unsupported link type")
    ELSE LET net == StrictSlice(p, link)
         IN  CASE net = "arp" -> ExtractArpFrame(p)
               [] net = "ip" -> [frame |-> "Ip", parsed |-> BuildParsed(p)]
               [] net = "none" -> Failed("No IP layer found")
               [] net = "len" -> LaxDecode(p, link)
               [] net = "content" -> Failed("Parse error")

-----------------------------------------------------------------------------
(* Summary                                                                 *)

\* in the order in which app_protocol_hint tries them
HintPorts ==
    << <<53, "DNS">>, <<80, "HTTP">>, <<443, "TLS">>, <<22, "SSH">>, <<445, "SMB">>,
       <<502, "Modbus">>, <<20000, "DNP3">> >>

AppProtocolHint(parsed) ==
    LET hits == {i \in DOMAIN HintPorts : \E j \in DOMAIN parsed.ports : parsed.ports[j] = HintPorts[i][1]}
    IN  IF hits = {} THEN "none" ELSE HintPorts[CHOOSE i \in hits : \A j \in hits : i <= j][2]

Count(f, k) ==
    [l \in DOMAIN f \cup {k} |-> (IF l \in DOMAIN f THEN f[l] ELSE 0) + (IF l = k THEN 1 ELSE 0)]

NoCounts == [k \in {} |-> 0]

NewSummary ==
    [ total_packets |-> 0, skipped_packets |-> 0, hosts |-> {}, protocols |-> NoCounts,
      services |-> NoCounts ]

Ingest(s, parsed) ==
    LET svc == AppProtocolHint(parsed)
    IN  [s EXCEPT !.total_packets = @ + 1,
                  !.hosts = @ \cup {parsed.src_ip, parsed.dst_ip},
                  !.protocols = Count(@, parsed.protocol),
                  !.services = IF svc = "none" THEN @ ELSE Count(@, svc)]

-----------------------------------------------------------------------------
(* DNS                                                                     *)

NewDns == [query_count |-> 0, response_count |-> 0]

CanDecode(parsed) == \E i \in DOMAIN parsed.ports : parsed.ports[i] = 53

DnsAnalyze(d, parsed) ==
    IF parsed.query THEN [d EXCEPT !.query_count = @ + 1] ELSE [d EXCEPT !.response_count = @ + 1]
=============================================================================
