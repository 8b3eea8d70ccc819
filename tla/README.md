# TLA+ verification of wirerust

wirerust is an offline capture analyser: it reads PCAP files, decodes packets,
reassembles TCP streams and hands them to protocol analyzers that emit findings.
This directory holds TLA+ models of the program from the reader to the report,
TLC runs on small instances, and TLAPS proofs, for every size, about the segment
buffer, the reassembly engine, the dispatcher, the DNP3 analyzer, the ARP tables,
the capture reader and the driver.

## The system

The program is single-threaded; each packet is handled to the end before the
next. What makes it hard is not concurrency but the input: packets come out of
order, duplicated, overlapping, with wrapped sequence numbers and with
timestamps in any order (several files share one engine); streams are cut into
chunks at any byte and the two directions interleave; and fixed limits cut in at
any point.

| part | source | state | operations |
|---|---|---|---|
| driver | `main.rs` | finding list, error flag, gap counts | the loop over targets, files and packets; finalize; report |
| reader | `reader.rs` | interface table, packets, counters of one file | block by block |
| decoder | `decoder.rs` | none | packet bytes to a parsed packet, an ARP frame or an error |
| segment buffer | `reassembly/segment.rs`, `flow.rs` | ISN, flush cursor, segment map, counters | `set_isn`, `infer_isn`, `insert_segment`, `flush_contiguous` |
| engine | `reassembly/mod.rs`, `lifecycle.rs`, `flow.rs` | flow table, memory, findings, sweep marks | `process_packet`, `expire_flows`, `finalize` |
| dispatcher | `dispatcher.rs` | routes, retry counts, gap counts | `on_data`, `on_flow_close` |
| stream analyzers | `analyzer/{http,tls,modbus,dnp3,enip,iec104}.rs` | per-flow buffers, tables, windows | `on_data`, `on_flow_close`, `summarize` |
| unrouted analyzer | `analyzer/{s7comm,iso_on_tcp}.rs` | per-flow carry and session state | `on_data`, `on_flow_close`; nothing routes to it yet |
| packet analyzers | `analyzer/{arp,dns}.rs` | ARP bindings and windows; DNS counters | per frame |
| report and tables | `reporter/`, `findings.rs`, `mitre.rs`, `protocols.rs`, `summary.rs` | counters, static tables | grouping, look-up, formatting |

The engine calls the dispatcher (its `StreamHandler`) while it processes a
packet; the dispatcher calls the analyzer of the flow's route. The driver calls
`finalize` once at the end, which closes every flow left, and then collects the
findings.

Correct means: a direction delivers one byte per position, in order, the first
one received; memory, flow, table and finding limits hold whatever arrives; every
flow is created, closed and counted once; no state of a closed flow reaches a
later flow with the same key; idle flows are swept; what an analyzer makes of a
stream does not depend on how the stream was cut, as far as its buffers reach; a
rate detector fires once per window, whatever the clock does; a file is read
whole or not at all; and what was found is in the report.

## Modules

| module | models | correspondence |
|---|---|---|
| `FlowDirection` | `segment.rs`, `FlowDirection` of `flow.rs` | one operator per method, from record to record; no variables |
| `SegmentBuffer` | one direction under `process_packet` | `ReceiveSyn`, `ReceivePayload` (insert, then flush) |
| `StreamDelivery` | what a direction promises | an abstract tape: a written position keeps its byte, positions are read in order |
| `SegmentLoops` | the literal loops of `select_gaps` and `flush_contiguous` | compared with the set form of `FlowDirection` |
| `Reassembler` | `mod.rs`, `lifecycle.rs`, `TcpFlow` | `ProcessPacket` is the whole of `process_packet`; its sub-steps are operators named after the methods |
| `Dispatcher` | `dispatcher.rs` | `OnData`, `OnFlowClose`, `Classify` |
| `Pipeline` | engine with dispatcher | the calls of a packet are applied in the same step |
| `StreamAnalysis` | what the analyzers share | capped tables and findings, saturating ages, byte streams cut into chunks |
| `Modbus`, `Dnp3`, `Enip`, `Iec104`, `S7comm` | the ICS analyzers | one action for `on_data` with a chunk, one for `on_flow_close`; the walk over the carry is a bounded loop |
| `Http`, `Tls` | the two IT analyzers | likewise, with the parse loops of each |
| `Arp` | `arp.rs` | `ArpFrame` is `process_arp`, `ArpMalformed` is `record_malformed` |
| `Reader` | `reader.rs` | one action per block or record, one to open, one to end |
| `Decoder` | `decoder.rs`, `summary.rs`, `dns.rs` | operators; etherparse is external |
| `Catalog` | `protocols.rs`, gap look-up of `main.rs` | the tables as sets of records |
| `Driver` | `main.rs` | one action per target, file and packet, one to finish, one to write; errors end the run where the code returns |
| `Report` | `terminal.rs`, `mitre.rs`, `json_dto.rs` | the four modes of the findings section as operators on the list |
| `FlowDirectionTheorems`, `FlowTheorems`, `EngineTheorems`, `ProcessPacketTheorems` | | lemmas about one direction, one flow and its calls, the table, and one packet |
| `ComponentProofs` (segment buffer, ARP), `ReassemblerProofs`, `Dnp3Proofs`, `DriverProofs` (reader, driver, dispatcher) | | theorems |
| `MC*` | | instances for TLC |

Each operator commented "Faulty variant" is a plausible mistake in the operator
after it. No specification uses it; substituting it shows that a property can
fail.

Abstractions:

- Bytes of a TCP stream in the engine are model values. In an analyzer a byte is
  a cell, byte *i* of frame *f*: what the code reads from a complete header are
  the fields of *f*, and a header read out of its place is recognised as such.
- A chunk at the dispatcher is the kind of its first bytes and its length.
- Findings are kept by kind or counted, not worded. Counters and fields that
  nothing reads are dropped and named in the module's header.
- The order of calls for different keys, which `HashMap` iteration decides, is
  dropped. Ties in an eviction order, also left to `HashMap`, are a
  nondeterministic choice.
- `httparse`, `etherparse`, `tls_parser` and `pcap_file` are represented by their
  verdict on a piece of input; the verdicts that can occur are in the inputs.
- In `Driver` a flow is opened by its packets and closed by its end or by
  `finalize`, and its close makes one finding in the analyzer of the flow. What
  happens in between is in `Pipeline` and in the analyzers' own modules.

## Runs

| run | instance | shows |
|---|---|---|
| `segment_buffer` | 2 byte values, 5 sequence numbers, payloads to 3 bytes, depth 4, 2 segments, window 3 | disjoint segments, exact byte count, depth and segment limits, contiguous delivery, refinement of `StreamDelivery` |
| `reassembler` | 3 clients, 2 flow slots, 1 byte of memory, 4 packets, 1 finding | memory, limits, flow accounting, findings cap, sides, handler calls |
| `flow_expiry` | 2 clients, 6 packets, times 0..3 in any order | both sweeps |
| `pipeline` | 2 clients, 1 flow slot, 4 packets | dispatcher state follows live flows through every kind of close and key reuse |
| `ics` | one flow, 3 frames or calls per analyzer, carries of 3 to 5 bytes, thresholds 1 or 2, 3 findings | carries and their caps, pending tables, windows and latches, session state, totals after a close |
| `components` | HTTP: 4 events, buffer 4, poison after 2; TLS: records of 2 + 4 bytes, buffer 11; ARP: 5 frames, 3 IPs for 2 slots; reader: 5 blocks, 2 interfaces; report: 4 findings; segment loops: 7 sequence numbers, payloads to 4, 3 segments | the properties in the table below |
| `driver` | all options that change the control flow, up to 2 targets with missing, unreadable and empty files, intact and cut packets | packet accounting, complete report, exit code, truthful gaps, and that a report comes |
| `driver`, dispatcher part | 4 flows, 3 attempts, HTTP and TLS enabled | routes, retries, forwarding, gap counts |

`MCIcs`, `MCComponents` and `MCDriver` put several modules into one state space: a
variable chooses which one runs, the others stay as they were created. Nothing
interacts; it only keeps the number of runs small.

`MCIcs` and `MCComponents` join what the modules say separately into one property per
theme; the conjuncts are stated, with their reasons, in the modules.

| property | conjuncts |
|---|---|
| `IcsWithinCaps`, `ComponentsWithinCaps` | the type invariants, which carry the caps of carries, tables and findings; `TlsBufAwaitsMore` |
| `IcsCarriesSound` | `ModbusCarryExact`, `EnipCarryExact`: a carry is the unfinished frame of its direction. `Dnp3CarryAwaitsMore`: it waits for more. `EnipNeverGivenUp`, `Iec104CarryBounded`, `S7CarryBounded`: the overflow paths are never taken |
| `IcsLatchesExact`, `ArpLatchesExact` | a detector has fired exactly if its window holds what it takes, with clocks that go back (`saturating_sub`). `Iec104MalformedOnce`: one report per direction. The malformed frames of DNP3 are the exception, since their detector is silent at the last second of the window: `Dnp3LatchesExact` has one direction of the equivalence, and `Dnp3MalformedExact` says of every chunk what it counts and exactly when it sets the latch, with times below, at and above the window |
| `IcsTotalsKept` | what `summarize` adds up from closed and open flows never goes back |
| `IcsSettledForGood` | `ModbusGivenUpForGood`; `ModbusPendingNotEvicted`: a full table drops the new request; `Dnp3EstablishedKept`: a DNP3 flow with a frame is never given up; `S7ProtocolLocked` |
| `IcsCuttingIrrelevant` | `Iec104CuttingIrrelevant` compares the flow with one fed frame by frame; `S7SessionExact` and `S7MalformedExact` with what was sent |
| `IcsEventsAccounted` | `EnipFramesAccounted`: a header read again with each chunk is counted once; `ModbusWritesReported`: each write is in the list or in `dropped_findings` |
| `ComponentsCuttingIrrelevant` | `HttpCuttingIrrelevant`, `TlsHellosExact` |
| `ComponentsSettledForGood` | `HttpPoisonExact`; `HttpFullForGood`: a full header buffer stays full, silently, until the flow closes; `TlsDoneForGood`; `TlsTotalsKept` |
| `ReaderPacketsExact` | `ReaderTableFrozen`; `ReaderTimestampsExact`: the time in the unit `ticks_per_sec` gives, clamped for extreme exponents |
| `ReportsFaithful` | `ReportComplete`, `ReportCollapseStable`, `ReportEvidenceEarliest`, `ReportTacticsAgree`, `ArpCountersExact` |
| `LoopsAgree` | `SweepFindsTheGaps`, `FlushLoopTakesTheRun` |

`Dnp3NoOverdueRequest`: no request outlives the first chunk after its timeout.
`ArpBindingsCurrent`, `ArpRebindsReported`: an eviction loses history but leaves
no wrong binding and no unreported change. In TLS the cutting does matter once
both hellos were seen: a second ClientHello in the same chunk is still counted, in
a later chunk it is not. `TlsHellosExact` therefore speaks of the hellos up to
the last one awaited.

The bounds are small but each limit is reached: the sequence space is smaller
than the depth plus the window, so numbers wrap; a payload is longer than the
room left; one payload can leave two gaps with one free segment slot; there are
more clients than flow slots, more IPs than binding slots, and more findings than
the cap takes. An analyzer's capture is an alphabet of frames per direction,
chosen so that every branch of its walk and every detector is taken; the chunks
end at every byte of a frame and of the one after it. Two timestamps are enough
for a window to hold, expire, and see a clock that goes back; the DNP3 capture
with malformed frames has a third, at the length of the window. The report
instance has findings of five tactics; that its tables agree is checked for every
technique.

`MaxPackets`, `MaxUnclassified`, `MaxModbusPdus`, `MaxDnp3Events`,
`MaxEnipEvents`, `MaxIec104Apdus`, `MaxS7Frames`, `MaxHttpEvents`, `MaxTlsCloses`,
`MaxArpFrames`, `MaxBlocks` and `MaxReported` bound the model only; the other
constants stand for limits, widths and header lengths of the program, made small
(`SeqSpace` for 2^32, `CountMax` for the u32 maximum, `U32_MAX` and `U64_MAX` for
theirs, `TlsHeaderLen` of 2 for 5 bytes). Bytes and clients are interchangeable,
which the symmetry sets of the runs use. The packet bound of `reassembler` is
short: what needs five packets or more on a full table is not covered by it.
Deadlock is not checked in `ics` and `components`, where a capture ends; it is
checked in all other runs.

Fairness: `DriverSpec` has weak fairness of its next-state relation. The program
is one thread without waiting, so a process that is not interrupted takes its
next step. Under it `DriverReports` holds: a run with valid options, existing
targets and a writable output comes to its report, however many of its files
cannot be read. No other specification claims liveness: packets come from a finite
file, so "eventually" is stated as what holds after a step (`SweepComplete`,
`Dnp3NoOverdueRequest`) or within a number of packets (`IdlePacketsBounded`).

### Where comments and code disagree

These runs check what a comment or test says, and TLC finds it violated.

- `PrefixDelivered`: a retransmission that begins before the flush cursor and ends
  after it is stored under its start offset, where the flush never looks. The
  bytes after the cursor are not delivered, and later copies count as
  duplicates.
- `NoIdleFlowEscapes`: after a late timestamp the time sweep is off until
  capture time passes it. The packet-count sweep still runs.
- `KnownPortsNeverGaps`: a port-502 flow that closes without data is counted as
  a gap of port 502.
- `FinalizeAlwaysReached`: `resolve_targets(target)?` is inside the loop that
  "never bails". A second target that does not exist ends the run before
  `finalize`; nothing of the first target is reported.
- `MalformedReported`: the DNP3 correlation window is reset after more than
  `CORRELATION_WINDOW_SECS`, and malformed frames are reported within less. An
  error at exactly that time is counted, and if it reaches the threshold no
  finding says so, unless a later one in the window comes with an earlier
  timestamp.

Three smaller ones have no run of their own. The guard against segments behind
the flush cursor lets through one that ends exactly at it, which then stays in the
map until the flow closes. `on_fin` counts FINs, not sides, so a
repeated FIN of one side closes a flow with the reason documented as mutual; a
test expects this. A conflicting segment that also fills a gap gives no
conflicting-overlap finding; tests expect this, the module comment does not.

## Proofs

What is proved holds for every value of the constants that satisfies the named
assumptions; each proof rests on an inductive invariant that TLC checked first.

**Segment buffer** (`ComponentProofs`, lemmas in `FlowDirectionTheorems`;
assumptions `DirectionConstants`, `PayloadAssumption`: positive limits, payloads
are finite byte sequences). `TypeCorrect` (types, depth and segment limits),
`ExactAccounting`, `ContiguousDelivery`, `BuffersFirstWins`, and `Refinement` of
`StreamDelivery`. The invariant `IInv` is `DirectionInv` of the record, the
delivered length equal to `reassembled_bytes`, and nothing stored at the cursor.
The checked invariants lean on one another: the depth limit needs
`buffered_bytes` to be exact; exactness needs the segments disjoint, so that a
gap adds its length; contiguity needs the cursor to be `reassembled_bytes + 1`,
which needs the flush to count what it removes. There is one lemma per method
(`SetIsnInv`, `StoreSegmentInv`, `InsertSegmentInv`, `FlushProperties`).
First-wins and the refinement follow from what one step does to a position
(`NextPositionStep`).

**Dispatcher** (`DriverProofs`; assumption `DispatcherConstants`).
`DispatcherTyped`, `DispatcherHeld`, `DispatcherGaps`, `DispatcherRoutes`. The
invariant `Sound` adds to the checked ones that the port counts are finite sets
of pairs that are counted exactly, without which one more gap need not be one
more in the sum.

**ARP** (`ComponentProofs`; assumption `ArpAssumption`). `ArpTablesCapped`, `ArpLatches`,
`ArpCurrent`, `ArpRebindsAllReported`. The invariant `ArpInv` adds that only
announced addresses are bound, and that both tables are finite: a cap on the size
of a table says nothing while the table might be infinite.

**Reader** (`DriverProofs`; assumption `ReaderAssumption`). `ReaderTableCapped`,
`ReaderAccountsForAll`, `ReaderOneTable`. The invariant says of a file being read
that its counters add up to the blocks seen, that its table is capped, and that
all its interfaces have one link type, which is supported once there is a packet;
a file that failed has nothing to say.

**Driver** (`DriverProofs`; assumption `DriverAssumption`: a readable file has a
link type the decoder knows, which `Reader` shows, and packets as the decoder can
meet them). `PacketsCounted`: each packet read is in exactly one of the counters
that its nature calls for. `ExitCodeRight`: the exit code is 1 exactly if the
options, a target, a file that is read, or the output failed. The invariant
`DriverInv` holds between any two packets: the counters account for the packets
seen so far (`Accounted`), and the error flag together with the targets and files
still ahead tells whether the run fails (`ExitInv`). The property speaks of the
end only, and the flag alone is not enough before it. `DecodeNature` says that the strict
and the lax path of the decoder agree on what a packet is.

**DNP3** (`Dnp3Proofs`; assumption `Dnp3Assumption`: a header of
at least 3 bytes, positive thresholds and request table, frames of at least one
byte, timestamps and the window are naturals). `Dnp3NoneOverdue`: no request outlives the first
chunk after its timeout. `Dnp3TablesCapped`, `Dnp3CarriesAwait`,
`Dnp3Established` and `Dnp3Latches` are the DNP3 parts of `IcsWithinCaps`,
`IcsCarriesSound`, `IcsSettledForGood` and `IcsLatchesExact`; `Dnp3Malformed` is
the action property `Dnp3MalformedExact` of the latter. The invariant
`Dnp3Inv` says of each flow that its tables are finite and within their caps, its
latches agree with its windows, its carries wait for more, it is given up only
before its first frame, a window that has not begun has no errors (`Begun`), and no
request is overdue at the flow's last timestamp. A chunk with a later timestamp makes the last part
false until the scan for timeouts has run (`ScanSound`); the requests that the
frames of the chunk add after the scan bear its timestamp (`ProcessFrameSound`).
The errors of a chunk are followed by `Counted(f, g, ts)`, which relates the flow
before and after any part of it; the parts compose (`CountedChain`), because the
time of a chunk is one and the last error reaches whatever threshold is reached.

The walk over a carry is a loop, a recursive function of its length in the model.
What holds at the end of it is proved by a least counterexample: `NatMinimum` gives
the first round at which the loop's condition fails, and one round keeps the
condition (`WalkSound`). That the recursive function exists is
itself proved (`RoundsExist`), by the same argument.

**Reassembly engine** (`ReassemblerProofs`, on `FlowTheorems`, `EngineTheorems` and
`ProcessPacketTheorems`; assumptions `DirectionConstants` and `ReassemblerConstants`:
typed packets, timestamps are naturals, `MaxFlows` and `Memcap` are positive, and
nothing about the other limits; the sweep interval may be 0, which disables the
sweep). `TypeCorrect`, `MemoryNeverDrifts`, `LimitsHold`, `FlowsNeverLost`,
`IdleFlowsLeave`, `SidesStayApart`, `SweepLeavesNone`, `HandlerStreams` and
`HandlerCloses`, all from `EngineInvariant`. The invariant
`RInv` says of a running engine that it is `Settled`: every direction satisfies
`DirectionInv`, `total_memory` is the sum over the finite table, every flow ever
created is in the table or counted as retired, no flow is closed, and the limits
hold. `IdleBound` strengthens the idle property with the remainder of
`packet_index` by the sweep interval: the bound as checked is not inductive, since
between two sweeps it must grow with each packet. The proof follows
`process_packet`: one lemma per stage (`SweptOK`, `GetOrCreateOK`, `ShakenOK`,
`PayloadOK`, `ApplyOK`) says in which condition it hands the engine on, and
`Retires` says once what every way to retire flows has in common. The limits rest
on `EvictOK` and `TargetsLeaveRoom`: a pass of evictions ends within its targets,
and the targets leave room for the new flow.

`SidesStayApart` has a hypothesis of its own, `BytesNameSenders`: each payload byte
is named after its sender, as in the instance TLC checks. The engine only compares
bytes with one another, and without names a mixture could not be told from them.
The part of `RInv` it needs is `OneSided`, on top of two facts about every open
flow: a state other than `New` has an initiator, and a direction has an ISN only
then. So a payload is never assigned to a direction before the initiator is known,
and the initiator never changes under bytes already stored.

The handler's contract, `HandlerStreams` and `HandlerCloses`, is about a whole step,
in which several flows may be flushed, evicted, created and retired. `Told(b, e)`
says that the calls collected in `e` since the engine was `b` continue every direction from
where it stood in `b` to where it stands in `e`, and count one close for every flow that
left. `Hears(e, r)` says that a stage from `e` to `r` keeps this, whatever `b` was; each
stage has it (`RetireHears`, `PayloadHears`, `PutHears`, `SilentHears`), the stages
compose (`HearsTrans`), and a step starts from `NothingTold`.

Only model-checked, and why:

- liveness (`DriverReports`): fairness is out of the prover's reach;
- that the literal loops compute the set form the proofs are about (`LoopsAgree`):
  they are RECURSIVE operators, which the prover cannot expand;
- that the cutting of a stream does not matter (`IcsCuttingIrrelevant`,
  `ComponentsCuttingIrrelevant`) and that a carry is the unfinished frame
  (`ModbusCarryExact`, `EnipCarryExact`): both compare two runs of a walk of
  different lengths, an induction over data for each analyzer;
- `DriverReportComplete` and `ReportsFaithful`: equalities of sequences built by
  folds, for which the library's theorems take an operator as a parameter;
- the pipeline (`RoutesFollowFlows`): the dispatcher's state after a packet is a
  fold over the engine's calls for each key, within a fold over the keys;
- the analyzers other than DNP3 and ARP: no theorem is stated about them.

## Not modelled

- Command-line parsing (`cli.rs`): declarative; `Driver` starts from the parsed
  options.
- Wording, colour, layout, escaping and the CSV and JSON writers: formatting of
  values computed elsewhere. The grouping, order and numbers they print are in
  `Report`.
- The progress bar and diagnostics on stderr.
- `summarize` of HTTP and Modbus, the engine's write-only statistics and the
  summary's `total_bytes`: copies of counters that nothing reads back.
- The parsers of the external crates: only their verdicts.
- The `set_` and `take_` accessors of the dispatcher, which appear as what the
  driver enables and collects.
