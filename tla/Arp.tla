-------------------------------- MODULE Arp ---------------------------------
(***************************************************************************)
(* The ARP analyzer of src/analyzer/arp.rs: the table of IP-to-MAC         *)
(* bindings with the flap window of each, the table of frame rates per     *)
(* sender, both capped with eviction of the oldest entry, and the findings *)
(* D1 (rebind), D2 (gratuitous), D3 (storm), D11 (malformed) and D12       *)
(* (sender mismatch).                                                      *)
(*                                                                         *)
(* A frame has operation, sender_ip, sender_mac, target_ip and outer, the  *)
(* MAC of the Ethernet header or NoMac.                                    *)
(***************************************************************************)
EXTENDS Integers, Sequences, FiniteSets

CONSTANTS
    Ip,                     \* sender addresses that are neither zero nor broadcast
    FilteredIp,             \* 0.0.0.0 and 255.255.255.255
    Mac,
    NoMac,
    ArpCapture,             \* captures: the frames and the timestamps that occur
    MAX_ARP_BINDINGS,       \* 65536
    MAX_STORM_COUNTERS,     \* 4096
    ARP_FLAP_WINDOW_SECS,   \* 60
    spoof_threshold,        \* --arp-spoof-threshold
    storm_rate,             \* --arp-storm-rate
    MaxArpFrames            \* bound of the model

ArpFrames ==
    [operation : 1 .. 3, sender_ip : Ip \cup FilteredIp, sender_mac : Mac,
     target_ip : Ip, outer : Mac \cup {NoMac}]

\* The tables have room for an entry, and run_analyze refuses thresholds of 0.
ASSUME ArpAssumption ==
    /\ MAX_ARP_BINDINGS \in Nat \ {0} /\ MAX_STORM_COUNTERS \in Nat \ {0}
    /\ ARP_FLAP_WINDOW_SECS \in Nat
    /\ spoof_threshold \in Nat \ {0} /\ storm_rate \in Nat \ {0}
    /\ ArpCapture \subseteq [frames : SUBSET ArpFrames, times : SUBSET Nat]
    /\ MaxArpFrames \in Nat

VARIABLES
    ar,         \* the analyzer
    arWire,     \* the capture
    arFound,    \* the findings handed to the caller
    arSeen      \* history: the MAC last announced per IP, frames of unknown IPs

arVars == <<ar, arWire, arFound, arSeen>>

None == -1

-----------------------------------------------------------------------------
(* Tables with eviction.  The victim is one of the oldest entries: which   *)
(* one is the hash map's choice.                                           *)

Binding == [mac : Mac, rebind_count : Nat, first_rebind_ts : Nat \cup {None},
            spoof_high_emitted : BOOLEAN, last_seen_ts : Nat]

StormCounter == [count_in_window : Nat, window_start_ts : Nat, storm_emitted : BOOLEAN]

Put(table, key, entry) == [k \in DOMAIN table \cup {key} |-> IF k = key THEN entry ELSE table[k]]

Drop(table, key) == [k \in DOMAIN table \ {key} |-> table[k]]

OldestBindings(b) ==
    {ip \in DOMAIN b : \A other \in DOMAIN b : b[ip].last_seen_ts <= b[other].last_seen_ts}

OldestCounters(c) ==
    {mac \in DOMAIN c : \A other \in DOMAIN c : c[mac].window_start_ts <= c[other].window_start_ts}

\* no entry is evicted from an empty table
Victims(oldest) == IF oldest = {} THEN {NoMac} ELSE oldest

NewBinding(mac) ==
    [ mac |-> mac, rebind_count |-> 0, first_rebind_ts |-> None,
      spoof_high_emitted |-> FALSE, last_seen_ts |-> 0 ]

\* Faulty variant: the table is allowed one entry more.
BindingsFullLate(a) == Cardinality(DOMAIN a.bindings) > MAX_ARP_BINDINGS

BindingsFull(a) == Cardinality(DOMAIN a.bindings) >= MAX_ARP_BINDINGS

\* the caller has seen that the IP has no entry
InsertBindingLru(a, ip, mac, victim) ==
    LET room == IF BindingsFull(a) THEN Drop(a.bindings, victim) ELSE a.bindings
    IN  [a EXCEPT !.bindings = Put(room, ip, NewBinding(mac)),
                  !.bindings_evicted = @ + (IF BindingsFull(a) THEN 1 ELSE 0)]

InsertStormCounterLru(a, mac, ts, victim) ==
    LET full == mac \notin DOMAIN a.storm_counters
                    /\ Cardinality(DOMAIN a.storm_counters) >= MAX_STORM_COUNTERS
        room == IF full THEN Drop(a.storm_counters, victim) ELSE a.storm_counters
    IN  [a EXCEPT !.storm_counters =
                      Put(room, mac, [ count_in_window |-> 1, window_start_ts |-> ts,
                                       storm_emitted |-> FALSE ]),
                  !.storm_counters_evicted = @ + (IF full THEN 1 ELSE 0)]

-----------------------------------------------------------------------------
(* D3: the rate of a sender                                                *)

Since(now, start) == IF now >= start THEN now - start ELSE 0

InStormWindow(a, mac, ts) ==
    /\ mac \in DOMAIN a.storm_counters
    /\ Since(ts, a.storm_counters[mac].window_start_ts) <= ARP_FLAP_WINDOW_SECS

CountFrame(a, mac, ts, victim) ==
    IF InStormWindow(a, mac, ts)
    THEN [a EXCEPT !.storm_counters[mac].count_in_window = @ + 1]
    ELSE InsertStormCounterLru(a, mac, ts, victim)

\* frames per whole second, as the integer division of the code has it
RateReached(c, ts) ==
    LET elapsed == Since(ts, c.window_start_ts)
    IN  c.count_in_window >= storm_rate * (IF elapsed > 1 THEN elapsed ELSE 1)

Storms(a, mac, ts) ==
    RateReached(a.storm_counters[mac], ts) /\ ~a.storm_counters[mac].storm_emitted

MarkStorm(a, mac, ts) ==
    IF Storms(a, mac, ts)
    THEN [a EXCEPT !.storm_counters[mac].storm_emitted = TRUE, !.storm_findings = @ + 1]
    ELSE a

-----------------------------------------------------------------------------
(* D1: an IP that changes its MAC                                          *)

FlapExpired(e, ts) ==
    e.first_rebind_ts # None /\ Since(ts, e.first_rebind_ts) > ARP_FLAP_WINDOW_SECS

\* Faulty variant: the latch outlives its window.
FreshFlapLatched(e) == [e EXCEPT !.rebind_count = 0, !.first_rebind_ts = None]

FreshFlap(e) ==
    [e EXCEPT !.rebind_count = 0, !.first_rebind_ts = None, !.spoof_high_emitted = FALSE]

\* the entry after the rebind was counted
CountRebind(e, ts) ==
    LET open == IF FlapExpired(e, ts) THEN FreshFlap(e) ELSE e
    IN  [open EXCEPT !.rebind_count = @ + 1,
                     !.first_rebind_ts = IF @ = None THEN ts ELSE @]

\* what is left to decide of the confidence once the rebind was counted
Escalates(e, ts) ==
    /\ e.rebind_count >= spoof_threshold
    /\ Since(ts, e.first_rebind_ts) <= ARP_FLAP_WINDOW_SECS
    /\ ~e.spoof_high_emitted

EmitD1(e, ts) ==
    LET counted == CountRebind(e, ts)
    IN  [counted EXCEPT !.spoof_high_emitted = @ \/ Escalates(counted, ts)]

D1(ip, e, ts) ==
    [kind |-> "D1", ip |-> ip, high |-> Escalates(CountRebind(e, ts), ts)]

Note(kind, ip) == [kind |-> kind, ip |-> ip, high |-> FALSE]

-----------------------------------------------------------------------------
(* process_arp                                                             *)

Gratuitous(f) == f.sender_ip = f.target_ip

\* Faulty variant: a gratuitous frame conflicts with nothing.
ConflictUnlessGratuitous(a, f) ==
    /\ f.sender_ip \in DOMAIN a.bindings /\ a.bindings[f.sender_ip].mac # f.sender_mac
    /\ ~Gratuitous(f)

Conflict(a, f) == f.sender_ip \in DOMAIN a.bindings /\ a.bindings[f.sender_ip].mac # f.sender_mac

Mismatch(f) == f.outer # NoMac /\ f.outer # f.sender_mac

Touch(a, f, ts) ==
    [a EXCEPT !.bindings[f.sender_ip].last_seen_ts = ts,
              !.bindings[f.sender_ip].mac = f.sender_mac]

\* Faulty variant: the binding keeps the MAC it had.
RebindKeeping(a, f, ts) ==
    [a EXCEPT !.bindings[f.sender_ip] = [EmitD1(@, ts) EXCEPT !.last_seen_ts = ts],
              !.spoof_findings = @ + 1]

Rebind(a, f, ts) ==
    Touch([a EXCEPT !.bindings[f.sender_ip] = EmitD1(@, ts), !.spoof_findings = @ + 1], f, ts)

Learn(a, f, ts, victim) ==
    Touch(IF f.sender_ip \in DOMAIN a.bindings THEN a
          ELSE InsertBindingLru(a, f.sender_ip, f.sender_mac, victim), f, ts)

UpdateBinding(a, f, ts, victim) ==
    LET told == [a EXCEPT !.garp_findings = @ + (IF Gratuitous(f) THEN 1 ELSE 0)]
    IN  IF Conflict(a, f) THEN Rebind(told, f, ts) ELSE Learn(told, f, ts, victim)

Opcode(op) ==
    CASE op = 1 -> "request_count" [] op = 2 -> "reply_count" [] OTHER -> "other_opcode_count"

CountOpcode(a, f) ==
    [a EXCEPT !.frames_analyzed = @ + 1, !.opcodes[Opcode(f.operation)] = @ + 1]

CountMismatch(a, f) ==
    [a EXCEPT !.mismatch_findings = @ + (IF Mismatch(f) THEN 1 ELSE 0)]

ProcessArp(a, f, ts, bindingVictim, counterVictim) ==
    LET counted == CountOpcode(a, f)
        rated   == CountFrame(CountMismatch(counted, f), f.sender_mac, ts, counterVictim)
    IN  IF f.sender_ip \in FilteredIp THEN counted
        ELSE UpdateBinding(MarkStorm(rated, f.sender_mac, ts), f, ts, bindingVictim)

ArpFindings(a, f, ts, counterVictim) ==
    LET rated == CountFrame(a, f.sender_mac, ts, counterVictim)
        only(condition, finding) == IF condition THEN <<finding>> ELSE <<>>
    IN  IF f.sender_ip \in FilteredIp THEN <<>>
        ELSE only(Mismatch(f), Note("D12", f.sender_ip))
             \o only(Storms(rated, f.sender_mac, ts), Note("D3", f.sender_mac))
             \o only(Gratuitous(f), Note("D2", f.sender_ip))
             \o IF Conflict(a, f) THEN <<D1(f.sender_ip, a.bindings[f.sender_ip], ts)>> ELSE <<>>

RecordMalformed(a) ==
    [a EXCEPT !.malformed_frames = @ + 1, !.malformed_findings = @ + 1]

NewArp ==
    [ bindings |-> [k \in {} |-> NewBinding(NoMac)], storm_counters |-> [k \in {} |-> 0],
      frames_analyzed |-> 0,
      opcodes |-> [op \in {"request_count", "reply_count", "other_opcode_count"} |-> 0],
      spoof_findings |-> 0, garp_findings |-> 0, storm_findings |-> 0, mismatch_findings |-> 0,
      malformed_findings |-> 0, malformed_frames |-> 0, bindings_evicted |-> 0,
      storm_counters_evicted |-> 0 ]

ArpSummarize(a) ==
    [ packets_analyzed |-> a.frames_analyzed, bindings_tracked |-> Cardinality(DOMAIN a.bindings),
      bindings_evicted |-> a.bindings_evicted, malformed_frames |-> a.malformed_frames,
      findings |-> a.spoof_findings + a.garp_findings + a.storm_findings + a.mismatch_findings
                       + a.malformed_findings ]

-----------------------------------------------------------------------------
(* Behaviour                                                               *)

ArpInit ==
    /\ ar = NewArp
    /\ arWire \in ArpCapture
    /\ arFound = <<>>
    /\ arSeen = [last |-> [k \in {} |-> NoMac], unknown |-> 0]

ArpFrame(f, ts) ==
    /\ ar.frames_analyzed + ar.malformed_frames < MaxArpFrames
    /\ \E bv \in Victims(OldestBindings(ar.bindings)), cv \in Victims(OldestCounters(ar.storm_counters)) :
          /\ ar' = ProcessArp(ar, f, ts, bv, cv)
          /\ arFound' = arFound \o ArpFindings(ar, f, ts, cv)
    /\ UNCHANGED arWire
    /\ arSeen' = IF f.sender_ip \in FilteredIp THEN arSeen
                 ELSE [ last |-> Put(arSeen.last, f.sender_ip, f.sender_mac),
                        unknown |-> arSeen.unknown
                            + (IF f.sender_ip \in DOMAIN ar.bindings THEN 0 ELSE 1) ]

ArpMalformed ==
    /\ ar.frames_analyzed + ar.malformed_frames < MaxArpFrames
    /\ ar' = RecordMalformed(ar)
    /\ arFound' = Append(arFound, Note("D11", NoMac))
    /\ UNCHANGED <<arWire, arSeen>>

ArpNext == ArpMalformed \/ \E f \in arWire.frames, ts \in arWire.times : ArpFrame(f, ts)

ArpSpec == ArpInit /\ [][ArpNext]_arVars

-----------------------------------------------------------------------------
\* Both tables keep to their caps.
ArpTypeOK ==
    /\ IsFiniteSet(DOMAIN ar.bindings) /\ Cardinality(DOMAIN ar.bindings) <= MAX_ARP_BINDINGS
    /\ IsFiniteSet(DOMAIN ar.storm_counters)
    /\ Cardinality(DOMAIN ar.storm_counters) <= MAX_STORM_COUNTERS

FlapExact(e) ==
    /\ e.rebind_count > 0 <=> e.first_rebind_ts # None
    /\ e.spoof_high_emitted <=> e.rebind_count >= spoof_threshold

StormExact(c) == c.count_in_window > 0 /\ (c.storm_emitted => c.count_in_window >= storm_rate)

\* A binding carries the flap window of its rebinds exactly while it has some, and
\* its escalation to high confidence has been spent exactly when the rebinds in the
\* window reach the threshold: no window escalates twice, none that reaches the
\* threshold is passed over.  A sender is marked as a storm only with the frames
\* of a storm.
ArpLatchesExact ==
    /\ \A ip \in DOMAIN ar.bindings : FlapExact(ar.bindings[ip])
    /\ \A mac \in DOMAIN ar.storm_counters : StormExact(ar.storm_counters[mac])

\* An IP that is still tracked is bound to the MAC it announced last, through
\* rebinds, gratuitous frames, evictions and returns.
ArpBindingsCurrent ==
    \A ip \in DOMAIN ar.bindings : ar.bindings[ip].mac = arSeen.last[ip]

\* Each counter of the summary is the number of findings of its kind that were
\* handed out, and an IP that was learned is tracked or counted as evicted.
ArpCountersExact ==
    LET found(kind) == Len(SelectSeq(arFound, LAMBDA f : f.kind = kind))
    IN  /\ ar.spoof_findings = found("D1") /\ ar.garp_findings = found("D2")
        /\ ar.storm_findings = found("D3") /\ ar.mismatch_findings = found("D12")
        /\ ArpSummarize(ar).findings = Len(arFound)
        /\ ArpSummarize(ar).bindings_tracked + ar.bindings_evicted = arSeen.unknown

\* A frame of a tracked IP with another MAC than it announced last always yields a
\* rebind finding, gratuitous or not.
ArpRebindStep ==
    \A ip \in DOMAIN ar.bindings \cap DOMAIN ar'.bindings :
        arSeen'.last[ip] # arSeen.last[ip]
            => \E i \in (Len(arFound) + 1) .. Len(arFound') : arFound'[i].kind = "D1" /\ arFound'[i].ip = ip

ArpRebindsReported == [][ArpRebindStep]_arVars
=============================================================================
