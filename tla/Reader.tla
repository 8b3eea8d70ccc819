------------------------------- MODULE Reader -------------------------------
(***************************************************************************)
(* The capture reader of src/reader.rs: the choice of format by the first  *)
(* four bytes, the walk over the blocks of a pcapng section or the records *)
(* of a classic pcap file, and the conversion of pcapng timestamps.  The   *)
(* whole file is read, or nothing of it.                                   *)
(*                                                                         *)
(* A file has magic ("pcapng", "classic", "other", or "short" for fewer    *)
(* than four bytes), size, header (how the section header, or the header   *)
(* of a classic file, comes out of the pcap_file crate), link and nano     *)
(* (the classic header's link type and resolution) and blocks, what may    *)
(* follow.  A block has type, framed (the crate accepts its framing and    *)
(* moves past it), body (its length in bytes), reserved (an interface      *)
(* block whose reserved field is not zero) and the fields of its type.     *)
(***************************************************************************)
EXTENDS Integers, Sequences, FiniteSets

CONSTANTS
    ReaderFile,                     \* the files
    MAX_PCAPNG_FILE_BYTES,          \* 4 GiB
    MAX_INTERFACE_TABLE_ENTRIES,    \* 65535
    U32_MAX,
    U64_MAX,
    DEFAULT_TSRESOL,                \* 6: a tick is a microsecond
    BASE10_POWERS,                  \* 20: the powers of ten below 2^64
    MAX_SHIFT,                      \* 63
    MaxBlocks                       \* bound of the model

ASSUME ReaderAssumption ==
    /\ MAX_INTERFACE_TABLE_ENTRIES \in Nat
    /\ \A f \in ReaderFile : f.magic \in {"pcapng", "classic", "other", "short"}

VARIABLES
    rd,         \* the reader
    rdFile,     \* the file
    rdSeen      \* history: the blocks consumed

rdVars == <<rd, rdFile, rdSeen>>

IDB_BODY_FIXED_BYTES == 8
EPB_FIXED_OVERHEAD_BYTES == 20
SPB_FIXED_OVERHEAD_BYTES == 4

SupportedLinks == {"ETHERNET", "RAW", "IPV4", "IPV6", "LINUX_SLL"}

-----------------------------------------------------------------------------
(* Timestamps.  A resolution is a power of ten or of two.                  *)

Base10(e) == [base |-> 10, exp |-> e]

Micros == 10^DEFAULT_TSRESOL

AtMost(limit, n) == IF n < limit THEN n ELSE limit

TicksPerSec(resol) ==
    IF resol.base = 10
    THEN IF resol.exp < BASE10_POWERS THEN 10^resol.exp ELSE U64_MAX
    ELSE 2^AtMost(MAX_SHIFT, resol.exp)

Timestamp(ticks, resol) ==
    IF resol = Base10(DEFAULT_TSRESOL)
    THEN [secs |-> AtMost(U32_MAX, ticks \div Micros), usecs |-> ticks % Micros]
    ELSE LET tps == TicksPerSec(resol)
         IN  [ secs  |-> AtMost(U32_MAX, ticks \div tps),
               usecs |-> ((ticks % tps) * Micros) \div tps ]

-----------------------------------------------------------------------------
(* The options of an interface block: a sequence of [code, len] in a       *)
(* region of room bytes                                                    *)

Padded(len) == ((len + 3) \div 4) * 4

\* where the header of option i starts
Cursor(opts, i) ==
    LET start[j \in 1 .. i] ==
            IF j = 1 THEN 0 ELSE start[j - 1] + 4 + Padded(opts.tlvs[j - 1].len)
    IN  start[i]

OptionsEnd(opts, i) ==
    \/ i > Len(opts.tlvs)
    \/ Cursor(opts, i) + 4 > opts.room
    \/ opts.tlvs[i].code = 0

Overruns(opts, i) == Cursor(opts, i) + 4 + opts.tlvs[i].len > opts.room

\* the option at which the walk stops
LastOption(opts) ==
    CHOOSE i \in 1 .. Len(opts.tlvs) + 1 :
        /\ OptionsEnd(opts, i) \/ Overruns(opts, i) \/ opts.tlvs[i].code = 9
        /\ \A j \in 1 .. i - 1 :
              ~OptionsEnd(opts, j) /\ ~Overruns(opts, j) /\ opts.tlvs[j].code # 9

OptionsOK(opts) ==
    LET i == LastOption(opts)
    IN  OptionsEnd(opts, i) \/ (~Overruns(opts, i) /\ opts.tlvs[i].len = 1)

Tsresol(opts) ==
    LET i == LastOption(opts)
    IN  IF OptionsEnd(opts, i) THEN Base10(DEFAULT_TSRESOL) ELSE opts.tlvs[i].resol

-----------------------------------------------------------------------------
(* One block.  r is the reader's state.                                    *)

Fail(r, err) == [r EXCEPT !.phase = "error", !.err = err]

\* Faulty variant: interfaces may be described at any time.
IdbTooLateNever(r) == FALSE

IdbTooLate(r) == r.packets_emitted > 0

TableFull(r) == Len(r.interfaces) >= MAX_INTERFACE_TABLE_ENTRIES

\* Faulty variant: interfaces may differ in link type.
LinkConflictNever(r, link) == FALSE

LinkConflict(r, link) == r.interfaces # <<>> /\ r.interfaces[1].linktype # link

Interface(r, b) ==
    IF IdbTooLate(r) THEN Fail(r, "E-INP-013")
    ELSE IF TableFull(r) THEN Fail(r, "E-INP-015")
    ELSE IF b.body < IDB_BODY_FIXED_BYTES THEN Fail(r, "E-INP-008")
    ELSE IF b.link \notin SupportedLinks THEN Fail(r, "unsupported link type")
    ELSE IF LinkConflict(r, b.link) THEN Fail(r, "E-INP-011")
    ELSE IF ~OptionsOK(b.options) THEN Fail(r, "E-INP-008")
    ELSE [r EXCEPT !.interfaces = Append(@, [linktype |-> b.link, if_tsresol |-> Tsresol(b.options)])]

Emit(r, ts, len) ==
    [r EXCEPT !.packets = Append(@, [ts |-> ts, len |-> len]), !.packets_emitted = @ + 1]

NoInterface(r) == r.interfaces = <<>>

EnhancedPacket(r, b) ==
    LET available == b.body - EPB_FIXED_OVERHEAD_BYTES
    IN  IF available < 0 THEN Fail(r, "E-INP-008")
        ELSE IF NoInterface(r) THEN Fail(r, "E-INP-009")
        ELSE IF b.interface_id >= Len(r.interfaces) THEN Fail(r, "E-INP-010")
        ELSE IF b.captured_len > available THEN Fail(r, "E-INP-008")
        ELSE IF Padded(b.captured_len) > available THEN Fail(r, "E-INP-008")
        ELSE Emit(r, Timestamp(b.ticks, r.interfaces[b.interface_id + 1].if_tsresol), b.captured_len)

SimplePacket(r, b) ==
    LET available == b.body - SPB_FIXED_OVERHEAD_BYTES
    IN  IF NoInterface(r) THEN Fail(r, "E-INP-009")
        ELSE IF available < 0 THEN Fail(r, "E-INP-008")
        ELSE Emit(r, [secs |-> 0, usecs |-> 0], AtMost(available, b.original_len))

Skip(r, b) ==
    [r EXCEPT !.skipped_blocks = @ + 1, !.opb_skipped = @ + (IF b.type = "OPB" THEN 1 ELSE 0)]

\* what the crate refuses before the block is looked at: the framing, and the
\* fixed fields of an interface block, whose two errors get a label of their own
CrateError(b) ==
    CASE ~b.framed -> "E-INP-010"
      [] b.framed /\ b.type = "IDB" /\ (b.body < IDB_BODY_FIXED_BYTES \/ b.reserved) -> "E-INP-008"
      [] OTHER -> "none"

PcapngBlock(r, b) ==
    IF CrateError(b) # "none" THEN Fail(r, CrateError(b))
    ELSE CASE b.type = "SHB" -> Fail(r, "E-INP-012")
           [] b.type = "IDB" -> Interface(r, b)
           [] b.type = "EPB" -> EnhancedPacket(r, b)
           [] b.type = "SPB" -> SimplePacket(r, b)
           [] OTHER -> Skip(r, b)

ClassicRecord(r, b) ==
    LET usecs == IF rdFile.nano THEN b.ts.frac \div 1000 ELSE b.ts.frac
    IN  IF ~b.framed THEN Fail(r, "failed to read packet")
        ELSE [r EXCEPT !.packets = Append(@, [ts |-> [secs |-> b.ts.secs, usecs |-> usecs], len |-> b.body])]

-----------------------------------------------------------------------------
(* Behaviour                                                               *)

NewReader ==
    [ phase |-> "open", err |-> "", interfaces |-> <<>>, packets |-> <<>>, packets_emitted |-> 0,
      skipped_blocks |-> 0, opb_skipped |-> 0, datalink |-> "NULL" ]

OpenError ==
    CASE rdFile.magic = "short" -> "stream too short"
      [] rdFile.magic = "other" -> "unrecognized magic"
      [] rdFile.magic = "pcapng" /\ rdFile.size > MAX_PCAPNG_FILE_BYTES -> "E-INP-014"
      [] rdFile.magic = "pcapng" /\ rdFile.header # "ok" -> rdFile.header
      [] rdFile.magic = "classic" /\ rdFile.header # "ok" -> "failed to parse header"
      [] rdFile.magic = "classic" /\ rdFile.link \notin SupportedLinks -> "unsupported link type"
      [] OTHER -> "none"

ReaderInit == rd = NewReader /\ rdFile \in ReaderFile /\ rdSeen = <<>>

\* from_file up to the first block
ReaderOpen ==
    /\ rd.phase = "open"
    /\ rd' = IF OpenError # "none" THEN Fail(rd, OpenError)
             ELSE [rd EXCEPT !.phase = "blocks",
                             !.datalink = IF rdFile.magic = "classic" THEN rdFile.link ELSE @]
    /\ UNCHANGED <<rdFile, rdSeen>>

ReaderBlock(b) ==
    /\ rd.phase = "blocks"
    /\ Len(rdSeen) < MaxBlocks
    /\ rd' = IF rdFile.magic = "pcapng" THEN PcapngBlock(rd, b) ELSE ClassicRecord(rd, b)
    /\ rdSeen' = Append(rdSeen, b)
    /\ UNCHANGED rdFile

\* the end of the file: the section has the link type of its first interface
ReaderEnd ==
    /\ rd.phase = "blocks"
    /\ rd' = [rd EXCEPT !.phase = "ok",
                        !.datalink = IF rd.interfaces = <<>> THEN @ ELSE rd.interfaces[1].linktype]
    /\ UNCHANGED <<rdFile, rdSeen>>

ReaderNext == ReaderOpen \/ ReaderEnd \/ \E b \in rdFile.blocks : ReaderBlock(b)

ReaderSpec == ReaderInit /\ [][ReaderNext]_rdVars

-----------------------------------------------------------------------------
\* The interface table keeps to its cap.
ReaderTypeOK == Len(rd.interfaces) <= MAX_INTERFACE_TABLE_ENTRIES

\* What is handed on is whole and can be decoded.  Every block of a file that was
\* read to its end has become an interface or a packet, or is counted as skipped,
\* obsolete packet blocks among them, which the notice for a file without packets
\* relies on.  A file with packets has one link type, which is one that can be
\* decoded: the NULL link type of a section without interfaces never meets a
\* packet, and interfaces that differ never share a file.
ReaderWhole ==
    /\ rd.phase = "ok" =>
          /\ Len(rd.interfaces) + Len(rd.packets) + rd.skipped_blocks = Len(rdSeen)
          /\ rd.opb_skipped <= rd.skipped_blocks
          /\ rd.packets # <<>> => rd.datalink \in SupportedLinks
    /\ \A i, j \in DOMAIN rd.interfaces : rd.interfaces[i].linktype = rd.interfaces[j].linktype

\* All packets of a pcapng file are read under the same interface table: none is
\* described after the first packet.
ReaderTableStep == rd.packets # <<>> => rd'.interfaces = rd.interfaces

ReaderTableFrozen == [][ReaderTableStep]_rdVars

\* The timestamp of an enhanced packet is its tick count, in ticks of the unit
\* ticks_per_sec gives its interface, rounded down to microseconds, and the fraction
\* is less than a second; only the seconds saturate.  The unit is the one the
\* interface declares up to the largest power that fits, and is clamped beyond it.
ReaderTimestampsExact ==
    LET blocks == SelectSeq(rdSeen, LAMBDA b : b.type \in {"EPB", "SPB"})
    IN  \A i \in DOMAIN rd.packets : rdFile.magic = "pcapng" /\ blocks[i].type = "EPB" =>
            LET resol == rd.interfaces[blocks[i].interface_id + 1].if_tsresol
                us    == (blocks[i].ticks * Micros) \div TicksPerSec(resol)
            IN  /\ rd.packets[i].ts.usecs = us % Micros
                /\ rd.packets[i].ts.secs = AtMost(U32_MAX, us \div Micros)
=============================================================================
