---------------------------- MODULE DriverProofs ----------------------------
(***************************************************************************)
(* What is read, where it is routed and how the run ends, for every set of *)
(* targets, files, packets and flows.                                      *)
(*                                                                         *)
(* The reader of src/reader.rs hands on one known link type, and accounts  *)
(* for every block.  main counts every packet that it reads once and in    *)
(* the right place, and its exit code is right.                            *)
(*                                                                         *)
(* The maps of the dispatcher agree with each other and with what the      *)
(* analyzers behind it hold, a route never changes, and the coverage gaps  *)
(* add up, for every set of flows, ports and analyzers and every cap.      *)
(***************************************************************************)
EXTENDS Dispatcher, Reader, Driver, FiniteSetTheorems, TLAPS

ReaderFields == {"phase", "err", "interfaces", "packets", "packets_emitted", "skipped_blocks", "opb_skipped", "datalink"}

\* a sequence, of whatever
IsSeq(s) == \E S : s \in Seq(S)

\* The state of a reader that has not failed, after seen blocks of a file of a format.
Reading(r, magic, seen) ==
    /\ DOMAIN r = ReaderFields
    /\ IsSeq(r.interfaces) /\ IsSeq(r.packets)
    /\ r.packets_emitted \in Nat /\ r.skipped_blocks \in Nat /\ r.opb_skipped \in Nat
    /\ r.opb_skipped <= r.skipped_blocks
    /\ Len(r.interfaces) <= MAX_INTERFACE_TABLE_ENTRIES
    /\ \A i \in DOMAIN r.interfaces :
          r.interfaces[i].linktype \in SupportedLinks /\ r.interfaces[i].linktype = r.interfaces[1].linktype
    /\ Len(r.interfaces) + Len(r.packets) + r.skipped_blocks = seen
    /\ magic = "pcapng" => r.packets_emitted = Len(r.packets) /\ (r.packets # <<>> => r.interfaces # <<>>)
    /\ magic # "pcapng" => r.interfaces = <<>>

\* What is left of it once it has failed.
ReadFailed(r) ==
    /\ DOMAIN r = ReaderFields
    /\ r.phase = "error"
    /\ Len(r.interfaces) <= MAX_INTERFACE_TABLE_ENTRIES
    /\ \A i \in DOMAIN r.interfaces : r.interfaces[i].linktype = r.interfaces[1].linktype

\* What appending one element does to a sequence.
LEMMA AppendFacts ==
    ASSUME NEW s, IsSeq(s), NEW x
    PROVE  /\ IsSeq(Append(s, x))
           /\ Len(s) \in Nat
           /\ DOMAIN s = 1 .. Len(s)
           /\ Len(Append(s, x)) = Len(s) + 1
           /\ DOMAIN Append(s, x) = 1 .. (Len(s) + 1)
           /\ Append(s, x)[Len(s) + 1] = x
           /\ \A i \in 1 .. Len(s) : Append(s, x)[i] = s[i]
           /\ Append(s, x) # <<>>
           /\ s = <<>> <=> Len(s) = 0
<1>1. PICK S : s \in Seq(S)
  BY DEF IsSeq
<1>2. s \in Seq(S \cup {x})
  BY <1>1
<1>3. Append(s, x) \in Seq(S \cup {x})
  BY <1>2
<1>4. IsSeq(Append(s, x))
  BY <1>3 DEF IsSeq
<1> QED
  BY <1>2, <1>3, <1>4

\* One more packet, or one more skipped block, accounts for one more read.
LEMMA OneMore ==
    ASSUME NEW r, NEW seen, Len(r.interfaces) \in Nat, Len(r.packets) \in Nat, r.skipped_blocks \in Nat,
           Len(r.interfaces) + Len(r.packets) + r.skipped_blocks = seen
    PROVE  /\ Len(r.interfaces) + (Len(r.packets) + 1) + r.skipped_blocks = seen + 1
           /\ Len(r.interfaces) + Len(r.packets) + (r.skipped_blocks + 1) = seen + 1
<1> DEFINE i == Len(r.interfaces)
           p == Len(r.packets)
           k == r.skipped_blocks
<1>1. i \in Nat /\ p \in Nat /\ k \in Nat /\ i + p + k = seen
  BY Zenon
<1> HIDE DEF i, p, k
<1>2. i + (p + 1) + k = seen + 1 /\ i + p + (k + 1) = seen + 1
  BY <1>1
<1> QED
  BY <1>2, Zenon DEF i, p, k

\* A failure leaves the tables as they are.
LEMMA FailFails ==
    ASSUME NEW r, NEW magic, NEW seen, Reading(r, magic, seen), NEW err
    PROVE  ReadFailed(Fail(r, err)) /\ Fail(r, err).interfaces = r.interfaces
  BY DEF Reading, ReadFailed, Fail, ReaderFields

\* What a block may do: fail, or go on with every clause of Reading kept.
Advances(r, n, magic, seen) ==
    /\ ReadFailed(n) \/ (Reading(n, magic, seen + 1) /\ n.phase = r.phase /\ n.datalink = r.datalink)
    /\ r.packets # <<>> => n.interfaces = r.interfaces
    /\ magic # "pcapng" => n.interfaces = r.interfaces

\* An Interface Description Block adds an interface of the link type of the file.
LEMMA InterfaceAdvances ==
    ASSUME NEW r, NEW seen \in Nat, Reading(r, "pcapng", seen), NEW b
    PROVE  Advances(r, Interface(r, b), "pcapng", seen)
<1> DEFINE n == Interface(r, b)
           i == [linktype |-> b.link, if_tsresol |-> Tsresol(b.options)]
<1>1. CASE \E err : n = Fail(r, err)
  BY <1>1, FailFails DEF Advances
<1>2. CASE /\ ~IdbTooLate(r) /\ ~TableFull(r) /\ b.link \in SupportedLinks /\ ~LinkConflict(r, b.link)
           /\ n = [r EXCEPT !.interfaces = Append(@, i)]
  <2>1. i.linktype = b.link
    OBVIOUS
  <2> HIDE DEF i
  <2>2. /\ DOMAIN n = ReaderFields /\ n.interfaces = Append(r.interfaces, i) /\ n.packets = r.packets
        /\ n.packets_emitted = r.packets_emitted /\ n.skipped_blocks = r.skipped_blocks
        /\ n.opb_skipped = r.opb_skipped /\ n.phase = r.phase /\ n.datalink = r.datalink
    BY <1>2 DEF Reading, ReaderFields
  <2> HIDE DEF n
  <2>3. /\ IsSeq(r.interfaces) /\ IsSeq(r.packets)
        /\ \A j \in DOMAIN r.interfaces : r.interfaces[j].linktype \in SupportedLinks
                                        /\ r.interfaces[j].linktype = r.interfaces[1].linktype
    BY DEF Reading
  <2>4. Len(r.packets) = 0 /\ r.packets = <<>>
    BY <1>2, <2>3, AppendFacts DEF IdbTooLate, Reading
  <2>5. Len(n.interfaces) = Len(r.interfaces) + 1 /\ Len(r.interfaces) \in Nat /\ IsSeq(n.interfaces)
    BY <2>2, <2>3, AppendFacts
  <2>6. Len(n.interfaces) <= MAX_INTERFACE_TABLE_ENTRIES
    BY <1>2, <2>5, ReaderAssumption DEF TableFull
  <2>7. ASSUME NEW j \in DOMAIN n.interfaces
        PROVE  n.interfaces[j].linktype \in SupportedLinks /\ n.interfaces[j].linktype = n.interfaces[1].linktype
    BY <1>2, <2>1, <2>2, <2>3, <2>5, AppendFacts DEF LinkConflict
  <2>8. Len(n.interfaces) + Len(n.packets) + n.skipped_blocks = seen + 1
    BY <2>2, <2>4, <2>5 DEF Reading
  <2>9. Reading(n, "pcapng", seen + 1)
    BY <2>2, <2>3, <2>4, <2>5, <2>6, <2>7, <2>8 DEF Reading
  <2> QED
    BY <2>2, <2>4, <2>9 DEF Advances, n
<1> QED
  BY <1>1, <1>2, Zenon DEF Interface

\* A packet is emitted only with an interface in the table.
LEMMA EmitAdvances ==
    ASSUME NEW r, NEW seen \in Nat, Reading(r, "pcapng", seen), ~NoInterface(r), NEW ts, NEW len
    PROVE  Advances(r, Emit(r, ts, len), "pcapng", seen)
<1> DEFINE n == Emit(r, ts, len)
           p == [ts |-> ts, len |-> len]
<1> HIDE DEF p
<1>1. /\ DOMAIN n = ReaderFields /\ n.interfaces = r.interfaces /\ n.packets = Append(r.packets, p)
      /\ n.packets_emitted = r.packets_emitted + 1 /\ n.skipped_blocks = r.skipped_blocks
      /\ n.opb_skipped = r.opb_skipped /\ n.phase = r.phase /\ n.datalink = r.datalink
  BY DEF Reading, ReaderFields, Emit, p
<1> HIDE DEF n
<1>2. IsSeq(r.packets) /\ IsSeq(r.interfaces)
  BY DEF Reading
<1>3. IsSeq(n.packets) /\ Len(n.packets) = Len(r.packets) + 1 /\ Len(r.packets) \in Nat /\ Len(r.interfaces) \in Nat
  BY <1>1, <1>2, AppendFacts
<1>4. Reading(n, "pcapng", seen + 1)
  <2>1. /\ r.interfaces # <<>> /\ n.packets_emitted \in Nat /\ n.packets_emitted = Len(n.packets)
        /\ Len(n.interfaces) + Len(n.packets) + n.skipped_blocks = seen + 1
    <3>1. /\ Len(r.interfaces) + Len(r.packets) + r.skipped_blocks = seen /\ r.skipped_blocks \in Nat
          /\ r.packets_emitted \in Nat /\ r.packets_emitted = Len(r.packets) /\ r.interfaces # <<>>
      BY Zenon DEF Reading, NoInterface
    <3>2. /\ Len(n.interfaces) = Len(r.interfaces) /\ n.skipped_blocks = r.skipped_blocks
          /\ n.packets_emitted = r.packets_emitted + 1
      BY <1>1
    <3>3. r.packets_emitted + 1 \in Nat
      BY <3>1
    <3>4. Len(r.interfaces) + (Len(r.packets) + 1) + r.skipped_blocks = seen + 1
      BY <1>3, <3>1, OneMore, Zenon
    <3> QED  BY <1>3, <3>1, <3>2, <3>3, <3>4, Zenon
  <2> QED  BY <1>1, <1>2, <1>3, <2>1, Zenon DEF Reading
<1> QED
  BY <1>1, <1>4 DEF Advances, n

\* A block that is skipped is counted and leaves the packets and the table alone.
LEMMA SkipAdvances ==
    ASSUME NEW r, NEW seen \in Nat, Reading(r, "pcapng", seen), NEW b
    PROVE  Advances(r, Skip(r, b), "pcapng", seen)
<1> DEFINE n == Skip(r, b)
           o == IF b.type = "OPB" THEN 1 ELSE 0
<1>1. o \in {0, 1}
  OBVIOUS
<1>2. /\ DOMAIN n = ReaderFields /\ n.interfaces = r.interfaces /\ n.packets = r.packets
      /\ n.packets_emitted = r.packets_emitted /\ n.skipped_blocks = r.skipped_blocks + 1
      /\ n.opb_skipped = r.opb_skipped + o /\ n.phase = r.phase /\ n.datalink = r.datalink
  BY DEF Reading, ReaderFields, Skip
<1> HIDE DEF n, o
<1>3. Len(r.packets) \in Nat /\ Len(r.interfaces) \in Nat
  BY AppendFacts DEF Reading
<1>4. Reading(n, "pcapng", seen + 1)
  <2>1. /\ n.skipped_blocks \in Nat /\ n.opb_skipped \in Nat /\ n.opb_skipped <= n.skipped_blocks
        /\ Len(n.interfaces) + Len(n.packets) + n.skipped_blocks = seen + 1
    <3>1. /\ Len(r.interfaces) + Len(r.packets) + r.skipped_blocks = seen /\ r.skipped_blocks \in Nat
          /\ r.opb_skipped \in Nat /\ r.opb_skipped <= r.skipped_blocks
      BY Zenon DEF Reading
    <3>2. Len(n.interfaces) = Len(r.interfaces) /\ Len(n.packets) = Len(r.packets)
      BY <1>2
    <3>3. n.skipped_blocks = r.skipped_blocks + 1 /\ n.opb_skipped = r.opb_skipped + o
      BY <1>2
    <3>4. /\ r.skipped_blocks + 1 \in Nat /\ r.opb_skipped + o \in Nat
          /\ r.opb_skipped + o <= r.skipped_blocks + 1
      BY <1>1, <3>1
    <3>5. Len(r.interfaces) + Len(r.packets) + (r.skipped_blocks + 1) = seen + 1
      BY <1>3, <3>1, OneMore, Zenon
    <3> QED  BY <3>2, <3>3, <3>4, <3>5, Zenon
  <2> QED  BY <1>2, <2>1, Zenon DEF Reading
<1> QED
  BY <1>2, <1>4 DEF Advances, n

\* Every pcapng block is accounted for, whichever kind it is.
LEMMA PcapngAdvances ==
    ASSUME NEW r, NEW seen \in Nat, Reading(r, "pcapng", seen), NEW b
    PROVE  Advances(r, PcapngBlock(r, b), "pcapng", seen)
<1> DEFINE n == PcapngBlock(r, b)
<1>1. ASSUME NEW err PROVE Advances(r, Fail(r, err), "pcapng", seen)
  BY FailFails DEF Advances
<1>2. Advances(r, EnhancedPacket(r, b), "pcapng", seen)
  BY <1>1, EmitAdvances DEF EnhancedPacket
<1>3. Advances(r, SimplePacket(r, b), "pcapng", seen)
  BY <1>1, EmitAdvances DEF SimplePacket
<1>4. \/ \E err : n = Fail(r, err)
      \/ n = Interface(r, b) \/ n = EnhancedPacket(r, b) \/ n = SimplePacket(r, b) \/ n = Skip(r, b)
  BY DEF PcapngBlock
<1> QED
  BY <1>1, <1>2, <1>3, <1>4, InterfaceAdvances, SkipAdvances

\* A record of a classic file becomes a packet.
LEMMA ClassicAdvances ==
    ASSUME NEW r, NEW seen \in Nat, NEW magic, magic # "pcapng", Reading(r, magic, seen), NEW b
    PROVE  Advances(r, ClassicRecord(r, b), magic, seen)
<1> DEFINE n == ClassicRecord(r, b)
<1>1. CASE \E err : n = Fail(r, err)
  BY <1>1, FailFails DEF Advances
<1>2. ASSUME NEW p, n = [r EXCEPT !.packets = Append(@, p)] PROVE Advances(r, n, magic, seen)
  <2>1. /\ DOMAIN n = ReaderFields /\ n.interfaces = r.interfaces /\ n.packets = Append(r.packets, p)
        /\ n.packets_emitted = r.packets_emitted /\ n.skipped_blocks = r.skipped_blocks
        /\ n.opb_skipped = r.opb_skipped /\ n.phase = r.phase /\ n.datalink = r.datalink
    BY <1>2 DEF Reading, ReaderFields
  <2> HIDE DEF n
  <2>2. /\ IsSeq(n.packets) /\ Len(n.packets) = Len(r.packets) + 1
        /\ Len(r.packets) \in Nat /\ Len(r.interfaces) \in Nat
    BY <2>1, AppendFacts DEF Reading
  <2>3. Len(n.interfaces) + Len(n.packets) + n.skipped_blocks = seen + 1
    <3>1. Len(r.interfaces) + Len(r.packets) + r.skipped_blocks = seen /\ r.skipped_blocks \in Nat
      BY Zenon DEF Reading
    <3>2. Len(n.interfaces) = Len(r.interfaces) /\ n.skipped_blocks = r.skipped_blocks
      BY <2>1
    <3>3. Len(r.interfaces) + (Len(r.packets) + 1) + r.skipped_blocks = seen + 1
      BY <2>2, <3>1, OneMore, Zenon
    <3> QED  BY <2>2, <3>2, <3>3, Zenon
  <2>4. Reading(n, magic, seen + 1)
    BY <2>1, <2>2, <2>3, Zenon DEF Reading
  <2> QED
    BY <2>1, <2>4 DEF Advances
<1>3. (\E err : n = Fail(r, err)) \/ (\E p : n = [r EXCEPT !.packets = Append(@, p)])
  <2> DEFINE p == [ ts |-> [ secs |-> b.ts.secs,
                             usecs |-> IF rdFile.nano THEN b.ts.frac \div 1000 ELSE b.ts.frac ],
                    len |-> b.body ]
  <2>1. n = IF ~b.framed THEN Fail(r, "failed to read packet") ELSE [r EXCEPT !.packets = Append(@, p)]
    BY DEF ClassicRecord
  <2> HIDE DEF p, n
  <2> QED  BY <2>1, Zenon
<1> QED
  BY <1>1, <1>2, <1>3

-----------------------------------------------------------------------------
(* The behaviour                                                           *)

\* The inductive invariant: until a failure the file is being read, or has been, with
\* the link type of a classic file known from its header.
ReaderInv ==
    /\ rdFile \in ReaderFile
    /\ IsSeq(rdSeen)
    /\ \/ ReadFailed(rd)
       \/ /\ Reading(rd, rdFile.magic, Len(rdSeen))
          /\ rd.phase \in {"open", "blocks", "ok"}
          /\ rd.phase = "open" => rd.packets = <<>>
          /\ rd.phase # "open" /\ rdFile.magic # "pcapng" => rd.datalink \in SupportedLinks
          /\ rd.phase = "ok" /\ rd.interfaces # <<>> => rd.datalink \in SupportedLinks

\* The reader starts sound, a file that cannot be opened included.
LEMMA ReaderInvInit == ReaderInit => ReaderInv
<1> SUFFICES ASSUME ReaderInit PROVE ReaderInv
  OBVIOUS
<1>1. /\ DOMAIN rd = ReaderFields /\ rd.phase = "open" /\ rd.interfaces = <<>> /\ rd.packets = <<>>
      /\ rd.packets_emitted = 0 /\ rd.skipped_blocks = 0 /\ rd.opb_skipped = 0
  BY Zenon DEF ReaderInit, NewReader, ReaderFields
<1>2. IsSeq(<<>>) /\ Len(<<>>) = 0 /\ DOMAIN <<>> = {}
  <2>1. <<>> \in Seq({})
    OBVIOUS
  <2> QED  BY <2>1 DEF IsSeq
<1>3. rdFile \in ReaderFile /\ rdSeen = <<>>
  BY DEF ReaderInit
<1>4. Reading(rd, rdFile.magic, Len(rdSeen))
  BY <1>1, <1>2, <1>3, ReaderAssumption DEF Reading
<1> QED
  BY <1>1, <1>2, <1>3, <1>4 DEF ReaderInv

Phased(r, phase, link) == [r EXCEPT !.phase = phase, !.datalink = link]

\* A change of phase and link type leaves what has been read.
LEMMA PhaseKeepsReading ==
    ASSUME NEW r, NEW magic, NEW seen, Reading(r, magic, seen), NEW phase, NEW link
    PROVE  /\ Reading(Phased(r, phase, link), magic, seen)
           /\ Phased(r, phase, link).phase = phase
           /\ Phased(r, phase, link).datalink = link
           /\ Phased(r, phase, link).interfaces = r.interfaces
<1> DEFINE n == Phased(r, phase, link)
<1>1. /\ DOMAIN n = ReaderFields /\ n.phase = phase /\ n.datalink = link
      /\ n.interfaces = r.interfaces /\ n.packets = r.packets /\ n.packets_emitted = r.packets_emitted
      /\ n.skipped_blocks = r.skipped_blocks /\ n.opb_skipped = r.opb_skipped
  BY DEF Reading, ReaderFields, Phased
<1> HIDE DEF n
<1>2. Reading(n, magic, seen)
  BY <1>1, Zenon DEF Reading
<1> QED
  BY <1>1, <1>2 DEF n

\* Every block keeps the reader sound; no interface follows a packet.
LEMMA ReaderInvStep == ReaderInv /\ [ReaderNext]_rdVars => ReaderInv' /\ [ReaderTableStep]_rdVars
<1> SUFFICES ASSUME ReaderInv, [ReaderNext]_rdVars PROVE ReaderInv' /\ [ReaderTableStep]_rdVars
  OBVIOUS
<1>1. CASE UNCHANGED rdVars
  BY <1>1 DEF rdVars, ReaderInv
<1>2. rd.phase \in {"open", "blocks"} =>
         /\ Reading(rd, rdFile.magic, Len(rdSeen))
         /\ rd.phase = "open" => rd.packets = <<>>
         /\ rd.phase # "open" /\ rdFile.magic # "pcapng" => rd.datalink \in SupportedLinks
  BY DEF ReaderInv, ReadFailed
<1>3. CASE ReaderOpen
  <2>1. rd.phase = "open" /\ rdFile' = rdFile /\ rdSeen' = rdSeen
    BY <1>3 DEF ReaderOpen
  <2>2. CASE OpenError # "none"
    <3>1. rd' = Fail(rd, OpenError)
      BY <1>3, <2>2 DEF ReaderOpen
    <3>2. ReadFailed(rd') /\ rd'.interfaces = rd.interfaces
      BY <1>2, <2>1, <3>1, FailFails
    <3> QED  BY <2>1, <3>2 DEF ReaderInv, ReaderTableStep
  <2>3. CASE OpenError = "none"
    <3> DEFINE link == IF rdFile.magic = "classic" THEN rdFile.link ELSE rd.datalink
    <3>1. rd' = [rd EXCEPT !.phase = "blocks", !.datalink = link]
      BY <1>2, <1>3, <2>1, <2>3 DEF ReaderOpen, Reading, ReaderFields
    <3>2. rdFile.magic # "pcapng" => rdFile.magic = "classic" /\ rdFile.link \in SupportedLinks
      BY <2>3, ReaderAssumption DEF OpenError, ReaderInv
    <3>3. rdFile.magic # "pcapng" => link \in SupportedLinks
      BY <3>2
    <3> HIDE DEF link
    <3>4. /\ Reading(rd', rdFile.magic, Len(rdSeen))
          /\ rd'.phase = "blocks" /\ rd'.datalink = link /\ rd'.interfaces = rd.interfaces
      <4>1. Reading(rd, rdFile.magic, Len(rdSeen))
        BY <1>2, <2>1
      <4>2. rd' = Phased(rd, "blocks", link)
        BY <3>1 DEF Phased
      <4> QED  BY <4>1, <4>2, PhaseKeepsReading
    <3> QED
      BY <2>1, <3>3, <3>4 DEF ReaderInv, ReaderTableStep
  <2> QED  BY <2>2, <2>3
<1>4. CASE ReaderEnd
  <2> DEFINE link == IF rd.interfaces = <<>> THEN rd.datalink ELSE rd.interfaces[1].linktype
  <2>1. rd.phase = "blocks" /\ rdFile' = rdFile /\ rdSeen' = rdSeen
    BY <1>4 DEF ReaderEnd
  <2>2. rd' = [rd EXCEPT !.phase = "ok", !.datalink = link]
    BY <1>2, <1>4, <2>1 DEF ReaderEnd, Reading, ReaderFields
  <2>3. rd.interfaces # <<>> => link \in SupportedLinks
    <3>1. rd.interfaces # <<>> => 1 \in DOMAIN rd.interfaces
      BY <1>2, <2>1, AppendFacts DEF Reading
    <3> QED  BY <1>2, <2>1, <3>1 DEF Reading
  <2>4. rdFile.magic # "pcapng" => link \in SupportedLinks
    BY <1>2, <2>1, <2>3
  <2> HIDE DEF link
  <2>5. /\ Reading(rd', rdFile.magic, Len(rdSeen))
        /\ rd'.phase = "ok" /\ rd'.datalink = link /\ rd'.interfaces = rd.interfaces
    <3>1. Reading(rd, rdFile.magic, Len(rdSeen))
      BY <1>2, <2>1
    <3>2. rd' = Phased(rd, "ok", link)
      BY <2>2 DEF Phased
    <3> QED  BY <3>1, <3>2, PhaseKeepsReading
  <2> QED
    BY <2>1, <2>3, <2>4, <2>5 DEF ReaderInv, ReaderTableStep
<1>5. ASSUME NEW b \in rdFile.blocks, ReaderBlock(b) PROVE ReaderInv' /\ [ReaderTableStep]_rdVars
  <2>1. rd.phase = "blocks" /\ rdFile' = rdFile /\ rdSeen' = Append(rdSeen, b)
    BY <1>5 DEF ReaderBlock
  <2>2. IsSeq(rdSeen') /\ Len(rdSeen) \in Nat /\ Len(rdSeen') = Len(rdSeen) + 1
    BY <2>1, AppendFacts DEF ReaderInv
  <2>3. Advances(rd, rd', rdFile.magic, Len(rdSeen))
    <3>1. CASE rdFile.magic = "pcapng"
      BY <1>2, <1>5, <2>1, <2>2, <3>1, PcapngAdvances DEF ReaderBlock
    <3>2. CASE rdFile.magic # "pcapng"
      BY <1>2, <1>5, <2>1, <2>2, <3>2, ClassicAdvances DEF ReaderBlock
    <3> QED  BY <3>1, <3>2
  <2>4. ReaderTableStep
    BY <2>3 DEF Advances, ReaderTableStep
  <2> QED
    BY <1>2, <2>1, <2>2, <2>3, <2>4 DEF Advances, ReaderInv
<1> QED
  BY <1>1, <1>3, <1>4, <1>5 DEF ReaderNext

\* The interface table of from_pcapng_reader keeps to its cap, whatever the cap is.
THEOREM ReaderTableCapped == ReaderSpec => []ReaderTypeOK
<1>1. ReaderInv => ReaderTypeOK
  BY Zenon DEF ReaderInv, Reading, ReadFailed, ReaderTypeOK
<1> QED
  BY <1>1, ReaderInvInit, ReaderInvStep, PTL DEF ReaderSpec

\* Every block of a file read to its end is an interface, a packet or counted, and
\* a file handed on with packets has one link type, and one that can be decoded.
THEOREM ReaderAccountsForAll == ReaderSpec => []ReaderWhole
<1>1. ReaderInv => ReaderWhole
  BY Zenon DEF ReaderInv, Reading, ReadFailed, ReaderWhole
<1> QED
  BY <1>1, ReaderInvInit, ReaderInvStep, PTL DEF ReaderSpec

\* No interface is described after the first packet.
THEOREM ReaderOneTable == ReaderSpec => ReaderTableFrozen
  BY ReaderInvInit, ReaderInvStep, PTL DEF ReaderSpec, ReaderTableFrozen

\* A link type that the reader lets through is one that decode_packet knows.
LEMMA LinksDecodable == SupportedLinks \subseteq DecodableLinks
BY DEF SupportedLinks, DecodableLinks, RawLinks

-----------------------------------------------------------------------------
(* The state of main                                                       *)

DriverFields ==
    {"phase", "code", "any_error", "targets", "files", "link", "packets", "left", "summary", "dns",
     "decode_errors", "arp_frames", "malformed_frames", "open", "found", "findings", "tcp_gaps",
     "udp_gaps", "finalized", "output", "written"}

SummaryFields == {"total_packets", "skipped_packets", "hosts", "protocols", "services"}

WellFormed(d) ==
    /\ DOMAIN d = DriverFields /\ DOMAIN d.summary = SummaryFields
    /\ d.summary.total_packets \in Nat /\ d.arp_frames \in Nat
    /\ d.malformed_frames \in Nat /\ d.decode_errors \in Nat

\* the fields that say where the walk over targets, files and packets is
SamePlace(d, e) ==
    /\ e.phase = d.phase /\ e.code = d.code /\ e.any_error = d.any_error
    /\ e.targets = d.targets /\ e.files = d.files
    /\ e.link = d.link /\ e.packets = d.packets /\ e.left = d.left

\* the four counters of packets
CountsAdvance(d, e, ip, arp, malformed, lost) ==
    /\ e.summary.total_packets = d.summary.total_packets + ip
    /\ e.arp_frames = d.arp_frames + arp
    /\ e.malformed_frames = d.malformed_frames + malformed
    /\ e.decode_errors = d.decode_errors + lost

SameCounts(d, e) ==
    /\ e.summary.total_packets = d.summary.total_packets
    /\ e.arp_frames = d.arp_frames
    /\ e.malformed_frames = d.malformed_frames
    /\ e.decode_errors = d.decode_errors

\* nothing but flows, findings and gaps has changed
Aside(d, e) == WellFormed(e) /\ SamePlace(d, e) /\ SameCounts(d, e)

-----------------------------------------------------------------------------
(* One packet                                                              *)

\* the end of a flow
LEMMA CloseFlowAside ==
    ASSUME NEW d, WellFormed(d), NEW c, NEW flow
    PROVE  Aside(d, CloseFlow(d, c, flow))
BY DEF WellFormed, DriverFields, Aside, SamePlace, SameCounts, CloseFlow

\* process_packet, as far as the driver sees it
LEMMA ProcessPacketAside ==
    ASSUME NEW d, WellFormed(d), NEW c, NEW p, NEW parsed
    PROVE  Aside(d, ProcessPacket(d, c, p, parsed))
<1> DEFINE flow   == [app |-> p.app, port |-> Lower(parsed.ports)]
           noted  == [d EXCEPT !.found = IF p.anomaly THEN Count(@, "reassembly") ELSE @]
           opened == [noted EXCEPT !.open = @ \cup {flow}]
<1>1. Aside(d, opened)
  BY DEF WellFormed, DriverFields, Aside, SamePlace, SameCounts
<1>2. Aside(opened, CloseFlow(opened, c, flow))
  BY <1>1, CloseFlowAside DEF Aside
<1>3. Aside(d, CloseFlow(opened, c, flow))
  <2> HIDE DEF opened, flow
  <2> QED BY <1>1, <1>2 DEF Aside, SamePlace, SameCounts
<1>4. Aside(d, d)
  BY DEF Aside, SamePlace, SameCounts
<1>5. ProcessPacket(d, c, p, parsed) \in {d, opened, CloseFlow(opened, c, flow)}
  BY DEF ProcessPacket
<1> HIDE DEF opened, flow
<1> QED BY <1>1, <1>3, <1>4, <1>5

\* An IP packet is counted in the summary and nowhere else.
LEMMA OnIpCounts ==
    ASSUME NEW d, WellFormed(d), NEW c, NEW p, NEW parsed, NEW e, e = OnIp(d, c, p, parsed)
    PROVE  WellFormed(e) /\ SamePlace(d, e) /\ CountsAdvance(d, e, 1, 0, 0, 0)
<1> DEFINE counted == [d EXCEPT !.summary = Ingest(@, parsed),
                                !.dns = IF "dns" \in c.enabled /\ CanDecode(parsed)
                                        THEN DnsAnalyze(@, parsed) ELSE @]
           passed  == IF HasReassembler(c) THEN ProcessPacket(counted, c, p, parsed) ELSE counted
<1>1. /\ DOMAIN Ingest(d.summary, parsed) = SummaryFields
      /\ Ingest(d.summary, parsed).total_packets = d.summary.total_packets + 1
  BY DEF WellFormed, SummaryFields, Ingest
<1>2. /\ WellFormed(counted) /\ SamePlace(d, counted)
      /\ counted.summary.total_packets = d.summary.total_packets + 1
      /\ counted.arp_frames = d.arp_frames
      /\ counted.malformed_frames = d.malformed_frames
      /\ counted.decode_errors = d.decode_errors
  BY <1>1 DEF WellFormed, DriverFields, SummaryFields, SamePlace
<1> HIDE DEF counted
<1>3. Aside(counted, passed)
  BY <1>2, ProcessPacketAside, SMTT(30) DEF Aside, SamePlace, SameCounts
<1> HIDE DEF passed
<1>4. e = passed \/ e = [passed EXCEPT !.udp_gaps = Count(@, <<"Udp", Lower(parsed.ports)>>)]
  BY DEF OnIp, passed, counted
<1>5. Aside(passed, e)
  BY <1>3, <1>4 DEF Aside, WellFormed, DriverFields, SamePlace, SameCounts
<1>6. Aside(counted, e)
  BY <1>3, <1>5 DEF Aside, SamePlace, SameCounts
<1> QED BY <1>2, <1>6 DEF Aside, WellFormed, SamePlace, SameCounts, CountsAdvance

\* An ARP frame is counted if ARP is analyzed, an error always, malformed ARP
\* frames on their own.
LEMMA OnArpCounts ==
    ASSUME NEW d, WellFormed(d), NEW c, NEW p, NEW e, e = OnArp(d, c, p)
    PROVE  /\ WellFormed(e) /\ SamePlace(d, e)
           /\ CountsAdvance(d, e, 0, IF "arp" \in c.enabled THEN 1 ELSE 0, 0, 0)
BY DEF OnArp, WellFormed, DriverFields, SummaryFields, SamePlace, CountsAdvance

\* A malformed ARP frame adds one to the counter of such frames and nothing else.
LEMMA OnMalformedArpCounts ==
    ASSUME NEW d, WellFormed(d), NEW c, NEW e, e = OnMalformedArp(d, c)
    PROVE  WellFormed(e) /\ SamePlace(d, e) /\ CountsAdvance(d, e, 0, 0, 1, 0)
BY DEF OnMalformedArp, WellFormed, DriverFields, SummaryFields, SamePlace, CountsAdvance

\* A packet the decoder refuses adds one to the decode errors and nothing else.
LEMMA OnErrorCounts ==
    ASSUME NEW d, WellFormed(d), NEW e, e = OnError(d)
    PROVE  WellFormed(e) /\ SamePlace(d, e) /\ CountsAdvance(d, e, 0, 0, 0, 1)
BY DEF OnError, WellFormed, DriverFields, SummaryFields, SamePlace, CountsAdvance

\* What decode_packet makes of a packet is its nature, on the strict and on the lax
\* path alike.
LEMMA DecodeNature ==
    ASSUME NEW p, CapturedPacket(p), NEW link \in DecodableLinks,
           NEW f, f = DecodePacket(p, link), NEW n, n = Nature([packet |-> p, link |-> link])
    PROVE  \/ n = "ip" /\ f.frame = "Ip"
           \/ n = "arp" /\ f.frame = "Arp"
           \/ n = "malformed" /\ f = MalformedArp /\ f.frame = "Err"
           \/ n = "lost" /\ f # MalformedArp /\ f.frame = "Err"
<1>1. /\ MalformedArp.frame = "Err"
      /\ \A m \in {"Parse error", "truncated ARP frame", "No IP layer found", "Unsupported link type"} :
            Failed(m).frame = "Err" /\ Failed(m) # MalformedArp
  BY Zenon DEF MalformedArp, Failed
<1> DEFINE Ip == [frame |-> "Ip", parsed |-> BuildParsed(p)]
           strict == StrictSlice(p, link)
<1>2. Ip.frame = "Ip" /\ [frame |-> "Arp"].frame = "Arp"
  OBVIOUS
<1> HIDE DEF Ip
<1>3. n = CASE p.sound /\ p.kind = "ip" /\ p.cut \notin {"link", "net"} -> "ip"
            [] p.sound /\ p.kind = "arp" /\ link \notin RawLinks /\ p.cut \in {"none", "ext"} ->
                  IF p.standard THEN "arp" ELSE "malformed"
            [] p.sound /\ p.kind = "arp" /\ link = "ETHERNET" /\ p.cut = "payload" /\ ~p.standard ->
                  "malformed"
            [] OTHER -> "lost"
  BY DEF Nature
<1>4. CASE strict = "content"
  <2>1. f = Failed("Parse error")
    BY <1>4, Zenon DEF DecodePacket
  <2>2. n = "lost"
    BY <1>3, <1>4 DEF StrictSlice, NetLayer, CapturedPacket, RawLinks
  <2> QED BY <1>1, <2>1, <2>2, Zenon
<1>5. CASE strict = "ip"
  <2>1. f = Ip
    BY <1>5 DEF DecodePacket, Ip
  <2>2. n = "ip"
    BY <1>3, <1>5 DEF StrictSlice, NetLayer, CapturedPacket, RawLinks
  <2> QED BY <1>2, <2>1, <2>2
<1>6. CASE strict = "arp"
  <2>1. f = ExtractArpFrame(p)
    BY <1>6 DEF DecodePacket
  <2>2. n = IF p.standard THEN "arp" ELSE "malformed"
    BY <1>3, <1>6 DEF StrictSlice, NetLayer, CapturedPacket, RawLinks
  <2> QED BY <1>1, <1>2, <2>1, <2>2, Zenon DEF ExtractArpFrame
<1>7. CASE strict = "none"
  <2>1. f = Failed("No IP layer found")
    BY <1>7, Zenon DEF DecodePacket
  <2>2. n = "lost"
    BY <1>3, <1>7 DEF StrictSlice, NetLayer, CapturedPacket, RawLinks
  <2> QED BY <1>1, <2>1, <2>2, Zenon
<1>8. CASE strict = "len"
  <2>1. f = LaxDecode(p, link)
    BY <1>8 DEF DecodePacket
  <2>2. p.sound /\ p.cut # "none" /\ (link \in RawLinks => p.kind = "ip") /\ ~(link = "LINUX_SLL" /\ p.cut = "link")
    BY <1>8 DEF StrictSlice, NetLayer, CapturedPacket, RawLinks
  <2>3. CASE p.cut = "link" \/ (p.cut = "net" /\ link \in RawLinks)
    <3>1. LaxSlice(p, link) = "error"
      BY <2>3 DEF LaxSlice
    <3> QED BY <1>1, <1>3, <2>1, <2>3, <3>1, Zenon DEF LaxDecode
  <2>4. CASE p.cut = "ext"
    <3>1. LaxSlice(p, link) = NetLayer(p)
      BY <2>4 DEF LaxSlice
    <3>2. CASE p.kind = "other"
      BY <1>1, <1>3, <2>1, <3>1, <3>2, Zenon DEF LaxDecode, NetLayer
    <3>3. CASE p.kind = "ip"
      <4>1. f = Ip
        BY <2>1, <3>1, <3>3 DEF LaxDecode, NetLayer, Ip
      <4> QED BY <1>2, <1>3, <2>2, <2>4, <3>3, <4>1
    <3>4. CASE p.kind = "arp"
      <4>1. f = ExtractArpFrame(p)
        BY <2>1, <3>1, <3>4 DEF LaxDecode, NetLayer
      <4> QED BY <1>1, <1>2, <1>3, <2>2, <2>4, <3>4, <4>1, Zenon DEF ExtractArpFrame
    <3> QED BY <3>2, <3>3, <3>4 DEF CapturedPacket
  <2>5. CASE p.cut \in {"transport", "payload"} /\ p.kind = "ip"
    <3>1. LaxSlice(p, link) = "ip"
      BY <2>5 DEF LaxSlice
    <3>2. f = Ip
      BY <2>1, <3>1 DEF LaxDecode, Ip
    <3> QED BY <1>2, <1>3, <2>2, <2>5, <3>2
  <2>6. CASE p.cut \in {"transport", "payload", "net"} /\ p.kind = "arp" /\ link \notin RawLinks
    <3>1. LaxSlice(p, link) = "stopped at arp"
      BY <2>6, Zenon DEF LaxSlice
    <3>2. f = StoppedAtArp(p, link)
      BY <2>1, <3>1, Zenon DEF LaxDecode
    <3> QED BY <1>1, <1>3, <2>2, <2>6, <3>2, Zenon DEF StoppedAtArp
  <2>7. CASE \/ p.cut \in {"transport", "payload", "net"} /\ p.kind = "other"
             \/ p.cut = "net" /\ p.kind = "ip" /\ link \notin RawLinks
    <3>1. LaxSlice(p, link) = "none"
      BY <2>2, <2>7 DEF LaxSlice
    <3>2. f = Failed("No IP layer found")
      BY <2>1, <3>1, Zenon DEF LaxDecode
    <3> QED BY <1>1, <1>3, <2>7, <3>2, Zenon
  <2> QED BY <2>2, <2>3, <2>4, <2>5, <2>6, <2>7 DEF CapturedPacket
<1> QED BY <1>4, <1>5, <1>6, <1>7, <1>8 DEF StrictSlice, NetLayer, CapturedPacket

-----------------------------------------------------------------------------
(* The packets read                                                        *)

\* What taking the first element off a sequence does.
LEMMA TailFacts ==
    ASSUME NEW s, IsSeq(s), s # <<>>
    PROVE  /\ IsSeq(Tail(s)) /\ 1 \in DOMAIN s /\ Head(s) = s[1]
           /\ \A j \in DOMAIN Tail(s) : j + 1 \in DOMAIN s /\ Tail(s)[j] = s[j + 1]
           /\ \A i \in DOMAIN s : i # 1 => i - 1 \in DOMAIN Tail(s) /\ Tail(s)[i - 1] = s[i]
<1>1. PICK S : s \in Seq(S)
  BY DEF IsSeq
<1>2. Tail(s) \in Seq(S) /\ Len(Tail(s)) = Len(s) - 1 /\ Len(s) \in Nat /\ Len(s) > 0
  BY <1>1
<1>3. \A j \in 1 .. Len(Tail(s)) : Tail(s)[j] = s[j + 1]
  BY <1>1, <1>2
<1>4. IsSeq(Tail(s))
  BY <1>2 DEF IsSeq
<1> QED BY <1>1, <1>2, <1>3, <1>4

\* the packets read that are of a nature
OfNature(s, nature) == {i \in DOMAIN s : Nature(s[i]) = nature}

\* One more packet read is one more of its nature, and none of another.
LEMMA NatureAppend ==
    ASSUME NEW s, IsSeq(s), NEW x, NEW nature
    PROVE  /\ Cardinality(OfNature(s, nature)) \in Nat
           /\ Cardinality(OfNature(Append(s, x), nature)) =
                 Cardinality(OfNature(s, nature)) + (IF Nature(x) = nature THEN 1 ELSE 0)
<1> DEFINE old == OfNature(s, nature)
           new == OfNature(Append(s, x), nature)
<1>0. Len(s) \in Nat /\ DOMAIN s = 1 .. Len(s)
  BY AppendFacts
<1>1. IsFiniteSet(1 .. Len(s)) /\ old \subseteq 1 .. Len(s)
  BY <1>0, FS_Interval DEF OfNature
<1>2. IsFiniteSet(old)
  BY <1>1, FS_Subset
<1>3. Cardinality(old) \in Nat
  BY <1>2, FS_CardinalityType
<1>4. CASE Nature(x) = nature
  <2>1. new = old \cup {Len(s) + 1} /\ Len(s) + 1 \notin old
    BY <1>4, AppendFacts DEF OfNature
  <2>2. Cardinality(new) = Cardinality(old) + 1
    BY <1>2, <2>1, FS_AddElement, Zenon
  <2> QED BY <1>3, <1>4, <2>2
<1>5. CASE Nature(x) # nature
  <2>1. new = old
    BY <1>5, AppendFacts DEF OfNature
  <2> QED BY <1>3, <1>5, <2>1
<1> QED BY <1>4, <1>5

\* Nothing has been read before the first packet.
LEMMA NoneSeen ==
    ASSUME NEW nature
    PROVE  Cardinality(OfNature(<<>>, nature)) = 0
<1>1. OfNature(<<>>, nature) = {}
  BY DEF OfNature
<1> QED BY <1>1, FS_EmptySet

\* DriverPacketsAccounted, of a state d and the packets s that it has read
Accounted(d, c, s) ==
    /\ d.summary.total_packets = Cardinality(OfNature(s, "ip"))
    /\ IF c.command = "analyze"
       THEN /\ d.decode_errors = Cardinality(OfNature(s, "lost"))
            /\ d.malformed_frames = Cardinality(OfNature(s, "malformed"))
            /\ d.arp_frames = IF "arp" \in c.enabled THEN Cardinality(OfNature(s, "arp")) ELSE 0
       ELSE d.decode_errors = Cardinality(OfNature(s, "lost")) + Cardinality(OfNature(s, "malformed"))

\* The accounting of the packet loop, as a predicate on the state, is the property.
LEMMA AccountedIsProperty == DriverPacketsAccounted <=> Accounted(dr, drRun.cli, drSeen)
BY DEF DriverPacketsAccounted, Accounted, Seen, OfNature

\* One packet of the loop of run_analyze, and of the loop of run_summary.
LEMMA PacketAccounted ==
    ASSUME NEW d, WellFormed(d), NEW c, NEW s, IsSeq(s), Accounted(d, c, s),
           NEW p, CapturedPacket(p), NEW link \in DecodableLinks,
           NEW e, e = IF c.command = "analyze" THEN AnalyzePacket(d, c, p, DecodePacket(p, link))
                      ELSE SummaryPacket(d, DecodePacket(p, link))
    PROVE  /\ WellFormed(e) /\ SamePlace(d, e)
           /\ Accounted(e, c, Append(s, [packet |-> p, link |-> link]))
<1> DEFINE x == [packet |-> p, link |-> link]
           n == Nature(x)
           f == DecodePacket(p, link)
           seen(nature) == Cardinality(OfNature(s, nature))
           after(nature) == Cardinality(OfNature(Append(s, x), nature))
<1>1. \A nature : seen(nature) \in Nat /\ after(nature) = seen(nature) + (IF n = nature THEN 1 ELSE 0)
  BY NatureAppend
<1>2. \/ n = "ip" /\ f.frame = "Ip"
      \/ n = "arp" /\ f.frame = "Arp"
      \/ n = "malformed" /\ f = MalformedArp /\ f.frame = "Err"
      \/ n = "lost" /\ f # MalformedArp /\ f.frame = "Err"
  BY DecodeNature
<1> HIDE DEF x, n, f
<1>0. MalformedArp.frame = "Err"
  BY DEF MalformedArp, Failed
<1>3. f.frame # "Err" => f # MalformedArp
  BY <1>0
<1>4. /\ after("ip") = seen("ip") + (IF n = "ip" THEN 1 ELSE 0)
      /\ after("arp") = seen("arp") + (IF n = "arp" THEN 1 ELSE 0)
      /\ after("malformed") = seen("malformed") + (IF n = "malformed" THEN 1 ELSE 0)
      /\ after("lost") = seen("lost") + (IF n = "lost" THEN 1 ELSE 0)
      /\ seen("ip") \in Nat /\ seen("arp") \in Nat /\ seen("malformed") \in Nat /\ seen("lost") \in Nat
  BY <1>1
<1>5. /\ d.summary.total_packets = seen("ip")
      /\ c.command = "analyze" => /\ d.decode_errors = seen("lost")
                                  /\ d.malformed_frames = seen("malformed")
                                  /\ d.arp_frames = IF "arp" \in c.enabled THEN seen("arp") ELSE 0
      /\ c.command # "analyze" => d.decode_errors = seen("lost") + seen("malformed")
  BY DEF Accounted
<1>6. SUFFICES /\ WellFormed(e) /\ SamePlace(d, e)
               /\ e.summary.total_packets = after("ip")
               /\ c.command = "analyze" => /\ e.decode_errors = after("lost")
                                           /\ e.malformed_frames = after("malformed")
                                           /\ e.arp_frames = IF "arp" \in c.enabled THEN after("arp") ELSE 0
               /\ c.command # "analyze" => e.decode_errors = after("lost") + after("malformed")
  BY DEF Accounted, x
<1> HIDE DEF seen, after
<1>7. CASE c.command = "analyze"
  <2>0. e = AnalyzePacket(d, c, p, f)
    BY <1>7 DEF f
  <2>1. CASE n = "ip"
    <3>1. e = OnIp(d, c, p, f.parsed)
      BY <1>2, <1>3, <2>0, <2>1, Zenon DEF AnalyzePacket
    <3>2. WellFormed(e) /\ SamePlace(d, e) /\ CountsAdvance(d, e, 1, 0, 0, 0)
      BY <3>1, OnIpCounts
    <3> QED BY <1>4, <1>5, <1>7, <2>1, <3>2, SMTT(30) DEF CountsAdvance
  <2>2. CASE n = "arp"
    <3>1. f.frame # "Ip" /\ f.frame = "Arp"
      BY <1>2, <2>2
    <3>2. e = OnArp(d, c, p)
      BY <1>3, <2>0, <3>1, Zenon DEF AnalyzePacket
    <3>3. /\ WellFormed(e) /\ SamePlace(d, e)
          /\ CountsAdvance(d, e, 0, IF "arp" \in c.enabled THEN 1 ELSE 0, 0, 0)
      BY <3>2, OnArpCounts
    <3> QED BY <1>4, <1>5, <1>7, <2>2, <3>3, SMTT(30) DEF CountsAdvance
  <2>3. CASE n = "malformed"
    <3>1. f.frame = "Err" /\ f = MalformedArp
      BY <1>2, <2>3
    <3>2. e = OnMalformedArp(d, c)
      BY <2>0, <3>1, Zenon DEF AnalyzePacket
    <3>3. WellFormed(e) /\ SamePlace(d, e) /\ CountsAdvance(d, e, 0, 0, 1, 0)
      BY <3>2, OnMalformedArpCounts
    <3> QED BY <1>4, <1>5, <1>7, <2>3, <3>3, SMTT(30) DEF CountsAdvance
  <2>4. CASE n = "lost"
    <3>1. f.frame = "Err" /\ f # MalformedArp
      BY <1>2, <2>4
    <3>2. e = OnError(d)
      BY <2>0, <3>1, Zenon DEF AnalyzePacket
    <3>3. WellFormed(e) /\ SamePlace(d, e) /\ CountsAdvance(d, e, 0, 0, 0, 1)
      BY <3>2, OnErrorCounts
    <3> QED BY <1>4, <1>5, <1>7, <2>4, <3>3, SMTT(30) DEF CountsAdvance
  <2> QED BY <1>2, <2>1, <2>2, <2>3, <2>4
<1>8. CASE c.command # "analyze"
  <2>0. e = SummaryPacket(d, f)
    BY <1>8 DEF f
  <2>1. CASE n = "ip"
    <3>1. e = [d EXCEPT !.summary = Ingest(@, f.parsed)]
      BY <1>2, <2>0, <2>1, Zenon DEF SummaryPacket
    <3> DEFINE summary == Ingest(d.summary, f.parsed)
    <3>3. /\ DOMAIN summary = SummaryFields /\ summary.total_packets \in Nat
          /\ summary.total_packets = d.summary.total_packets + 1
      BY DEF WellFormed, SummaryFields, Ingest
    <3>4. e = [d EXCEPT !.summary = summary]
      BY <3>1
    <3> HIDE DEF summary
    <3>2. /\ WellFormed(e) /\ SamePlace(d, e) /\ e.decode_errors = d.decode_errors
          /\ e.summary.total_packets = d.summary.total_packets + 1
      BY <3>3, <3>4 DEF WellFormed, DriverFields, SamePlace
    <3> QED BY <1>4, <1>5, <1>8, <2>1, <3>2, SMTT(30)
  <2>2. CASE n = "arp"
    <3>1. f.frame # "Ip" /\ f.frame = "Arp"
      BY <1>2, <2>2
    <3>2. e = d
      BY <2>0, <3>1, Zenon DEF SummaryPacket
    <3> QED BY <1>4, <1>5, <1>8, <2>2, <3>2, SMTT(30) DEF SamePlace
  <2>3. CASE n \in {"malformed", "lost"}
    <3>1. f.frame = "Err"
      BY <1>2, <2>3
    <3>2. e = OnError(d)
      BY <2>0, <3>1, Zenon DEF SummaryPacket
    <3>3. WellFormed(e) /\ SamePlace(d, e) /\ CountsAdvance(d, e, 0, 0, 0, 1)
      BY <3>2, OnErrorCounts
    <3>4. e.summary.total_packets = d.summary.total_packets /\ e.decode_errors = d.decode_errors + 1
      BY <3>3, SMTT(30) DEF CountsAdvance, WellFormed
    <3> QED BY <1>4, <1>5, <1>8, <2>3, <3>3, <3>4, SMTT(30)
  <2> QED BY <1>2, <2>1, <2>2, <2>3
<1> QED BY <1>7, <1>8

-----------------------------------------------------------------------------
(* The walk over the targets                                               *)

\* a file that from_file accepts is one that the loop can decode
Fit(f) == f.readable => f.link \in DecodableLinks /\ \A p \in f.packets : CapturedPacket(p)

\* what is still to be read is fit to be read
WalkFit(d) ==
    /\ IsSeq(d.targets)
    /\ \A j \in DOMAIN d.targets : \A f \in d.targets[j].files : Fit(f)
    /\ \A f \in d.files : Fit(f)
    /\ \A p \in d.packets : CapturedPacket(p) /\ d.link \in DecodableLinks

\* a target that makes the run fail, itself or by a file that is read
Fails(t) == ~Resolves(t) \/ \E f \in t.files : ~f.readable /\ (t.kind = "file" \/ f.magic)

RunFails(run) == \E i \in DOMAIN run.targets : Fails(run.targets[i])

Refused(c) == (c.command = "analyze" /\ ~c.valid) \/ (c.command = "protocols" /\ ResolveFormat(c) = "csv")

\* a failure has been met, or is ahead
FailureKnown(d) ==
    \/ d.any_error
    \/ \E f \in d.files : ~f.readable
    \/ \E j \in DOMAIN d.targets : Fails(d.targets[j])

\* the flag, and what is ahead, tell whether the run fails
ExitInv(d, run) ==
    LET c == run.cli
    IN  /\ d.any_error \in BOOLEAN
        /\ d.phase \in {"start", "files", "write", "done"}
        /\ d.phase = "start" => ~d.any_error /\ d.files = {} /\ d.targets = run.targets
        /\ d.phase = "files" => /\ ~Refused(c) /\ c.command # "protocols"
                                /\ RunFails(run) <=> FailureKnown(d)
        /\ d.phase = "write" => /\ ~Refused(c)
                                /\ c.command = "protocols" => ~d.any_error
                                /\ c.command # "protocols" => (RunFails(run) <=> d.any_error)
        /\ d.phase = "done" =>
              d.code = IF Refused(c) \/ WriteFails(c) \/ (c.command # "protocols" /\ RunFails(run))
                       THEN 1 ELSE 0

\* The inductive invariant.
DriverInv ==
    /\ drRun \in DriverRun
    /\ WellFormed(dr)
    /\ IsSeq(drSeen)
    /\ WalkFit(dr)
    /\ Accounted(dr, drRun.cli, drSeen)
    /\ ExitInv(dr, drRun)

\* What the invariant says of the exit code gives the property.
LEMMA ExitIsProperty == ExitInv(dr, drRun) => DriverExitCode
BY DEF ExitInv, DriverExitCode, Refused, RunFails, Fails

\* A state with the same counters accounts for the same packets.
LEMMA SameAccounted ==
    ASSUME NEW d, NEW e, NEW c, NEW s, Accounted(d, c, s), SameCounts(d, e)
    PROVE  Accounted(e, c, s)
BY DEF Accounted, SameCounts

\* The invariant holds for a process that has just started.
LEMMA DriverInitInv == DriverInit => DriverInv
<1> SUFFICES ASSUME DriverInit PROVE DriverInv
  OBVIOUS
<1>1. WellFormed(dr)
  BY DEF DriverInit, NewDriver, NewSummary, WellFormed, DriverFields, SummaryFields
<1>2. IsSeq(drSeen)
  BY DEF DriverInit, IsSeq
<1>3. /\ dr.targets = drRun.targets /\ dr.files = {} /\ dr.packets = {}
      /\ dr.any_error = FALSE /\ dr.phase = "start"
  BY DEF DriverInit, NewDriver
<1>4. WalkFit(dr)
  <2>1. drRun \in DriverRun
    BY DEF DriverInit
  <2>2. IsSeq(drRun.targets)
    BY <2>1, DriverAssumption, Zenon DEF IsSeq
  <2>3. \A j \in DOMAIN drRun.targets : \A f \in drRun.targets[j].files : Fit(f)
    BY <2>1, DriverAssumption, Zenon DEF Fit
  <2> QED BY <1>3, <2>2, <2>3 DEF WalkFit
<1>5. Accounted(dr, drRun.cli, drSeen)
  <2>1. \A nature : Cardinality(OfNature(drSeen, nature)) = 0
    BY NoneSeen DEF DriverInit
  <2>2. /\ dr.summary.total_packets = 0 /\ dr.decode_errors = 0
        /\ dr.malformed_frames = 0 /\ dr.arp_frames = 0
    BY DEF DriverInit, NewDriver, NewSummary
  <2> QED BY <2>1, <2>2 DEF Accounted
<1>6. ExitInv(dr, drRun)
  BY <1>3, Zenon DEF ExitInv
<1> QED BY <1>1, <1>2, <1>4, <1>5, <1>6 DEF DriverInv, DriverInit

-----------------------------------------------------------------------------
(* The actions                                                             *)

\* The part of the invariant that a step proves of the state after it.
After(e, run, s) == WellFormed(e) /\ WalkFit(e) /\ Accounted(e, run.cli, s) /\ ExitInv(e, run)

\* A step that changes no target, file or packet keeps what is ahead fit.
LEMMA SameWalk ==
    ASSUME NEW d, NEW e, WalkFit(d),
           e.targets = d.targets, e.files = d.files, e.packets = d.packets, e.link = d.link
    PROVE  WalkFit(e)
BY DEF WalkFit

\* main, and the checks of run_analyze
LEMMA StartAfter ==
    ASSUME DriverInv, DriverStart
    PROVE  After(dr', drRun, drSeen)
<1> DEFINE c == drRun.cli
<1>1. CASE Refused(c)
  <2>1. dr' = Exit(dr, 1)
    BY <1>1 DEF DriverStart, Refused
  <2>2. /\ WellFormed(dr') /\ SameCounts(dr, dr') /\ dr'.phase = "done" /\ dr'.code = 1
        /\ dr'.any_error = dr.any_error
        /\ dr'.targets = dr.targets /\ dr'.files = dr.files /\ dr'.packets = dr.packets /\ dr'.link = dr.link
    BY <2>1 DEF DriverInv, Exit, WellFormed, DriverFields, SameCounts
  <2>3. WalkFit(dr') /\ Accounted(dr', c, drSeen)
    BY <2>2, SameWalk, SameAccounted DEF DriverInv
  <2>4. ExitInv(dr', drRun)
    BY <1>1, <2>2, Zenon DEF DriverInv, ExitInv
  <2> QED BY <2>2, <2>3, <2>4 DEF After
<1>2. CASE ~Refused(c) /\ c.command = "protocols"
  <2>1. dr' = ProtocolsReport(dr, c)
    BY <1>2 DEF DriverStart, Refused
  <2>2. /\ WellFormed(dr') /\ SameCounts(dr, dr') /\ dr'.phase = "write"
        /\ dr'.any_error = dr.any_error
        /\ dr'.targets = dr.targets /\ dr'.files = dr.files /\ dr'.packets = dr.packets /\ dr'.link = dr.link
    BY <2>1 DEF DriverInv, ProtocolsReport, WellFormed, DriverFields, SameCounts
  <2>3. WalkFit(dr') /\ Accounted(dr', c, drSeen)
    BY <2>2, SameWalk, SameAccounted DEF DriverInv
  <2>4. ExitInv(dr', drRun)
    BY <1>2, <2>2 DEF DriverInv, ExitInv, DriverStart
  <2> QED BY <2>2, <2>3, <2>4 DEF After
<1>3. CASE ~Refused(c) /\ c.command # "protocols"
  <2>1. dr' = [dr EXCEPT !.phase = "files"]
    BY <1>3 DEF DriverStart, Refused
  <2>2. /\ WellFormed(dr') /\ SameCounts(dr, dr') /\ dr'.phase = "files"
        /\ dr'.any_error = dr.any_error
        /\ dr'.targets = dr.targets /\ dr'.files = dr.files /\ dr'.packets = dr.packets /\ dr'.link = dr.link
    BY <2>1 DEF DriverInv, WellFormed, DriverFields, SameCounts
  <2>3. WalkFit(dr') /\ Accounted(dr', c, drSeen)
    BY <2>2, SameWalk, SameAccounted DEF DriverInv
  <2>4. RunFails(drRun) <=> FailureKnown(dr')
    BY <2>2 DEF DriverInv, DriverStart, ExitInv, RunFails, FailureKnown
  <2>5. ExitInv(dr', drRun)
    BY <1>3, <2>2, <2>4, Zenon DEF DriverInv, ExitInv
  <2> QED BY <2>2, <2>3, <2>5 DEF After
<1> QED BY <1>1, <1>2, <1>3

\* A target that cannot be resolved ends the run; of another, the files are ahead.
LEMMA NextTargetAfter ==
    ASSUME DriverInv, DriverNextTarget
    PROVE  After(dr', drRun, drSeen)
<1> DEFINE t == Head(dr.targets)
<1>0. /\ WellFormed(dr) /\ WalkFit(dr) /\ Accounted(dr, drRun.cli, drSeen) /\ ExitInv(dr, drRun)
      /\ dr.phase = "files" /\ dr.files = {} /\ dr.targets # <<>>
  BY DEF DriverInv, DriverNextTarget
<1>1. /\ IsSeq(Tail(dr.targets)) /\ 1 \in DOMAIN dr.targets /\ t = dr.targets[1]
      /\ \A j \in DOMAIN Tail(dr.targets) :
            j + 1 \in DOMAIN dr.targets /\ Tail(dr.targets)[j] = dr.targets[j + 1]
      /\ \A i \in DOMAIN dr.targets :
            i # 1 => i - 1 \in DOMAIN Tail(dr.targets) /\ Tail(dr.targets)[i - 1] = dr.targets[i]
  BY <1>0, TailFacts DEF WalkFit
<1>2. CASE ~Resolves(t)
  <2>1. dr' = Exit(dr, 1)
    BY <1>2 DEF DriverNextTarget
  <2>2. /\ WellFormed(dr') /\ SameCounts(dr, dr') /\ dr'.phase = "done" /\ dr'.code = 1
        /\ dr'.any_error = dr.any_error
        /\ dr'.targets = dr.targets /\ dr'.files = dr.files /\ dr'.packets = dr.packets /\ dr'.link = dr.link
    BY <1>0, <2>1 DEF Exit, WellFormed, DriverFields, SameCounts
  <2>3. WalkFit(dr') /\ Accounted(dr', drRun.cli, drSeen)
    BY <1>0, <2>2, SameWalk, SameAccounted, Zenon
  <2>4. RunFails(drRun)
    BY <1>0, <1>1, <1>2 DEF ExitInv, FailureKnown, Fails
  <2>5. ExitInv(dr', drRun)
    BY <1>0, <2>2, <2>4 DEF ExitInv
  <2> QED BY <2>2, <2>3, <2>5 DEF After
<1>3. CASE Resolves(t)
  <2>1. dr' = [dr EXCEPT !.targets = Tail(@), !.files = ResolveTargets(t)]
    BY <1>3 DEF DriverNextTarget
  <2>2. /\ WellFormed(dr') /\ SameCounts(dr, dr') /\ dr'.phase = "files"
        /\ dr'.any_error = dr.any_error
        /\ dr'.targets = Tail(dr.targets) /\ dr'.files = ResolveTargets(t)
        /\ dr'.packets = dr.packets /\ dr'.link = dr.link
    BY <1>0, <2>1 DEF WellFormed, DriverFields, SameCounts
  <2>3. Accounted(dr', drRun.cli, drSeen)
    BY <1>0, <2>2, SameAccounted
  <2>4. \A f \in ResolveTargets(t) : f \in t.files
    BY DEF ResolveTargets
  <2>5. WalkFit(dr')
    BY <1>0, <1>1, <2>2, <2>4, SMTT(30) DEF WalkFit
  <2>6. Fails(t) <=> \E f \in ResolveTargets(t) : ~f.readable
    BY <1>3 DEF Fails, Resolves, ResolveTargets
  <2>7. (\E j \in DOMAIN dr.targets : Fails(dr.targets[j])) <=>
            Fails(t) \/ \E j \in DOMAIN Tail(dr.targets) : Fails(Tail(dr.targets)[j])
    BY <1>1
  <2>8. FailureKnown(dr) <=> FailureKnown(dr')
    BY <1>0, <2>2, <2>6, <2>7 DEF FailureKnown
  <2>9. ExitInv(dr', drRun)
    BY <1>0, <2>2, <2>8, Zenon DEF ExitInv
  <2> QED BY <2>2, <2>3, <2>5, <2>9 DEF After
<1> QED BY <1>2, <1>3

\* A file that cannot be read sets the flag for good; another is opened.
LEMMA NextFileAfter ==
    ASSUME DriverInv, DriverNextFile
    PROVE  After(dr', drRun, drSeen)
<1>0. /\ WellFormed(dr) /\ WalkFit(dr) /\ Accounted(dr, drRun.cli, drSeen) /\ ExitInv(dr, drRun)
      /\ dr.phase = "files"
  BY DEF DriverInv, DriverNextFile
<1>1. PICK f \in dr.files : dr' = OpenFile([dr EXCEPT !.files = @ \ {f}], f)
  BY DEF DriverNextFile
<1>2. CASE ~f.readable
  <2>1. /\ WellFormed(dr') /\ SameCounts(dr, dr') /\ dr'.phase = "files" /\ dr'.any_error = TRUE
        /\ dr'.targets = dr.targets /\ dr'.files = dr.files \ {f}
        /\ dr'.packets = dr.packets /\ dr'.link = dr.link
    BY <1>0, <1>1, <1>2 DEF OpenFile, WellFormed, DriverFields, SameCounts
  <2>2. Accounted(dr', drRun.cli, drSeen)
    BY <1>0, <2>1, SameAccounted
  <2>3. WalkFit(dr')
    BY <1>0, <2>1 DEF WalkFit
  <2>4. FailureKnown(dr) /\ FailureKnown(dr')
    BY <1>2, <2>1 DEF FailureKnown
  <2>5. ExitInv(dr', drRun)
    BY <1>0, <2>1, <2>4, Zenon DEF ExitInv
  <2> QED BY <2>1, <2>2, <2>3, <2>5 DEF After
<1>3. CASE f.readable
  <2>1. /\ WellFormed(dr') /\ SameCounts(dr, dr') /\ dr'.phase = "files" /\ dr'.any_error = dr.any_error
        /\ dr'.targets = dr.targets /\ dr'.files = dr.files \ {f}
        /\ dr'.packets = f.packets /\ dr'.link = f.link
    BY <1>0, <1>1, <1>3 DEF OpenFile, WellFormed, DriverFields, SameCounts
  <2>2. Accounted(dr', drRun.cli, drSeen)
    BY <1>0, <2>1, SameAccounted
  <2>3. WalkFit(dr')
    BY <1>0, <1>3, <2>1 DEF WalkFit, Fit
  <2>4. FailureKnown(dr) <=> FailureKnown(dr')
    BY <1>3, <2>1 DEF FailureKnown
  <2>5. ExitInv(dr', drRun)
    BY <1>0, <2>1, <2>4 DEF ExitInv
  <2> QED BY <2>1, <2>2, <2>3, <2>5 DEF After
<1> QED BY <1>2, <1>3

\* One packet: only the counters and what is behind them change.
LEMMA NextPacketAfter ==
    ASSUME DriverInv, NEW p \in dr.packets, DriverNextPacket(p)
    PROVE  After(dr', drRun, drSeen') /\ IsSeq(drSeen')
<1> DEFINE d == [dr EXCEPT !.left = @ - 1]
<1>0. /\ WellFormed(dr) /\ WalkFit(dr) /\ Accounted(dr, drRun.cli, drSeen) /\ ExitInv(dr, drRun)
      /\ dr.phase = "files" /\ IsSeq(drSeen)
  BY DEF DriverInv, DriverNextPacket
<1>1. /\ WellFormed(d) /\ SameCounts(dr, d) /\ d.phase = "files" /\ d.any_error = dr.any_error
      /\ d.targets = dr.targets /\ d.files = dr.files /\ d.packets = dr.packets /\ d.link = dr.link
  BY <1>0 DEF WellFormed, DriverFields, SameCounts
<1>2. Accounted(d, drRun.cli, drSeen)
  BY <1>0, <1>1, SameAccounted
<1>3. CapturedPacket(p) /\ dr.link \in DecodableLinks
  BY <1>0 DEF WalkFit
<1>4. /\ dr' = IF drRun.cli.command = "analyze"
               THEN AnalyzePacket(d, drRun.cli, p, DecodePacket(p, dr.link))
               ELSE SummaryPacket(d, DecodePacket(p, dr.link))
      /\ drSeen' = Append(drSeen, [packet |-> p, link |-> dr.link])
  BY DEF DriverNextPacket
<1> HIDE DEF d
<1>5. WellFormed(dr') /\ SamePlace(d, dr') /\ Accounted(dr', drRun.cli, drSeen')
  BY <1>0, <1>1, <1>2, <1>3, <1>4, PacketAccounted, Zenon
<1>6. IsSeq(drSeen')
  BY <1>0, <1>4, AppendFacts
<1>7. WalkFit(dr')
  BY <1>0, <1>1, <1>5, SameWalk DEF SamePlace
<1>8. FailureKnown(dr) <=> FailureKnown(dr')
  BY <1>1, <1>5 DEF FailureKnown, SamePlace
<1>9. dr'.phase = "files" /\ dr'.any_error = dr.any_error
  BY <1>1, <1>5 DEF SamePlace
<1>10. ExitInv(dr', drRun)
  BY <1>0, <1>8, <1>9, Zenon DEF ExitInv
<1> QED BY <1>5, <1>6, <1>7, <1>10 DEF After

\* The report: every flow that is open is closed, and nothing is ahead any more.
LEMMA FinishAfter ==
    ASSUME DriverInv, DriverFinish
    PROVE  After(dr', drRun, drSeen)
<1> DEFINE c == drRun.cli
           done == Finalize(dr, c)
<1>0. /\ WellFormed(dr) /\ WalkFit(dr) /\ Accounted(dr, c, drSeen) /\ ExitInv(dr, drRun)
      /\ dr.phase = "files" /\ dr.files = {} /\ dr.targets = <<>>
  BY DEF DriverInv, DriverFinish
<1>1. /\ DOMAIN done = DriverFields /\ done.summary = dr.summary /\ done.arp_frames = dr.arp_frames
      /\ done.malformed_frames = dr.malformed_frames /\ done.decode_errors = dr.decode_errors
      /\ done.any_error = dr.any_error /\ done.targets = dr.targets /\ done.files = dr.files
      /\ done.packets = dr.packets /\ done.link = dr.link
  BY <1>0 DEF Finalize, WellFormed, DriverFields
<1>2. /\ WellFormed(dr') /\ SameCounts(dr, dr') /\ dr'.phase = "write" /\ dr'.any_error = dr.any_error
      /\ dr'.targets = dr.targets /\ dr'.files = dr.files /\ dr'.packets = dr.packets /\ dr'.link = dr.link
  <2>1. CASE c.command = "analyze"
    <3> DEFINE output == [ findings |-> done.findings \o Collect(done, c),
                           summaries |-> SelectSeq(Analyzers, LAMBDA a : HasSummary(c, a)),
                           gaps |-> IF c.coverage_gaps /\ ResolveFormat(c) # "csv"
                                    THEN RenderGaps(CollectAllGaps(done)) ELSE <<>>,
                           listing |-> <<>> ]
    <3>1. dr' = [done EXCEPT !.phase = "write", !.summary.skipped_packets = done.decode_errors,
                             !.output = output]
      BY <2>1, Zenon DEF DriverFinish, AnalyzeReport
    <3> HIDE DEF done, output
    <3> QED BY <1>0, <1>1, <3>1 DEF WellFormed, DriverFields, SummaryFields, SameCounts
  <2>2. CASE c.command # "analyze"
    <3>1. dr' = SummaryReport(dr)
      BY <2>2 DEF DriverFinish
    <3> QED BY <1>0, <3>1 DEF SummaryReport, WellFormed, DriverFields, SummaryFields, SameCounts
  <2> QED BY <2>1, <2>2
<1>3. WalkFit(dr') /\ Accounted(dr', c, drSeen)
  BY <1>0, <1>2, SameWalk, SameAccounted, Zenon
<1>4. FailureKnown(dr) <=> dr.any_error
  BY <1>0, SMTT(30) DEF FailureKnown
<1>5. ExitInv(dr', drRun)
  BY <1>0, <1>2, <1>4 DEF ExitInv
<1> QED BY <1>2, <1>3, <1>5 DEF After

\* The output is written, or fails.
LEMMA WriteAfter ==
    ASSUME DriverInv, DriverWrite
    PROVE  After(dr', drRun, drSeen)
<1> DEFINE c == drRun.cli
<1>0. /\ WellFormed(dr) /\ WalkFit(dr) /\ Accounted(dr, c, drSeen) /\ ExitInv(dr, drRun)
      /\ dr.phase = "write"
  BY DEF DriverInv, DriverWrite
<1>1. /\ WellFormed(dr') /\ SameCounts(dr, dr') /\ dr'.phase = "done" /\ dr'.any_error = dr.any_error
      /\ dr'.code = (IF WriteFails(c) \/ dr.any_error THEN 1 ELSE 0)
      /\ dr'.targets = dr.targets /\ dr'.files = dr.files /\ dr'.packets = dr.packets /\ dr'.link = dr.link
  BY <1>0 DEF DriverWrite, WriteOutput, Exit, WellFormed, DriverFields, SameCounts
<1>2. WalkFit(dr') /\ Accounted(dr', c, drSeen)
  BY <1>0, <1>1, SameWalk, SameAccounted
<1>3. ExitInv(dr', drRun)
  BY <1>0, <1>1, Zenon DEF ExitInv
<1> QED BY <1>1, <1>2, <1>3 DEF After

\* Every step of the process keeps the invariant.
LEMMA DriverStepInv == DriverInv /\ [DriverNext]_drVars => DriverInv'
<1> SUFFICES ASSUME DriverInv, [DriverNext]_drVars PROVE DriverInv'
  OBVIOUS
<1>1. CASE DriverStart \/ DriverNextTarget \/ DriverNextFile \/ DriverFinish \/ DriverWrite
  <2>1. After(dr', drRun, drSeen)
    BY <1>1, StartAfter, NextTargetAfter, NextFileAfter, FinishAfter, WriteAfter
  <2>2. drRun' = drRun /\ drSeen' = drSeen
    BY <1>1 DEF DriverStart, DriverNextTarget, DriverNextFile, DriverFinish, DriverWrite
  <2> QED BY <2>1, <2>2 DEF DriverInv, After
<1>2. CASE \E p \in dr.packets : DriverNextPacket(p)
  <2>1. After(dr', drRun, drSeen') /\ IsSeq(drSeen') /\ drRun' = drRun
    BY <1>2, NextPacketAfter DEF DriverNextPacket
  <2> QED BY <2>1 DEF DriverInv, After
<1>3. CASE UNCHANGED drVars
  BY <1>3 DEF DriverInv, drVars
<1> QED BY <1>1, <1>2, <1>3 DEF DriverNext, DriverStep, DriverExited

\* Whatever the targets and their files hold, every packet that main reads is
\* counted once and in the right place, on the strict and on the lax path of the
\* decoder, by analyze and by summary.
THEOREM PacketsCounted == DriverSpec => []DriverPacketsAccounted
<1>1. DriverInv => DriverPacketsAccounted
  BY AccountedIsProperty DEF DriverInv
<1> QED BY <1>1, DriverInitInv, DriverStepInv, PTL DEF DriverSpec

\* Whatever the targets and their files hold, main exits with 1 exactly if the
\* options, a target, a file or the output failed.
THEOREM ExitCodeRight == DriverSpec => []DriverExitCode
<1>1. DriverInv => DriverExitCode
  BY ExitIsProperty DEF DriverInv
<1> QED BY <1>1, DriverInitInv, DriverStepInv, PTL DEF DriverSpec

-----------------------------------------------------------------------------
(* The stream dispatcher                                                   *)

Tables(K, V) == UNION {[S -> V] : S \in SUBSET K}

DispatcherState ==
    [ routes : Tables(Key, Target \cup {"None"}), attempts : Tables(Key, 1 .. (MaxAttempts - 1)),
      unclassified_flows : Nat, port_counts : Tables(UNION {Ports[k] : k \in Key}, Nat),
      held : [Target -> SUBSET Key] ]

\* one pair per flow counted
Gaps(counts) == UNION {{p} \X (1 .. counts[p]) : p \in DOMAIN counts}

\* What holds of the dispatcher between two calls.
Sound(d) ==
    /\ d \in DispatcherState
    /\ DOMAIN d.routes \cap DOMAIN d.attempts = {}
    /\ \A t \in Target : d.held[t] = {k \in DOMAIN d.routes : t \in Enabled /\ d.routes[k] = t}
    /\ CoverageGaps => IsFiniteSet(Gaps(d.port_counts)) /\ d.unclassified_flows = Cardinality(Gaps(d.port_counts))

-----------------------------------------------------------------------------
(* Tables and choices                                                      *)

\* Inserting an entry keeps a table of the kind it was.
LEMMA WithTyped ==
    ASSUME NEW K, NEW V, NEW t \in Tables(K, V), NEW k \in K, NEW v \in V
    PROVE  With(t, k, v) \in Tables(K, V)
<1>1. PICK S \in SUBSET K : t \in [S -> V]
  BY DEF Tables
<1>2. With(t, k, v) \in [S \cup {k} -> V]
  BY <1>1 DEF With
<1>3. S \cup {k} \in SUBSET K
  BY <1>1
<1> QED
  BY <1>2, <1>3 DEF Tables

\* Removing an entry keeps a table of the kind it was.
LEMMA WithoutTyped ==
    ASSUME NEW K, NEW V, NEW t \in Tables(K, V), NEW k
    PROVE  Without(t, k) \in Tables(K, V)
<1>1. PICK S \in SUBSET K : t \in [S -> V]
  BY DEF Tables
<1>2. Without(t, k) \in [S \ {k} -> V]
  BY <1>1 DEF Without
<1>3. S \ {k} \in SUBSET K
  BY <1>1
<1> QED
  BY <1>2, <1>3 DEF Tables

\* A non-empty set of numbers has a least one: the rule that hits first, the lower
\* port.
LEMMA LeastExists ==
    ASSUME NEW T \in SUBSET Nat, T # {}
    PROVE  \E x \in T : \A y \in T : x <= y
<1>1. PICK x \in T : \A y \in T : ~ (<<y, x>> \in OpToRel(<, Nat))
  BY NatLessThanWellFounded, WFMin, Zenon
<1>2. ASSUME NEW y \in T PROVE x <= y
  <2>1. ~ (y < x)
    BY <1>1, Zenon DEF OpToRel
  <2> QED  BY <2>1
<1> QED
  BY <1>2

\* classify returns a dispatch target, or none.
LEMMA ClassifyTyped ==
    ASSUME NEW c, NEW k \in Key
    PROVE  Classify(c, k) \in Target \cup {"None"}
<1> DEFINE hits == {i \in DOMAIN PortRules : PortRules[i][1] \cap Ports[k] # {}}
           first == CHOOSE i \in hits : \A j \in hits : i <= j
<1>1. PortTarget(k) \in Target \cup {"None"}
  <2>1. CASE hits = {}
    BY <2>1 DEF PortTarget
  <2>2. CASE hits # {}
    <3>1. DOMAIN PortRules = 1 .. 6
      BY DEF PortRules
    <3>2. hits \in SUBSET Nat
      BY <3>1
    <3>3. \E i \in hits : \A j \in hits : i <= j
      <4> HIDE DEF hits
      <4> QED  BY <2>2, <3>2, LeastExists
    <3>4. first \in 1 .. 6
      BY <3>1, <3>3
    <3> HIDE DEF first
    <3>5. PortRules[first][2] \in Target
      BY <3>4 DEF PortRules, Target
    <3> QED
      BY <2>2, <3>5 DEF PortTarget, first
  <2> QED  BY <2>1, <2>2
<1> QED
  BY <1>1 DEF Classify, Target

\* The port an unclassified flow is counted under is one of its ports.
LEMMA GapPortTyped ==
    ASSUME NEW k \in Key
    PROVE  GapPort(k) \in Ports[k] /\ GapPort(k) \in Nat
<1>1. Ports[k] \in SUBSET Nat /\ Ports[k] # {}
  BY DispatcherConstants
<1>2. \E p \in Ports[k] : \A q \in Ports[k] : p <= q
  BY <1>1, LeastExists
<1> QED
  BY <1>1, <1>2 DEF GapPort

-----------------------------------------------------------------------------
(* on_data and on_flow_close                                               *)

Kept(d, n) == \A k \in DOMAIN d.routes : k \in DOMAIN n.routes => n.routes[k] = d.routes[k]

\* A chunk of a flow that has a route finds the flow already held.
LEMMA ForwardSound ==
    ASSUME NEW d, Sound(d), NEW k \in DOMAIN d.routes
    PROVE  Sound(Forward(d, k, d.routes[k])) /\ Kept(d, Forward(d, k, d.routes[k]))
<1> DEFINE target == d.routes[k]
           n == Forward(d, k, target)
<1>1. d \in DispatcherState
  BY DEF Sound
<1>2. CASE target \notin Enabled
  BY <1>2 DEF Forward, Kept
<1>3. CASE target \in Enabled
  <2>1. target \in Target
    BY <1>3, DispatcherConstants
  <2>2. k \in d.held[target]
    BY <1>3, <2>1 DEF Sound
  <2> HIDE DEF target
  <2>3. n = [d EXCEPT !.held = [d.held EXCEPT ![target] = d.held[target] \cup {k}]]
    BY <1>1, <1>3 DEF Forward, DispatcherState
  <2>4. [d.held EXCEPT ![target] = d.held[target] \cup {k}] = d.held
    BY <1>1, <2>1, <2>2 DEF DispatcherState
  <2>5. n = [d EXCEPT !.held = d.held]
    BY <2>3, <2>4
  <2> HIDE DEF n
  <2>6. /\ n \in DispatcherState /\ n.routes = d.routes /\ n.attempts = d.attempts /\ n.held = d.held
        /\ n.port_counts = d.port_counts /\ n.unclassified_flows = d.unclassified_flows
    BY <1>1, <2>5 DEF DispatcherState
  <2> QED
    BY <2>6, SMTT(30) DEF Sound, Kept, n, target
<1> QED
  BY <1>2, <1>3

\* A flow that is placed has its analyzer, if there is one, hold it.
LEMMA PlaceSound ==
    ASSUME NEW d, Sound(d), NEW k \in Key, k \notin DOMAIN d.routes, NEW t \in Target
    PROVE  LET n == Forward([d EXCEPT !.routes = With(@, k, t), !.attempts = Without(@, k)], k, t)
           IN  Sound(n) /\ Kept(d, n)
<1> DEFINE r == With(d.routes, k, t)
           a == Without(d.attempts, k)
           h == IF t \in Enabled THEN [d.held EXCEPT ![t] = d.held[t] \cup {k}] ELSE d.held
           n == Forward([d EXCEPT !.routes = With(@, k, t), !.attempts = Without(@, k)], k, t)
<1>1. d \in DispatcherState
  BY DEF Sound
<1>2. r \in Tables(Key, Target \cup {"None"})
  BY <1>1, WithTyped DEF DispatcherState
<1>3. a \in Tables(Key, 1 .. (MaxAttempts - 1))
  BY <1>1, WithoutTyped DEF DispatcherState
<1>4. h \in [Target -> SUBSET Key]
  BY <1>1 DEF DispatcherState
<1>5. n = [d EXCEPT !.routes = r, !.attempts = a, !.held = h]
  BY <1>1, Zenon DEF Forward, DispatcherState
<1>6. DOMAIN r = DOMAIN d.routes \cup {k} /\ r[k] = t /\ \A l \in DOMAIN d.routes : r[l] = d.routes[l]
  BY DEF With
<1>7. DOMAIN a = DOMAIN d.attempts \ {k}
  BY DEF Without
<1>8. ASSUME NEW u \in Target PROVE h[u] = {l \in DOMAIN r : u \in Enabled /\ r[l] = u}
  <2>1. d.held[u] = {l \in DOMAIN d.routes : u \in Enabled /\ d.routes[l] = u}
    BY DEF Sound
  <2>2. h[u] = IF u = t /\ t \in Enabled THEN d.held[u] \cup {k} ELSE d.held[u]
    BY <1>1, Zenon DEF DispatcherState
  <2> HIDE DEF r, h
  <2> QED  BY <1>6, <2>1, <2>2
<1> HIDE DEF n, r, a, h
<1>9. /\ n \in DispatcherState /\ n.routes = r /\ n.attempts = a /\ n.held = h
      /\ n.port_counts = d.port_counts /\ n.unclassified_flows = d.unclassified_flows
  BY <1>1, <1>2, <1>3, <1>4, <1>5, Zenon DEF DispatcherState
<1> QED
  BY <1>6, <1>7, <1>8, <1>9 DEF Sound, Kept, n

\* A flow that cannot be placed is tried again below the cap, or stamped None.
LEMMA UnplacedSound ==
    ASSUME NEW d, Sound(d), NEW k \in Key, k \notin DOMAIN d.routes
    PROVE  Sound(Unplaced(d, k)) /\ Kept(d, Unplaced(d, k))
<1> DEFINE n == Unplaced(d, k)
           count == (IF k \in DOMAIN d.attempts THEN d.attempts[k] ELSE 0) + 1
<1>1. d \in DispatcherState
  BY DEF Sound
<1>2. count \in Nat /\ count >= 1
  BY <1>1, DispatcherConstants DEF DispatcherState, Tables
<1>3. CASE count >= MaxAttempts
  <2> DEFINE r == With(d.routes, k, "None")
             a == Without(d.attempts, k)
  <2>1. n = [d EXCEPT !.routes = r, !.attempts = a]
    BY <1>1, <1>3 DEF Unplaced, DispatcherState
  <2>2. r \in Tables(Key, Target \cup {"None"}) /\ a \in Tables(Key, 1 .. (MaxAttempts - 1))
    BY <1>1, WithTyped, WithoutTyped DEF DispatcherState
  <2>3. DOMAIN r = DOMAIN d.routes \cup {k} /\ r[k] = "None" /\ \A l \in DOMAIN d.routes : r[l] = d.routes[l]
    BY DEF With
  <2>4. DOMAIN a = DOMAIN d.attempts \ {k}
    BY DEF Without
  <2> HIDE DEF n, r, a, count
  <2>5. /\ n \in DispatcherState /\ n.routes = r /\ n.attempts = a /\ n.held = d.held
        /\ n.port_counts = d.port_counts /\ n.unclassified_flows = d.unclassified_flows
    BY <1>1, <2>1, <2>2, Zenon DEF DispatcherState
  <2>6. ASSUME NEW u \in Target PROVE n.held[u] = {l \in DOMAIN r : u \in Enabled /\ r[l] = u}
    <3>1. d.held[u] = {l \in DOMAIN d.routes : u \in Enabled /\ d.routes[l] = u}
      BY DEF Sound
    <3>2. u # "None"
      BY DEF Target
    <3> QED  BY <2>3, <2>5, <3>1, <3>2
  <2> QED
    BY <2>3, <2>4, <2>5, <2>6, SMTT(30) DEF Sound, Kept, n
<1>4. CASE ~(count >= MaxAttempts)
  <2> DEFINE a == With(d.attempts, k, count)
  <2>1. n = [d EXCEPT !.attempts = a]
    BY <1>1, <1>4 DEF Unplaced, DispatcherState
  <2>2. count \in 1 .. (MaxAttempts - 1)
    BY <1>2, <1>4, DispatcherConstants
  <2> HIDE DEF count
  <2>3. a \in Tables(Key, 1 .. (MaxAttempts - 1))
    BY <1>1, <2>2, WithTyped, Zenon DEF DispatcherState
  <2>4. DOMAIN a = DOMAIN d.attempts \cup {k}
    BY DEF With
  <2> HIDE DEF n, a
  <2>5. /\ n \in DispatcherState /\ n.routes = d.routes /\ n.attempts = a /\ n.held = d.held
        /\ n.port_counts = d.port_counts /\ n.unclassified_flows = d.unclassified_flows
    BY <1>1, <2>1, <2>3 DEF DispatcherState
  <2> QED
    BY <2>4, <2>5, SMTT(30) DEF Sound, Kept, n
<1> QED
  BY <1>3, <1>4

\* One more flow on a port is one more pair.
LEMMA GapCounted ==
    ASSUME NEW P, NEW counts \in Tables(P, Nat), NEW p \in P, IsFiniteSet(Gaps(counts)),
           NEW c \in Nat, c = IF p \in DOMAIN counts THEN counts[p] ELSE 0
    PROVE  /\ IsFiniteSet(Gaps(With(counts, p, c + 1)))
           /\ Cardinality(Gaps(With(counts, p, c + 1))) = Cardinality(Gaps(counts)) + 1
<1> DEFINE n == With(counts, p, c + 1)
<1>1. DOMAIN n = DOMAIN counts \cup {p} /\ n[p] = c + 1 /\ \A l \in DOMAIN counts \ {p} : n[l] = counts[l]
  BY DEF With
<1>2. \A l \in DOMAIN counts : counts[l] \in Nat
  BY DEF Tables
<1> HIDE DEF n
<1>3. \A x : x \in Gaps(counts) <=> \E l \in DOMAIN counts : \E i \in 1 .. counts[l] : x = <<l, i>>
  BY DEF Gaps
<1>4. \A x : x \in Gaps(n) <=> \E l \in DOMAIN n : \E i \in 1 .. n[l] : x = <<l, i>>
  BY DEF Gaps
<1>5. <<p, c + 1>> \notin Gaps(counts)
  BY <1>2, <1>3
<1>6. ASSUME NEW x PROVE x \in Gaps(n) <=> x \in Gaps(counts) \cup {<<p, c + 1>>}
  <2>1. ASSUME NEW l \in DOMAIN n, NEW i \in 1 .. n[l], x = <<l, i>>
        PROVE  x \in Gaps(counts) \cup {<<p, c + 1>>}
    <3>1. CASE l = p /\ i = c + 1
      BY <2>1, <3>1
    <3>2. CASE l = p /\ i # c + 1
      <4>1. i \in 1 .. c /\ c # 0
        BY <1>1, <2>1, <3>2
      <4> QED  BY <1>3, <2>1, <3>2, <4>1
    <3>3. CASE l # p
      BY <1>1, <1>3, <2>1, <3>3
    <3> QED  BY <3>1, <3>2, <3>3
  <2>2. ASSUME NEW l \in DOMAIN counts, NEW i \in 1 .. counts[l], x = <<l, i>>
        PROVE  x \in Gaps(n)
    <3>1. i \in 1 .. n[l]
      BY <1>1, <1>2, <2>2
    <3> QED  BY <1>1, <1>4, <2>2, <3>1
  <2>3. <<p, c + 1>> \in Gaps(n)
    BY <1>1, <1>4
  <2> QED
    BY <1>3, <1>4, <2>1, <2>2, <2>3
<1>7. Gaps(n) = Gaps(counts) \cup {<<p, c + 1>>}
  BY <1>6
<1> QED
  BY <1>5, <1>7, FS_AddElement DEF n

\* Counting a flow that ends unclassified leaves all but the counts alone, which
\* go on adding up.
LEMMA CountUnclassifiedSound ==
    ASSUME NEW d, Sound(d), NEW k \in Key
    PROVE  Sound(CountUnclassified(d, k)) /\ CountUnclassified(d, k).routes = d.routes
<1> DEFINE n == CountUnclassified(d, k)
           P == UNION {Ports[l] : l \in Key}
           counts == d.port_counts
           p == GapPort(k)
           c == IF p \in DOMAIN counts THEN counts[p] ELSE 0
           pc == IF ~CoverageGaps THEN counts ELSE With(counts, p, c + 1)
<1>1. d \in DispatcherState
  BY DEF Sound
<1> SUFFICES ASSUME Enabled # {} PROVE Sound(n) /\ n.routes = d.routes
  BY DEF CountUnclassified
<1>2. n = [d EXCEPT !.unclassified_flows = d.unclassified_flows + 1, !.port_counts = pc]
  BY <1>1 DEF CountUnclassified, DispatcherState
<1>3. p \in P
  BY GapPortTyped
<1>4. counts \in Tables(P, Nat)
  BY <1>1 DEF DispatcherState
<1>5. c \in Nat
  BY <1>4 DEF Tables
<1> HIDE DEF p, c, P, n
<1>6. pc \in Tables(P, Nat)
  <2>1. With(counts, p, c + 1) \in Tables(P, Nat)
    BY <1>3, <1>4, <1>5, WithTyped
  <2> QED  BY <1>4, <2>1
<1>7. CoverageGaps => IsFiniteSet(Gaps(pc)) /\ Cardinality(Gaps(pc)) = d.unclassified_flows + 1
  BY <1>3, <1>4, <1>5, GapCounted, SMTT(30) DEF Sound, c
<1> HIDE DEF pc
<1>8. d.unclassified_flows + 1 \in Nat
  BY <1>1 DEF DispatcherState
<1>9. /\ n \in DispatcherState /\ n.routes = d.routes /\ n.attempts = d.attempts /\ n.held = d.held
      /\ n.port_counts = pc /\ n.unclassified_flows = d.unclassified_flows + 1
  BY <1>1, <1>2, <1>6, <1>8, Zenon DEF DispatcherState, P
<1> QED
  BY <1>7, <1>9, SMTT(30) DEF Sound

\* The close of a flow takes its route, its attempts and its place in the analyzer.
LEMMA OnFlowCloseSound ==
    ASSUME NEW d, Sound(d), NEW k \in Key
    PROVE  Sound(OnFlowClose(d, k)) /\ Kept(d, OnFlowClose(d, k))
<1> DEFINE target == IF k \in DOMAIN d.routes THEN d.routes[k] ELSE "None"
           r == Without(d.routes, k)
           a == Without(d.attempts, k)
           h == IF target \in Enabled THEN [d.held EXCEPT ![target] = d.held[target] \ {k}] ELSE d.held
           freed == [d EXCEPT !.routes = r, !.attempts = a, !.held = h]
<1>1. d \in DispatcherState
  BY DEF Sound
<1>2. "None" \notin Target /\ "None" \notin Enabled
  BY DispatcherConstants DEF Target
<1>3. r \in Tables(Key, Target \cup {"None"}) /\ a \in Tables(Key, 1 .. (MaxAttempts - 1))
  BY <1>1, WithoutTyped, Zenon DEF DispatcherState
<1>4. DOMAIN r = DOMAIN d.routes \ {k} /\ \A l \in DOMAIN r : r[l] = d.routes[l]
  BY DEF Without
<1>5. DOMAIN a = DOMAIN d.attempts \ {k}
  BY DEF Without
<1>6. h \in [Target -> SUBSET Key]
  BY <1>1, Zenon DEF DispatcherState
<1>7. ASSUME NEW u \in Target PROVE h[u] = {l \in DOMAIN r : u \in Enabled /\ r[l] = u}
  <2>1. d.held[u] = {l \in DOMAIN d.routes : u \in Enabled /\ d.routes[l] = u}
    BY DEF Sound
  <2>2. h[u] = IF u = target /\ u \in Enabled THEN d.held[u] \ {k} ELSE d.held[u]
    BY <1>1, Zenon DEF DispatcherState
  <2> HIDE DEF r, h
  <2> QED  BY <1>2, <1>4, <2>1, <2>2
<1>8. OnFlowClose(d, k) = IF target = "None" THEN CountUnclassified(freed, k) ELSE freed
  <2>1. CASE target = "None"
    <3>1. [d EXCEPT !.routes = r, !.attempts = a] = freed
      BY <1>1, <1>2, <2>1, Zenon DEF DispatcherState
    <3> QED  BY <2>1, <3>1 DEF OnFlowClose
  <2>2. CASE target # "None" /\ target \in Enabled
    BY <1>1, <2>2 DEF OnFlowClose, DispatcherState
  <2>3. CASE target # "None" /\ target \notin Enabled
    BY <1>1, <2>3, Zenon DEF OnFlowClose, DispatcherState
  <2> QED  BY <2>1, <2>2, <2>3, Zenon
<1> HIDE DEF r, a, h, target
<1>9. /\ freed \in DispatcherState /\ freed.routes = r /\ freed.attempts = a /\ freed.held = h
      /\ freed.port_counts = d.port_counts /\ freed.unclassified_flows = d.unclassified_flows
  BY <1>1, <1>3, <1>6, Zenon DEF DispatcherState
<1> HIDE DEF freed
<1>10. Sound(freed)
  BY <1>4, <1>5, <1>7, <1>9, SMTT(30) DEF Sound
<1>11. OnFlowClose(d, k).routes = r /\ Sound(OnFlowClose(d, k))
  BY <1>8, <1>9, <1>10, CountUnclassifiedSound
<1> QED
  BY <1>4, <1>11 DEF Kept

\* on_data keeps the dispatcher sound and no route changes under it.
LEMMA OnDataSound ==
    ASSUME NEW d, Sound(d), NEW k \in Key, NEW c
    PROVE  Sound(OnData(d, k, c)) /\ Kept(d, OnData(d, k, c))
<1>1. CASE Enabled = {}
  BY <1>1 DEF OnData, Kept
<1>2. CASE Enabled # {} /\ k \in DOMAIN d.routes
  BY <1>2, ForwardSound DEF OnData
<1>3. CASE Enabled # {} /\ k \notin DOMAIN d.routes /\ Classify(c, k) = "None"
  BY <1>3, UnplacedSound DEF OnData
<1>4. CASE Enabled # {} /\ k \notin DOMAIN d.routes /\ Classify(c, k) # "None"
  BY <1>4, PlaceSound, ClassifyTyped, ZenonT(30) DEF OnData
<1> QED
  BY <1>1, <1>2, <1>3, <1>4

-----------------------------------------------------------------------------
(* The behaviour                                                           *)

\* The inductive invariant.
DispatcherInv == Sound(disp)

\* StreamDispatcher::new starts sound.
LEMMA SoundInit == Init => DispatcherInv
<1> SUFFICES ASSUME Init PROVE Sound(disp)
  BY DEF DispatcherInv
<1>1. \A K, V : [k \in {} |-> "None"] \in Tables(K, V)
  BY DEF Tables
<1>2. \A K, V : [k \in {} |-> 0] \in Tables(K, V)
  BY DEF Tables
<1>3. disp \in DispatcherState
  BY <1>1, <1>2 DEF Init, NewDispatcher, DispatcherState
<1>4. /\ DOMAIN disp.routes = {} /\ DOMAIN disp.attempts = {} /\ disp.held = [t \in Target |-> {}]
      /\ disp.unclassified_flows = 0 /\ DOMAIN disp.port_counts = {}
  BY DEF Init, NewDispatcher
<1>5. Gaps(disp.port_counts) = {}
  BY <1>4 DEF Gaps
<1> QED
  BY <1>3, <1>4, <1>5, FS_EmptySet DEF Sound

\* Every call keeps the dispatcher sound, and only a close drops a route.
LEMMA SoundStep == DispatcherInv /\ [Next]_disp => DispatcherInv' /\ [RouteKept]_disp
<1> SUFFICES ASSUME Sound(disp), [Next]_disp PROVE Sound(disp') /\ [RouteKept]_disp
  BY DEF DispatcherInv
<1>1. CASE UNCHANGED disp
  BY <1>1
<1>2. ASSUME NEW k \in Key, ReceiveClose(k) PROVE Sound(disp') /\ RouteKept
  BY <1>2, OnFlowCloseSound DEF ReceiveClose, Kept, RouteKept
<1>3. ASSUME NEW k \in Key, NEW c \in Chunk, ReceiveData(k, c) PROVE Sound(disp') /\ RouteKept
  BY <1>3, OnDataSound DEF ReceiveData, Kept, RouteKept
<1> QED
  BY <1>1, <1>2, <1>3 DEF Next

\* The retry counters of on_data stay below max_classification_attempts, for every
\* value of it, 0 included, and no flow that has a route keeps one.
THEOREM DispatcherTyped == Spec => []TypeOK
<1>1. DispatcherInv => TypeOK
  BY SMTT(30) DEF DispatcherInv, Sound, DispatcherState, Tables, TypeOK
<1> QED
  BY <1>1, SoundInit, SoundStep, PTL DEF Spec

\* Each analyzer holds exactly the flows routed to it, whichever are enabled.
THEOREM DispatcherHeld == Spec => []HeldFollowsRoutes
<1>1. DispatcherInv => HeldFollowsRoutes
  BY DEF DispatcherInv, Sound, HeldFollowsRoutes
<1> QED
  BY <1>1, SoundInit, SoundStep, PTL DEF Spec

\* The coverage gaps per port add up to the flows that ended unclassified.
THEOREM DispatcherGaps == Spec => []GapsAddUp
<1>1. DispatcherInv => GapsAddUp
  BY DEF DispatcherInv, Sound, GapsAddUp, Gaps
<1> QED
  BY <1>1, SoundInit, SoundStep, PTL DEF Spec

\* "Routing is irrevocable per flow": no call changes a route.
THEOREM DispatcherRoutes == Spec => RouteIrrevocable
  BY SoundInit, SoundStep, PTL DEF Spec, RouteIrrevocable
=============================================================================
