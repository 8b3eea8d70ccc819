-------------------------------- MODULE Tls ---------------------------------
(***************************************************************************)
(* The TLS analyzer of src/analyzer/tls.rs: two layers of reassembly (the  *)
(* records of a direction, and the handshake messages that may span        *)
(* records), the hellos it looks for, and the tables it fills.             *)
(*                                                                         *)
(* A record has len (RecHeader bytes and the payload, whose length it      *)
(* declares), handshake (its type is 0x16) and payload, a sequence of      *)
(* bytes of handshake messages.  A handshake message has len (HsHeader     *)
(* bytes and the body, whose length it declares), type, ok (it parses as   *)
(* the hello its type announces) and the fields of a hello.  A header read *)
(* from the middle of a record or of a message, after a buffer was         *)
(* cleared, declares the length stray and neither type that matters.       *)
(***************************************************************************)
EXTENDS StreamAnalysis

CONSTANTS
    TlsKey,                 \* flow keys
    TlsCapture,             \* captures: the records each direction sends, in order
    RecHeader,              \* 5
    HsHeader,               \* 4
    MAX_BUF,                \* 65536
    MAX_RECORD_PAYLOAD,     \* 18432
    MaxTlsCloses            \* bound of the model

VARIABLES
    tl,         \* the analyzer
    tlWire,     \* the byte stream of each direction, and how much of it was sent
    tlClosed    \* history: flows closed

SE == INSTANCE SequencesExt

tlVars == <<tl, tlWire, tlClosed>>

Tables == {"sni_counts", "ja3_counts", "ja3s_counts", "version_counts", "cipher_counts"}

-----------------------------------------------------------------------------
(* What a hello adds                                                       *)

\* the bitmask test (val & 0x0F0F) == 0x0A0A
IsGrease(val) == val % 16 = 10 /\ (val \div 256) % 16 = 10

WithoutGrease(ids) == SelectSeq(ids, LAMBDA id : ~IsGrease(id))

\* A suite is weak for its NULL, ANON or EXPORT, on the server also for its RC4.
IsWeakCipher(c) == c.name \in {"null", "anon", "export"}

IsWeakServerCipher(c) == IsWeakCipher(c) \/ c.name = "rc4"

\* Extensions that do not parse count as an error and as no extensions.
Exts(m) == IF m.extsOK THEN m.exts ELSE <<>>

\* The fingerprints; the digest is taken for injective.
ComputeJa3(m) ==
    <<m.version, WithoutGrease([i \in DOMAIN m.ciphers |-> m.ciphers[i].id]),
      WithoutGrease(Exts(m)), IF m.extsOK THEN WithoutGrease(m.groups) ELSE <<>>,
      IF m.extsOK THEN m.formats ELSE <<>>>>

ComputeJa3s(m) == <<m.version, m.ciphers[1].id, WithoutGrease(Exts(m))>>

Sni(m) == IF m.extsOK THEN m.sni ELSE "none"

CountSni(a, m) == IF Sni(m) = "none" THEN a ELSE CountKey(a, "sni_counts", Sni(m))

CountExts(a, m) == [a EXCEPT !.parse_errors = @ + (IF m.extsOK THEN 0 ELSE 1)]

HandleClientHello(a, m) ==
    LET counted == CountKey(CountSni(CountExts(CountKey(a, "version_counts", m.version), m), m),
                            "ja3_counts", ComputeJa3(m))
    IN  [counted EXCEPT
            !.handshakes_seen = @ + 1,
            !.all_findings = @ \o When(Sni(m) \in {"control", "non-ASCII", "non-UTF-8"}, Sni(m))
                               \o When(\E i \in DOMAIN m.ciphers : IsWeakCipher(m.ciphers[i]),
                                       "weak suites offered")
                               \o When(m.version <= 768, "deprecated version")]

HandleServerHello(a, m) ==
    LET counted == CountKey(CountKey(CountExts(CountKey(a, "version_counts", m.version), m),
                                     "ja3s_counts", ComputeJa3s(m)),
                            "cipher_counts", m.ciphers[1].name)
    IN  [counted EXCEPT
            !.all_findings = @ \o When(IsWeakServerCipher(m.ciphers[1]), "weak suite selected")
                               \o When(m.version <= 768, "deprecated version")]

-----------------------------------------------------------------------------
(* The handshake messages of a direction.  s holds the analyzer, the flow  *)
(* and the carry that was taken out of it.                                 *)

NewTlsFlow ==
    [ buf |-> NoBytes, hs_carry |-> NoBytes, hello_seen |-> [d \in Direction |-> FALSE] ]

TlsDone(fl) == \A d \in Direction : fl.hello_seen[d]

ExpectedType(d) == IF d = "ClientToServer" THEN "ClientHello" ELSE "ServerHello"

\* what a header at the head of the bytes c declares
InPlace(c) == c[1][2] = 1
Declared(c) == IF InPlace(c) THEN c[1][1].len ELSE c[1][1].stray

HandleHello(s, d, m) ==
    IF ~m.ok THEN [s EXCEPT !.an.parse_errors = @ + 1]
    ELSE [s EXCEPT !.fl.hello_seen[d] = TRUE,
                   !.an = IF d = "ClientToServer" THEN HandleClientHello(@, m)
                          ELSE HandleServerHello(@, m)]

HandshakeStep(s, d) ==
    LET c       == s.carry
        size    == Declared(c)
        m       == c[1][1]
        handled == IF InPlace(c) /\ m.type = ExpectedType(d) THEN HandleHello(s, d, m) ELSE s
    IN  IF Len(c) < HsHeader THEN Stop(s)
        ELSE IF size - HsHeader > MAX_BUF
        THEN Stop([s EXCEPT !.carry = <<>>, !.an.handshake_reassembly_overflows = @ + 1])
        ELSE IF Len(c) < size THEN Stop(s)
        ELSE [handled EXCEPT !.carry = Rest(c, size)]

\* Faulty variant: what is left of the last message is not put back.
ProcessHandshakeCarryDropping(s, d, carry) ==
    LET start == [an |-> s.an, fl |-> s.fl, carry |-> carry, done |-> FALSE]
        end   == Loop(LAMBDA t : HandshakeStep(t, d), LAMBDA t : t.done, start, Len(carry) + 1)
    IN  [s EXCEPT !.an = end.an, !.fl = [end.fl EXCEPT !.hs_carry[d] = <<>>]]

ProcessHandshakeCarry(s, d, carry) ==
    LET start == [an |-> s.an, fl |-> s.fl, carry |-> carry, done |-> FALSE]
        end   == Loop(LAMBDA t : HandshakeStep(t, d), LAMBDA t : t.done, start, Len(carry) + 1)
    IN  [s EXCEPT !.an = end.an, !.fl = [end.fl EXCEPT !.hs_carry[d] = end.carry]]

-----------------------------------------------------------------------------
(* The records of a direction                                              *)

RecordOversized(payload_len) == payload_len > MAX_RECORD_PAYLOAD

CarryOverflows(carry, payload) == Len(carry) + Len(payload) > MAX_BUF

\* prepare_record_step and what try_parse_records does with its result
RecordStep(s, d) ==
    LET c        == s.fl.buf[d]
        size     == Declared(c)
        f        == c[1][1]
        carry    == s.fl.hs_carry[d]
        consumed == [s EXCEPT !.fl.buf[d] = Rest(c, size)]
    IN  IF Len(c) < RecHeader THEN Stop(s)
        ELSE IF RecordOversized(size - RecHeader)
        THEN Stop([s EXCEPT !.fl.buf[d] = <<>>, !.an.parse_errors = @ + 1,
                            !.an.truncated_records = @ + 1])
        ELSE IF Len(c) < size THEN Stop(s)
        ELSE IF ~(InPlace(c) /\ f.handshake) THEN consumed
        ELSE IF CarryOverflows(carry, f.payload)
        THEN [consumed EXCEPT !.fl.hs_carry[d] = <<>>,
                              !.an.handshake_reassembly_overflows = @ + 1]
        ELSE ProcessHandshakeCarry(consumed, d, carry \o f.payload)

-----------------------------------------------------------------------------
(* on_data and on_flow_close                                               *)

TlsIgnored(a, k) == k \in DOMAIN a.flows /\ TlsDone(a.flows[k])

TlsOnData(a, k, d, data) ==
    LET fl    == Get(a.flows, k, NewTlsFlow)
        drop  == Len(fl.buf[d]) + Len(data) > MAX_BUF
        start == [ an |-> [a EXCEPT !.buffer_saturation_drops = @ + (IF drop THEN 1 ELSE 0)],
                   fl |-> [fl EXCEPT !.buf[d] = First(@ \o data, MAX_BUF)], done |-> FALSE ]
        end   == Loop(LAMBDA s : RecordStep(s, d), LAMBDA s : s.done, start, MAX_BUF + 1)
    IN  IF TlsIgnored(a, k) THEN a ELSE [end.an EXCEPT !.flows = With(@, k, end.fl)]

TlsOnFlowClose(a, k) == [a EXCEPT !.flows = Without(@, k)]

NewTls ==
    [ flows |-> Empty, sni_counts |-> Empty, ja3_counts |-> Empty, ja3s_counts |-> Empty,
      version_counts |-> Empty, cipher_counts |-> Empty, handshakes_seen |-> 0,
      parse_errors |-> 0, truncated_records |-> 0, handshake_reassembly_overflows |-> 0,
      buffer_saturation_drops |-> 0, dropped_map_entries |-> 0, all_findings |-> <<>> ]

TlsSummarize(a) ==
    [ packets_analyzed |-> a.handshakes_seen, parse_errors |-> a.parse_errors,
      truncated_records |-> a.truncated_records,
      handshake_reassembly_overflows |-> a.handshake_reassembly_overflows,
      buffer_saturation_drops |-> a.buffer_saturation_drops,
      dropped_map_entries |-> a.dropped_map_entries ]

-----------------------------------------------------------------------------
(* Behaviour: the stream of a direction is sent in order, cut anywhere; a  *)
(* connection after a close sends it again.                                *)

Stream(records) == SE!FlattenSeq([i \in DOMAIN records |-> Bytes(records[i])])

TlsInit ==
    /\ tl = NewTls
    /\ tlWire \in {[records |-> c, sent |-> [k \in TlsKey |-> [d \in Direction |-> 0]]] :
                   c \in TlsCapture}
    /\ tlClosed = 0

TlsData(k, d) ==
    LET bytes == Stream(tlWire.records[d])
        from  == tlWire.sent[k][d]
    IN  \E to \in (from + 1) .. Len(bytes) :
          /\ tl' = TlsOnData(tl, k, d, SubSeq(bytes, from + 1, to))
          /\ tlWire' = [tlWire EXCEPT !.sent[k][d] = to]
          /\ UNCHANGED tlClosed

TlsClose(k) ==
    /\ k \in DOMAIN tl.flows
    /\ tlClosed < MaxTlsCloses
    /\ tl' = TlsOnFlowClose(tl, k)
    /\ tlWire' = [tlWire EXCEPT !.sent[k] = [d \in Direction |-> 0]]
    /\ tlClosed' = tlClosed + 1

TlsNext == \E k \in TlsKey : TlsClose(k) \/ \E d \in Direction : TlsData(k, d)

TlsSpec == TlsInit /\ [][TlsNext]_tlVars

-----------------------------------------------------------------------------
\* The handshake carry and the tables keep to their caps, whatever lengths the
\* headers declare.
TlsTypeOK ==
    /\ \A k \in DOMAIN tl.flows, d \in Direction : Len(tl.flows[k].hs_carry[d]) <= MAX_BUF
    /\ \A table \in Tables : Cardinality(DOMAIN tl[table]) <= MAX_MAP_ENTRIES

\* What stays in a record buffer after a call is the head of one record that is
\* not complete and not oversized: a buffer never stays full, so that no direction
\* is lost for good (as one is in HTTP).
TlsBufAwaitsMore ==
    \A k \in DOMAIN tl.flows, d \in Direction :
        LET c == tl.flows[k].buf[d]
        IN  /\ Len(c) < RecHeader + MAX_RECORD_PAYLOAD
            /\ Len(c) >= RecHeader => Len(c) < Declared(c)

\* the handshake bytes of the records that are whole within the first n bytes
Delivered(records, n) ==
    LET whole == {i \in DOMAIN records : Len(Stream(First(records, i))) <= n}
    IN  SE!FlattenSeq([i \in 1 .. Cardinality(whole) |->
                          IF records[i].handshake THEN records[i].payload ELSE <<>>])

Hellos(d, cells) ==
    {i \in DOMAIN cells : LET m == cells[i][1]
                          IN  cells[i][2] = m.len /\ m.ok /\ m.type = ExpectedType(d)}

\* When every record and message fits, a hello is seen as soon as the last record
\* that holds a part of it is whole, however messages are spread over records and
\* records over calls; every ClientHello up to the last hello awaited is counted.
TlsHellosExact ==
    LET honest == \A d \in Direction :
            /\ Len(Stream(tlWire.records[d])) <= MAX_BUF
            /\ \A i \in DOMAIN tlWire.records[d] :
                  LET f == tlWire.records[d][i]
                  IN  f.len = RecHeader + Len(f.payload) /\ f.len <= RecHeader + MAX_RECORD_PAYLOAD
        hellos(k, d) == Hellos(d, Delivered(tlWire.records[d], tlWire.sent[k][d]))
    IN  honest => \A k \in DOMAIN tl.flows :
            /\ \A d \in Direction : tl.flows[k].hello_seen[d] = (hellos(k, d) # {})
            /\ tlClosed = 0 /\ ~TlsDone(tl.flows[k]) /\ TlsKey = {k} =>
                  tl.handshakes_seen = Cardinality(hellos(k, "ClientToServer"))

\* Once both hellos of a flow were seen its data changes nothing, however much
\* arrives; only its close does.
TlsDoneStep ==
    \A k \in DOMAIN tl.flows :
        TlsDone(tl.flows[k]) /\ tlWire'.sent[k] # tlWire.sent[k] /\ k \in DOMAIN tl'.flows
            => tl' = tl

TlsDoneForGood == [][TlsDoneStep]_tlVars

\* The figures of the summary outlive the flows they were counted in.
TlsTotalsStep == \A n \in DOMAIN TlsSummarize(tl) : TlsSummarize(tl)'[n] >= TlsSummarize(tl)[n]

TlsTotalsKept == [][TlsTotalsStep]_tlVars
=============================================================================
