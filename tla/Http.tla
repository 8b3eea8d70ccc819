-------------------------------- MODULE Http --------------------------------
(***************************************************************************)
(* The HTTP analyzer of src/analyzer/http.rs: the capped buffers of the    *)
(* two directions, the parse loops over them, the errors that poison a     *)
(* direction, and the capped tables of what was seen.                      *)
(*                                                                         *)
(* A message is a header block, or a piece of body, with the fields err    *)
(* ("none", "malformed" or "too many": what httparse says of it) and errAt *)
(* (the byte at which it says so).  A request has method, host, agent      *)
(* ("none" if absent, "" if empty), version and uri (the patterns it       *)
(* matches), a response has status.                                        *)
(***************************************************************************)
EXTENDS StreamAnalysis

CONSTANTS
    HttpKey,            \* flow keys
    HttpCapture,        \* captures: the messages that occur
    MAX_HEADER_BUF,     \* 65536
    MAX_URIS,           \* 10000
    POISON_THRESHOLD,   \* 3
    MaxHttpEvents       \* bound of the model: messages and closes

VARIABLES
    ht,         \* the analyzer
    htWire,     \* the capture, and what has been sent of unfinished messages
    htSeen      \* history: messages completed per direction, flows closed

htVars == <<ht, htWire, htSeen>>

-----------------------------------------------------------------------------
(* httparse, as parse_one_request and parse_one_response use it            *)

\* how many bytes at the head of c are those of one message, from its first on
HeadLen(c) ==
    LET own == {n \in 0 .. Len(c) : \A i \in 1 .. n : c[i] = <<c[1][1], i>>}
    IN  CHOOSE n \in own : \A m \in own : m <= n

\* Bytes out of their place are malformed.
Parse(c) ==
    LET f == c[1][1]
        n == HeadLen(c)
    IN  IF f.err # "none" /\ n >= f.errAt THEN f.err
        ELSE IF n = f.len THEN "complete"
        ELSE IF n = Len(c) THEN "partial"
        ELSE "malformed"

-----------------------------------------------------------------------------
(* What a message adds to the tables                                       *)

CountOptional(a, table, key) == IF key = "none" THEN a ELSE CountKey(a, table, key)

\* check_request_detections; its findings are not capped
RequestFindings(f) ==
    When("traversal" \in f.uri, "path traversal")
    \o When("shell" \in f.uri, "web shell")
    \o When("admin" \in f.uri, "admin panel")
    \o When(f.method \in {"CONNECT", "TRACE", "DELETE", "OPTIONS"}, "unusual method")
    \o When(f.version = 1 /\ f.host \in {"none", ""}, "no host")
    \o When("long" \in f.uri, "long URI")
    \o When(f.agent = "", "empty user agent")

TakeRequest(a, f) ==
    LET counted == CountOptional(CountOptional(CountKey(a, "methods", f.method),
                                               "hosts", f.host), "user_agents", f.agent)
    IN  [counted EXCEPT !.uris = IF Len(@) < MAX_URIS THEN Append(@, f.uri) ELSE @,
                        !.all_findings = @ \o RequestFindings(f)]

TakeResponse(a, f) ==
    [a EXCEPT !.status_codes = With(@, f.status, Get(@, f.status, 0) + 1),
              !.transactions = @ + 1]

-----------------------------------------------------------------------------
(* The parse loop.  s holds the analyzer and the flow.                     *)

NewHttpFlow ==
    [ buf |-> NoBytes, poisoned |-> [d \in Direction |-> FALSE],
      error_count |-> [d \in Direction |-> 0], counted_as_non_http |-> FALSE ]

Poison(s, d) ==
    IF s.fl.error_count[d] < POISON_THRESHOLD THEN s
    ELSE [s EXCEPT !.fl.poisoned[d] = TRUE, !.fl.counted_as_non_http = TRUE,
                   !.an.non_http_flows = @ + (IF s.fl.counted_as_non_http THEN 0 ELSE 1)]

\* An error after a message of the same call is taken for its body.
ParseError(s, d, err) ==
    LET counted == Poison([s EXCEPT !.an.parse_errors = @ + 1, !.fl.error_count[d] = @ + 1], d)
    IN  IF s.had_success THEN s
        ELSE [counted EXCEPT !.an.all_findings = @ \o When(err = "too many", "too many headers")]

Take(s, d, f) ==
    [s EXCEPT !.an = IF d = "ClientToServer" THEN TakeRequest(@, f) ELSE TakeResponse(@, f),
              !.had_success = TRUE, !.fl.buf[d] = Rest(@, f.len), !.fl.error_count[d] = 0]

TryParse(s, d) ==
    LET c      == s.fl.buf[d]
        result == Parse(c)
    IN  CASE c = <<>> -> Stop(s)
          [] c # <<>> /\ result = "partial" -> Stop(s)
          [] c # <<>> /\ result = "complete" -> Take(s, d, c[1][1])
          [] OTHER -> Stop([ParseError(s, d, result) EXCEPT !.fl.buf[d] = <<>>])

-----------------------------------------------------------------------------
(* on_data and on_flow_close                                               *)

\* Faulty variant: a full buffer starts anew.
FillRestarting(buf, data) ==
    IF Len(buf) = MAX_HEADER_BUF THEN First(data, MAX_HEADER_BUF)
    ELSE First(buf \o data, MAX_HEADER_BUF)

\* What does not fit is lost.
Fill(buf, data) == First(buf \o data, MAX_HEADER_BUF)

HttpOnData(a, k, d, data) ==
    LET fl    == Get(a.flows, k, NewHttpFlow)
        start == [ an |-> a, fl |-> [fl EXCEPT !.buf[d] = Fill(@, data)],
                   had_success |-> FALSE, done |-> FALSE ]
        end   == Loop(LAMBDA s : TryParse(s, d), LAMBDA s : s.done, start, MAX_HEADER_BUF + 1)
    IN  IF fl.poisoned[d] THEN [a EXCEPT !.poisoned_bytes_skipped = @ + Len(data)]
        ELSE [end.an EXCEPT !.flows = With(@, k, end.fl)]

HttpOnFlowClose(a, k) == [a EXCEPT !.flows = Without(@, k)]

NewHttp ==
    [ flows |-> Empty, methods |-> Empty, status_codes |-> Empty, hosts |-> Empty,
      user_agents |-> Empty, uris |-> <<>>, transactions |-> 0, all_findings |-> <<>>,
      parse_errors |-> 0, non_http_flows |-> 0, poisoned_bytes_skipped |-> 0,
      dropped_map_entries |-> 0 ]

-----------------------------------------------------------------------------
(* Behaviour                                                               *)

HttpInit ==
    /\ ht = NewHttp
    /\ htWire \in Wires(HttpCapture, HttpKey)
    /\ htSeen = [whole |-> [d \in Direction |-> 0], closed |-> 0]

HttpData(k, d) ==
    /\ SumOver(htSeen.whole, LAMBDA n : n) + htSeen.closed < MaxHttpEvents
    /\ \E c \in Chunks(htWire.sent[k][d], htWire.frames[d]) :
          /\ ht' = HttpOnData(ht, k, d, c.data)
          /\ htWire' = Sent(htWire, k, d, c.partial)
          /\ htSeen' = [htSeen EXCEPT !.whole[d] = @ + Len(c.whole)]

HttpClose(k) ==
    /\ k \in DOMAIN ht.flows
    /\ ht' = HttpOnFlowClose(ht, k)
    /\ htWire' = Cut(htWire, k)
    /\ htSeen' = [htSeen EXCEPT !.closed = @ + 1]

HttpNext == \E k \in HttpKey : HttpClose(k) \/ \E d \in Direction : HttpData(k, d)

HttpSpec == HttpInit /\ [][HttpNext]_htVars

-----------------------------------------------------------------------------
\* Buffers and tables keep to their caps, and a table that dropped a key is full.
HttpTypeOK ==
    /\ Len(ht.uris) <= MAX_URIS
    /\ \A table \in {"methods", "hosts", "user_agents"} :
          Cardinality(DOMAIN ht[table]) <= MAX_MAP_ENTRIES
    /\ ht.dropped_map_entries > 0 =>
          \E table \in {"methods", "hosts", "user_agents"} :
              Cardinality(DOMAIN ht[table]) = MAX_MAP_ENTRIES
    /\ \A k \in DOMAIN ht.flows, d \in Direction : Len(ht.flows[k].buf[d]) <= MAX_HEADER_BUF

\* A direction is poisoned exactly when its errors in a row reach the threshold,
\* and then holds no bytes; the flow is marked as not HTTP exactly if one of its
\* directions is poisoned, and counted once although both can be.
HttpPoisonExact ==
    /\ \A k \in DOMAIN ht.flows :
          LET fl == ht.flows[k]
          IN  /\ \A d \in Direction :
                    /\ fl.poisoned[d] = (fl.error_count[d] >= POISON_THRESHOLD)
                    /\ fl.poisoned[d] => fl.buf[d] = <<>>
              /\ fl.counted_as_non_http = \E d \in Direction : fl.poisoned[d]
    /\ LET open == Cardinality({k \in DOMAIN ht.flows : ht.flows[k].counted_as_non_http})
       IN  ht.non_http_flows \in open .. open + htSeen.closed

\* When all messages are well formed and fit the buffer, each one that was sent
\* whole is counted once, however the stream is cut.
HttpCuttingIrrelevant ==
    LET honest == \A d \in Direction : \A f \in htWire.frames[d] :
                      f.err = "none" /\ 2 * f.len <= MAX_HEADER_BUF
        requests == htSeen.whole["ClientToServer"]
    IN  honest => /\ ht.transactions = htSeen.whole["ServerToClient"]
                  /\ Len(ht.uris) = IF requests < MAX_URIS THEN requests ELSE MAX_URIS
                  /\ ht.parse_errors = 0

\* A full buffer after a call holds an unfinished header block and is never
\* emptied: until the flow closes every further byte of the direction is lost,
\* and none of it is an error or counted as skipped.
HttpFullStep ==
    \A k \in DOMAIN ht.flows \cap DOMAIN ht'.flows, d \in Direction :
        Len(ht.flows[k].buf[d]) = MAX_HEADER_BUF
            => ht'.flows[k].buf[d] = ht.flows[k].buf[d] /\ ~ht'.flows[k].poisoned[d]

HttpFullForGood == [][HttpFullStep]_htVars
=============================================================================
