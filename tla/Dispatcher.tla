----------------------------- MODULE Dispatcher -----------------------------
(***************************************************************************)
(* The content-first stream dispatcher of src/dispatcher.rs: it classifies *)
(* a flow by the first bytes of a chunk or by its ports, caches the route, *)
(* and forwards chunks and closes to the analyzer of the route.            *)
(*                                                                         *)
(* A chunk (the slice of one on_data call) is abstracted to what classify  *)
(* looks at: the kind of bytes it begins with and its length.  Of the      *)
(* analyzers behind the dispatcher only the set of flows they hold state   *)
(* for is kept: the first chunk forwarded creates it, the close drops it.  *)
(***************************************************************************)
EXTENDS Integers, Sequences, FiniteSets

CONSTANTS
    Key,            \* flow keys
    Ports,          \* the two ports of a key, as a set
    Enabled,        \* the targets whose analyzer is Some(_)
    MaxAttempts,    \* max_classification_attempts
    CoverageGaps,   \* coverage_gaps_enabled
    TlsHeaderLen,   \* bytes classify needs to see a TLS record header: 5
    ChunkLen,       \* the lengths of chunks
    MaxUnclassified \* bound of the model: flows that end unclassified

Target == {"Http", "Tls", "Modbus", "Dnp3", "Enip", "Iec104"}

ASSUME DispatcherConstants ==
    /\ Ports \in [Key -> (SUBSET Nat) \ {{}}]
    /\ Enabled \subseteq Target
    /\ MaxAttempts \in Nat
    /\ CoverageGaps \in BOOLEAN
    /\ TlsHeaderLen \in Nat
    /\ ChunkLen \subseteq Nat \ {0}
    /\ MaxUnclassified \in Nat

Opening == {"tls", "http", "other"}

Chunk == [head : Opening, len : ChunkLen]

VARIABLE disp

-----------------------------------------------------------------------------
(* classify                                                                *)

\* Rules 3 to 8, tried in this order after the content rules.
PortRules ==
    << <<{443, 8443}, "Tls">>, <<{80, 8080}, "Http">>, <<{502}, "Modbus">>,
       <<{20000}, "Dnp3">>, <<{44818}, "Enip">>, <<{2404}, "Iec104">> >>

PortTarget(k) ==
    LET hits == {i \in DOMAIN PortRules : PortRules[i][1] \cap Ports[k] # {}}
    IN  IF hits = {} THEN "None"
        ELSE PortRules[CHOOSE i \in hits : \A j \in hits : i <= j][2]

Classify(c, k) ==
    CASE c.head = "tls" /\ c.len >= TlsHeaderLen -> "Tls"
      [] c.head = "http" -> "Http"
      [] OTHER -> PortTarget(k)

-----------------------------------------------------------------------------
(* on_data and on_flow_close                                               *)

Without(f, k) == [l \in DOMAIN f \ {k} |-> f[l]]

With(f, k, v) == [l \in DOMAIN f \cup {k} |-> IF l = k THEN v ELSE f[l]]

\* analyzer.on_data, if the analyzer of the target is there
Forward(d, k, target) ==
    IF target \in Enabled THEN [d EXCEPT !.held[target] = @ \cup {k}] ELSE d

\* A flow that classify could not place: give up for good at the cap.
Unplaced(d, k) ==
    LET count == (IF k \in DOMAIN d.attempts THEN d.attempts[k] ELSE 0) + 1
    IN  IF count >= MaxAttempts
        THEN [d EXCEPT !.routes = With(@, k, "None"), !.attempts = Without(@, k)]
        ELSE [d EXCEPT !.attempts = With(@, k, count)]

\* Faulty variant: every chunk is classified anew.
OnDataUncached(d, k, c) ==
    IF Enabled = {} THEN d
    ELSE IF Classify(c, k) = "None" THEN Unplaced(d, k)
    ELSE Forward([d EXCEPT !.routes = With(@, k, Classify(c, k)),
                           !.attempts = Without(@, k)],
                 k, Classify(c, k))

\* Faulty variant: the attempts of a flow that is placed late are kept.
OnDataAttemptsKept(d, k, c) ==
    IF Enabled = {} THEN d
    ELSE IF k \in DOMAIN d.routes THEN Forward(d, k, d.routes[k])
    ELSE IF Classify(c, k) = "None" THEN Unplaced(d, k)
    ELSE Forward([d EXCEPT !.routes = With(@, k, Classify(c, k))], k, Classify(c, k))

OnData(d, k, c) ==
    IF Enabled = {} THEN d
    ELSE IF k \in DOMAIN d.routes THEN Forward(d, k, d.routes[k])
    ELSE IF Classify(c, k) = "None" THEN Unplaced(d, k)
    ELSE Forward([d EXCEPT !.routes = With(@, k, Classify(c, k)),
                           !.attempts = Without(@, k)],
                 k, Classify(c, k))

\* The port a coverage gap is counted under: the lower of the two numbers.
GapPort(k) == CHOOSE p \in Ports[k] : \A q \in Ports[k] : p <= q

\* Faulty variant: a second gap on the same port overwrites the first.
CountUnclassifiedOnce(d, k) ==
    IF Enabled = {} THEN d
    ELSE [d EXCEPT !.unclassified_flows = @ + 1,
                   !.port_counts = IF ~CoverageGaps THEN @ ELSE With(@, GapPort(k), 1)]

\* A flow that ends without an analyzer.
CountUnclassified(d, k) ==
    IF Enabled = {} THEN d
    ELSE [d EXCEPT !.unclassified_flows = @ + 1,
                   !.port_counts =
                       IF ~CoverageGaps THEN @
                       ELSE With(@, GapPort(k),
                                 (IF GapPort(k) \in DOMAIN @ THEN @[GapPort(k)] ELSE 0) + 1)]

\* Faulty variant: the retry counter survives the flow.
OnFlowCloseAttemptsKept(d, k) ==
    LET target == IF k \in DOMAIN d.routes THEN d.routes[k] ELSE "None"
        freed  == [d EXCEPT !.routes = Without(@, k)]
    IN  IF target = "None" THEN CountUnclassified(freed, k)
        ELSE IF target \in Enabled THEN [freed EXCEPT !.held[target] = @ \ {k}]
        ELSE freed

\* Faulty variant: the close is not passed on to the analyzer.
OnFlowCloseNotForwarded(d, k) ==
    LET target == IF k \in DOMAIN d.routes THEN d.routes[k] ELSE "None"
        freed  == [d EXCEPT !.routes = Without(@, k), !.attempts = Without(@, k)]
    IN  IF target = "None" THEN CountUnclassified(freed, k) ELSE freed

OnFlowClose(d, k) ==
    LET target == IF k \in DOMAIN d.routes THEN d.routes[k] ELSE "None"
        freed  == [d EXCEPT !.routes = Without(@, k), !.attempts = Without(@, k)]
    IN  IF target = "None" THEN CountUnclassified(freed, k)
        ELSE IF target \in Enabled THEN [freed EXCEPT !.held[target] = @ \ {k}]
        ELSE freed

NewDispatcher ==
    [ routes |-> [k \in {} |-> "None"],
      attempts |-> [k \in {} |-> 0],
      unclassified_flows |-> 0,
      port_counts |-> [p \in {} |-> 0],
      held |-> [t \in Target |-> {}] ]

Init == disp = NewDispatcher

ReceiveData(k, c) == disp' = OnData(disp, k, c)

ReceiveClose(k) ==
    /\ disp.unclassified_flows < MaxUnclassified
    /\ disp' = OnFlowClose(disp, k)

Next ==
    \E k \in Key : ReceiveClose(k) \/ \E c \in Chunk : ReceiveData(k, c)

Spec == Init /\ [][Next]_disp

-----------------------------------------------------------------------------
\* The types of the dispatcher's maps.  A retry counter that is still there is
\* below max_classification_attempts: the cap of LESSON-P2.11 is exact.  A flow is
\* either placed (or stamped None) or still being tried, never both: classifying a
\* flow late gives its retry counter back.
TypeOK ==
    /\ DOMAIN disp.routes \subseteq Key
    /\ \A k \in DOMAIN disp.routes : disp.routes[k] \in Target \cup {"None"}
    /\ DOMAIN disp.attempts \subseteq Key
    /\ \A k \in DOMAIN disp.attempts : disp.attempts[k] \in 1 .. (MaxAttempts - 1)
    /\ disp.unclassified_flows \in Nat
    /\ DOMAIN disp.port_counts \subseteq UNION {Ports[k] : k \in Key}
    /\ disp.held \in [Target -> SUBSET Key]
    /\ DOMAIN disp.routes \cap DOMAIN disp.attempts = {}

\* An analyzer holds state for exactly the flows routed to it: no flow is fed to
\* two analyzers, and no analyzer keeps a flow whose route is gone.
HeldFollowsRoutes ==
    \A t \in Target :
        disp.held[t] = {k \in DOMAIN disp.routes : t \in Enabled /\ disp.routes[k] = t}

\* With coverage gaps on, the counts per port add up to unclassified_flows.
GapsAddUp ==
    CoverageGaps =>
        disp.unclassified_flows =
            Cardinality(UNION {{p} \X (1 .. disp.port_counts[p]) : p \in DOMAIN disp.port_counts})

\* "Routing is irrevocable per flow": a route is dropped by the close of the
\* flow, never changed, not even from None.
RouteKept ==
    \A k \in DOMAIN disp.routes :
        k \in DOMAIN disp'.routes => disp'.routes[k] = disp.routes[k]

RouteIrrevocable == [][RouteKept]_disp
=============================================================================
