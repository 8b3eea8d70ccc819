----------------------------- MODULE MCPipeline -----------------------------
(* Two clients of one server; the first connects to a Modbus port, the     *)
(* second to an unknown one.                                               *)
EXTENDS Pipeline

CONSTANTS c1, c2, srv, LastTime

MCEndpoint == {c1, c2, srv}

MCTime == 0 .. LastTime

MCPorts == [k \in Key |-> IF k = {c1, srv} THEN {502, 50000} ELSE {7, 50001}]

Payloads == {<<"tls">>, <<"tls", "tls">>, <<"other">>}

MCPacket ==
    [src : {c1, c2}, dst : {srv}, flags : {{"syn"}}, seq : {0}, data : {<<>>}]
      \cup [src : {c1, c2}, dst : {srv}, flags : {{"ack"}}, seq : {1, 2}, data : Payloads]
      \cup [src : {srv}, dst : {c1, c2}, flags : {{"fin"}}, seq : {1}, data : {<<>>, <<"http">>}]
      \cup [src : {srv}, dst : {c1, c2}, flags : {{"rst"}}, seq : {1}, data : {<<>>}]
=============================================================================
