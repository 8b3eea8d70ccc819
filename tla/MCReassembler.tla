--------------------------- MODULE MCReassembler ---------------------------
(***************************************************************************)
(* Small instances of the engine.  A payload byte is named after its       *)
(* sender, so that TLC can tell which endpoint the bytes of a direction    *)
(* came from.                                                              *)
(***************************************************************************)
EXTENDS Reassembler, TLC

CONSTANTS
    Client, Server,     \* the endpoints; every flow is between the two sets
    Seqs,               \* sequence numbers of data packets
    MaxLen,             \* longest payload
    LastTime            \* timestamps are 0 .. LastTime

MCEndpoint == Client \cup Server

MCTime == 0 .. LastTime

TcpPackets(pairs, flags, seqs, lens) ==
    {[src |-> e[1], dst |-> e[2], flags |-> f, seq |-> q, data |-> [i \in 1 .. n |-> e[1]]] :
        e \in pairs, f \in flags, q \in seqs, n \in lens}

\* The client opens, sends data in and out of order, and closes; the server
\* answers, sends a byte and resets.
MCPacket ==
    TcpPackets(Client \X Server, {{"syn"}}, {0}, {0})
      \cup TcpPackets(Server \X Client, {{"syn", "ack"}}, {0}, {0})
      \cup TcpPackets(Client \X Server, {{"ack"}}, Seqs, 1 .. MaxLen)
      \cup TcpPackets(Server \X Client, {{"ack"}}, {1}, {1})
      \cup TcpPackets(Client \X Server, {{"fin"}}, {2}, {0, 1})
      \cup TcpPackets(Server \X Client, {{"rst"}}, {2}, {0})

\* One opening and one data packet per client, for longer captures.
MCExpiryPacket ==
    TcpPackets(Client \X Server, {{"syn"}}, {0}, {0})
      \cup TcpPackets(Client \X Server, {{"ack"}}, {2}, {1})

ClientSymmetry == Permutations(Client)
=============================================================================
