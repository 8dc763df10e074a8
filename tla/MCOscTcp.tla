------------------------------ MODULE MCOscTcp ------------------------------
(***************************************************************************)
(* The two ends of the TCP transport, which share nothing but the network: *)
(* every behaviour is one of the server or one of a client, and the other  *)
(* end stays in its initial state.                                         *)
(***************************************************************************)
EXTENDS TcpServer, Integers

CONSTANTS
    Payloads, WireSize, MaxPackets,         \* of TcpStream
    LargeWireSize,                          \* buffers that hold all that is sent
    Sockets, MaxConnections,                \* of TcpClient
    Ends        \* the ends that are modelled: "server", "threaded client", "polling client"

VARIABLES
    end,
    connected, broken, mutexTx, pc, packet, nSent, result, wire,
    isRxPacketLen, received, packetLen, receiving, accepted, delivered,
    socketID, openSockets, receptionThread, returned, connections

clientState == <<connected, broken, mutexTx, pc, packet, nSent, result, wire,
                 isRxPacketLen, received, packetLen, receiving, accepted, delivered,
                 socketID, openSockets, receptionThread, returned, connections>>

Threaded == INSTANCE TcpClient WITH
    Senders <- {"main", "reception"}, Threading <- TRUE, thread <- receptionThread

\* Without a thread of its own the socket does not block, and a send fails when the buffer is full.
Polling == INSTANCE TcpClient WITH
    Senders <- {"main"}, Threading <- FALSE, WireSize <- LargeWireSize, thread <- receptionThread

ASSUME ClientAssumptions ==
    /\ Threaded!StreamAssumption /\ Threaded!ClientAssumption
    /\ Polling!StreamAssumption /\ Polling!ClientAssumption

\* A byte of a packet may look like the start of a length.
ShortPackets == {<<1>>, <<0, 2, 1>>}

MCInit ==
    /\ end \in Ends /\ Init
    /\ IF end = "polling client" THEN Polling!Init ELSE Threaded!Init
MCNext ==
    \/ end = "server" /\ Next /\ UNCHANGED <<end, clientState>>
    \/ end = "threaded client" /\ Threaded!Next /\ UNCHANGED <<end, vars>>
    \/ end = "polling client" /\ Polling!Next /\ UNCHANGED <<end, vars>>

\* The fairness of TcpServer, and of the threaded client that of TcpClient.
MCFairness ==
    /\ Fairness
    /\ \A t \in {"main", "reception"} :
          /\ WF_clientState(end = "threaded client" /\ Threaded!LockStep(t))
          /\ WF_clientState(end = "threaded client" /\ Threaded!SendingStep(t))
    /\ WF_clientState(end = "threaded client" /\ Threaded!ReceivingStep)

MCSpec == MCInit /\ [][MCNext]_<<end, vars, clientState>> /\ MCFairness

-----------------------------------------------------------------------------
\* Each client and the server it sends to implement a channel of packets, however the bytes are cut
\* up, whichever threads send and wherever the connection breaks (NetworkSend holds m_mutexTx over
\* length and data, WOscTcpHandler.cpp:111).
IsChannel == Threaded!IsChannel

\* Stop of the server returns (StopReturns), and a packet whose sending began arrives unless the
\* connection is lost or closed.
NothingHangs ==
    /\ StopReturns
    /\ \A n \in 1 .. MaxPackets :
          (end = "threaded client" /\ Len(accepted) >= n) ~> (Len(delivered) >= n \/ broken \/ ~connected)
=============================================================================
