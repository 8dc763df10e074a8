----------------------------- MODULE TcpClient -----------------------------
(***************************************************************************)
(* WOscTcpClient: connects to a server, sends and closes, from the main    *)
(* thread and, in OSC methods, from its reception thread.  The stream to   *)
(* the server is that of TcpStream.                                        *)
(***************************************************************************)
EXTENDS TcpStream

CONSTANTS
    Sockets,          \* the descriptors the process can have
    MaxConnections    \* bound on the calls of Connect

ClientAssumption ==
    MaxConnections \in Nat /\ Senders = IF Threading THEN {"main", "reception"} ELSE {"main"}

NoSocket == -1

VARIABLES
    socketID,         \* m_socketID
    openSockets,      \* the descriptors that are open
    thread,           \* the reception thread: m_receptionThreadID is zero, or it runs, or has ended
    returned,         \* the last call of Connect or Close by the main thread, and what it returned
    connections

clientVars == <<socketID, openSockets, thread, returned, connections>>
vars == <<streamVars, clientVars>>

Init ==
    /\ StreamInit
    /\ socketID = NoSocket /\ openSockets = {} /\ thread = "none"
    /\ returned = [call |-> "none", error |-> "NO_ERROR"] /\ connections = 0

HasThread == thread # "none"

Returns(call, error) == returned' = [call |-> call, error |-> error]

\* Connect that returns before it has a socket, or whose socket is closed again: connect failed, or
\* Start could not make the thread or set the socket non blocking.
ConnectFails ==
    /\ pc["main"] = "idle" /\ connections < MaxConnections
    /\ \/ HasThread /\ Returns("Connect", "ALREADY_RUNNING")
       \/ ~HasThread /\ socketID # NoSocket /\ Returns("Connect", "ALREADY_CONNECTED")
       \/ ~HasThread /\ socketID = NoSocket /\ openSockets = Sockets /\ Returns("Connect", "SOCKET_CREATE")
       \/ /\ ~HasThread /\ socketID = NoSocket /\ openSockets # Sockets
          /\ \E error \in {"SOCKET_CONNECT", "START"} : Returns("Connect", error)
    /\ connections' = connections + 1
    /\ UNCHANGED <<streamVars, socketID, openSockets, thread>>

MayConnect == ~HasThread /\ socketID = NoSocket

Connect ==
    /\ pc["main"] = "idle" /\ connections < MaxConnections
    /\ MayConnect
    /\ \E s \in Sockets \ openSockets : socketID' = s /\ openSockets' = openSockets \cup {s}
    /\ thread' = IF Threading THEN "running" ELSE "none"
    /\ Returns("Connect", "NO_ERROR")
    /\ connections' = connections + 1
    /\ connected' = TRUE /\ NewStream
    /\ UNCHANGED sendVars

\* Stop forgets the socket, so that close is called with -1.
Close ==
    /\ pc["main"] = "idle" /\ returned.call # "Close"
    /\ \/ /\ Threading /\ HasThread
          /\ Returns("Close", "ALREADY_CLOSED")
          /\ UNCHANGED <<streamVars, socketID>>
       \/ /\ ~(Threading /\ HasThread) /\ socketID = NoSocket
          /\ Returns("Close", "DISCONNECTED")
          /\ UNCHANGED <<streamVars, socketID>>
       \/ /\ ~(Threading /\ HasThread) /\ socketID # NoSocket
          /\ Returns("Close", "NO_ERROR")
          /\ socketID' = NoSocket /\ connected' = FALSE
          /\ UNCHANGED <<broken, sendVars, wire, receiveVars, accepted, delivered>>
    /\ UNCHANGED <<openSockets, thread, connections>>

\* recv fails and ReceiveThread returns, between two calls of OSC methods; its id is kept.
ThreadEnds ==
    /\ thread = "running" /\ broken /\ pc["reception"] = "idle"
    /\ thread' = "ended"
    /\ UNCHANGED <<streamVars, socketID, openSockets, returned, connections>>

SendStep(t) == SendBytes(t) \/ SendFails(t)

Stream ==
    /\ \/ \E t \in Senders : /\ CallSend(t) /\ (t = "reception" => thread = "running")
       \/ \E t \in Senders : Lock(t) \/ SendStep(t)
       \/ Break \/ ReceiveBytes \/ ReceiveEnds
    /\ UNCHANGED clientVars

Next == ConnectFails \/ Connect \/ Close \/ ThreadEnds \/ Stream

\* Threads run, the mutex is given to a thread that waits, and the network moves bytes that it took.
LockStep(t) == Lock(t) /\ UNCHANGED clientVars
SendingStep(t) == SendStep(t) /\ UNCHANGED clientVars
ReceivingStep == ReceiveBytes /\ UNCHANGED clientVars
Fairness ==
    /\ \A t \in Senders : WF_vars(LockStep(t)) /\ WF_vars(SendingStep(t))
    /\ WF_vars(ReceivingStep)

Spec == Init /\ [][Next]_vars /\ Fairness

-----------------------------------------------------------------------------

\* However the bytes are cut up and whichever threads send (NetworkSend holds m_mutexTx over length
\* and data), what the receiver has got is the start of what was sent, packet by packet.
WholePackets == IsPrefix(delivered, accepted)

\* The two handlers implement a channel of packets.
Channel == INSTANCE PacketChannel WITH
    Packet <- Payloads,
    queue <- SubSeq(accepted, Len(delivered) + 1, Len(accepted)),
    delivered <- delivered,
    open <- connected /\ ~broken

IsChannel == Channel!ChannelSpec

\* "Socket connection lost." (WOscTcpHandler.h:76-77) is returned when the connection is lost.
LostMeansLost == \A t \in Senders : result[t] = "CONNECTION_LOST" => broken

\* "Close the receiving socket and shutdown the receiving thread if in threading mode."
\* (WOscTcpClient.cpp:70-72).
CloseCloses == returned.call = "Close" => openSockets = {} /\ ~HasThread
=============================================================================
