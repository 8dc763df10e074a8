----------------------------- MODULE TcpStream -----------------------------
(***************************************************************************)
(* One direction of a TCP connection between two WOscTcpHandlers: packets  *)
(* framed by their length (NetworkSend, wosc_send_over_socket) on one side, *)
(* put together again (NetworkReceiveInternal) on the other.  Between them *)
(* a stream of bytes that takes and gives any number at a time.            *)
(***************************************************************************)
EXTENDS Integers, Sequences, SequencesExt

CONSTANTS
    Senders,          \* the threads that send: the main thread, and the reception thread in OSC methods
    Payloads,         \* the packets that are sent, as sequences of bytes
    WireSize,         \* how many bytes the sockets' buffers hold
    MaxPackets,       \* bound on the packets sent over a connection
    Threading         \* m_threading of the sending side: if not, the socket is non blocking

\* The length is sent as two digits, most significant first (four of 256 in the code).
LengthSize == 2
Base == 4

StreamAssumption ==
    /\ WireSize \in Nat \ {0} /\ MaxPackets \in Nat /\ Threading \in BOOLEAN
    /\ \A p \in Payloads : p \in Seq(0 .. Base - 1) /\ Len(p) \in 1 .. Base * Base - 1

NoThread == "none"

VARIABLES
    connected,        \* m_socketID >= 0 on the sending side
    broken,           \* the connection is lost
    mutexTx,          \* the thread that holds m_mutexTx
    pc, packet, nSent,     \* of every sender: where it is in NetworkSend, with what
    result,                \* and what it last returned
    wire,             \* the bytes under way
    isRxPacketLen, received, packetLen,    \* m_selectState of the receiving side
    receiving,        \* its ReceiveThread runs
    accepted, delivered    \* history: the packets whose sending began, those passed to the receiver

sendVars == <<mutexTx, pc, packet, nSent, result>>
receiveVars == <<isRxPacketLen, received, packetLen, receiving>>
streamVars == <<connected, broken, sendVars, wire, receiveVars, accepted, delivered>>

NetworkOrder(length) == <<length \div Base, length % Base>>
FromNetworkOrder(digits) == digits[1] * Base + digits[2]

\* The stream of a new connection.
NewStream ==
    /\ broken' = FALSE /\ wire' = <<>>
    /\ isRxPacketLen' = TRUE /\ received' = <<>> /\ packetLen' = 0 /\ receiving' = TRUE
    /\ accepted' = <<>> /\ delivered' = <<>>

StreamInit ==
    /\ connected = FALSE /\ broken = FALSE /\ wire = <<>>
    /\ mutexTx = NoThread
    /\ pc = [t \in Senders |-> "idle"] /\ packet = [t \in Senders |-> <<>>]
    /\ nSent = [t \in Senders |-> 0] /\ result = [t \in Senders |-> "NO_ERROR"]
    /\ isRxPacketLen = TRUE /\ received = <<>> /\ packetLen = 0 /\ receiving = FALSE
    /\ accepted = <<>> /\ delivered = <<>>

-----------------------------------------------------------------------------
CallSend(t) ==
    /\ pc[t] = "idle" /\ Len(accepted) < MaxPackets
    /\ \E p \in Payloads : packet' = [packet EXCEPT ![t] = p]
    /\ pc' = [pc EXCEPT ![t] = "lock"]
    /\ UNCHANGED <<connected, broken, mutexTx, nSent, result, wire, receiveVars, accepted, delivered>>

NoWait == TRUE

\* NetworkSend waits for the mutex.
MutexIsFree == mutexTx = NoThread

Return(t, error) ==
    /\ mutexTx' = NoThread
    /\ pc' = [pc EXCEPT ![t] = "idle"]
    /\ result' = [result EXCEPT ![t] = error]

Lock(t) ==
    /\ pc[t] = "lock" /\ MutexIsFree
    /\ \/ /\ ~connected
          /\ Return(t, "NO_SOCKET")
          /\ UNCHANGED <<nSent, accepted>>
       \/ /\ connected
          /\ mutexTx' = t
          /\ pc' = [pc EXCEPT ![t] = "length"]
          /\ nSent' = [nSent EXCEPT ![t] = 0]
          /\ accepted' = IF broken THEN accepted ELSE Append(accepted, packet[t])
          /\ UNCHANGED result
    /\ UNCHANGED <<connected, broken, packet, wire, receiveVars, delivered>>

\* What is being sent: first the length, then the data.
Buffer(t) == IF pc[t] = "length" THEN NetworkOrder(Len(packet[t])) ELSE packet[t]

\* One send of the loop in wosc_send_over_socket takes n bytes; after the last of them comes the
\* data, or NetworkSend returns.
SendBytes(t) ==
    /\ pc[t] \in {"length", "data"} /\ ~broken
    /\ \E n \in 1 .. WireSize :
        /\ n <= Len(Buffer(t)) - nSent[t] /\ n <= WireSize - Len(wire)
        /\ wire' = wire \o SubSeq(Buffer(t), nSent[t] + 1, nSent[t] + n)
        /\ IF nSent[t] + n < Len(Buffer(t))
           THEN nSent' = [nSent EXCEPT ![t] = @ + n] /\ UNCHANGED <<mutexTx, pc, result>>
           ELSE /\ nSent' = [nSent EXCEPT ![t] = 0]
                /\ \/ pc[t] = "length" /\ pc' = [pc EXCEPT ![t] = "data"] /\ UNCHANGED <<mutexTx, result>>
                   \/ pc[t] = "data" /\ Return(t, "NO_ERROR")
    /\ UNCHANGED <<connected, broken, packet, receiveVars, accepted, delivered>>

\* send returns -1: the connection is lost, or a non blocking socket takes nothing now.
SendFails(t) ==
    /\ pc[t] \in {"length", "data"}
    /\ broken \/ (~Threading /\ Len(wire) = WireSize)
    /\ Return(t, "CONNECTION_LOST")
    /\ UNCHANGED <<connected, broken, packet, nSent, wire, receiveVars, accepted, delivered>>

\* The network fails, or the peer goes away; what was under way arrives in part.
Break ==
    /\ connected /\ ~broken /\ broken' = TRUE
    /\ \E n \in 0 .. Len(wire) : wire' = SubSeq(wire, 1, n)
    /\ UNCHANGED <<connected, sendVars, receiveVars, accepted, delivered>>

-----------------------------------------------------------------------------
NothingReceived(bytes) == <<>>

\* What rxBuf has room for.
BufferSize == IF isRxPacketLen THEN LengthSize ELSE packetLen
RxCount == BufferSize - Len(received)

\* recv gives n bytes of what is missing.
ReceiveBytes ==
    /\ receiving
    /\ \E n \in 1 .. WireSize :
        /\ n <= RxCount /\ n <= Len(wire)
        /\ wire' = SubSeq(wire, n + 1, Len(wire))
        /\ LET bytes == received \o SubSeq(wire, 1, n)
           IN \/ /\ isRxPacketLen /\ Len(bytes) = LengthSize
                 /\ packetLen' = FromNetworkOrder(bytes)
                 /\ isRxPacketLen' = FALSE
                 /\ received' = NothingReceived(bytes)
                 /\ UNCHANGED delivered
              \/ /\ ~isRxPacketLen /\ Len(bytes) = packetLen
                 /\ isRxPacketLen' = TRUE
                 /\ delivered' = Append(delivered, bytes)
                 /\ received' = <<>>
                 /\ UNCHANGED packetLen
              \/ /\ Len(bytes) # BufferSize
                 /\ received' = bytes
                 /\ UNCHANGED <<isRxPacketLen, packetLen, delivered>>
    /\ UNCHANGED <<connected, broken, sendVars, receiving, accepted>>

\* recv returns 0 or -1: no more bytes will come, or none are asked for.
ReceiveEnds ==
    /\ receiving
    /\ RxCount = 0 \/ (broken /\ wire = <<>>)
    /\ receiving' = FALSE
    /\ UNCHANGED <<connected, broken, sendVars, wire, isRxPacketLen, received, packetLen,
                   accepted, delivered>>
=============================================================================
