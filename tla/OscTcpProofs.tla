--------------------------- MODULE OscTcpProofs ----------------------------
(***************************************************************************)
(* Who deletes a handler of the TCP server, for any number of connections, *)
(* and, in the second half, that a client's packets arrive whole and in    *)
(* order, whatever the packets and however small the buffers.              *)
(*                                                                         *)
(* The server.                                                             *)
(* The argument: a live handler is with the accepting thread, in the       *)
(* vector, in the application's copy of it or on its way to delete itself, *)
(* and a step moves it from one of these places to another.  The places    *)
(* exclude each other because a handler is registered once, and because    *)
(* the vector is copied only when no older copy is left.  How far Stop has *)
(* come decides what can still be registered.                              *)
(***************************************************************************)
EXTENDS MCOscTcp, FiniteSetTheorems, SequenceTheorems, TLAPS

AcceptorInv ==
    /\ incoming # Nobody <=> acceptor \in {"setup", "register"}
    /\ acceptor = "setup" => thread[incoming] = "none"
    /\ acceptor = "register" => object[incoming] = "live"

HandlerInv ==
    \A c \in Connections :
        /\ object[c] = "none" <=> thread[c] = "none"
        /\ thread[c] \in {"receive", "unregister", "cleanup"} => object[c] = "live"

VectorInv ==
    \A i \in 1 .. size :
        /\ storage[i] \in Connections
        /\ object[storage[i]] = "live" /\ storage[i] # incoming
        /\ \A j \in 1 .. size : storage[i] = storage[j] => i = j

ClientsInv ==
    \A i \in 1 .. Len(openClients) :
        /\ object[openClients[i]] = "live" /\ openClients[i] # incoming
        /\ \A j \in 1 .. Len(openClients) : openClients[i] = openClients[j] => i = j
        /\ \A j \in 1 .. size : storage[j] # openClients[i]

CleanupInv ==
    undefined = "no" =>
        \A c \in Connections :
            thread[c] = "cleanup" =>
                /\ c # incoming
                /\ \A i \in 1 .. size : storage[i] # c
                /\ \A i \in 1 .. Len(openClients) : openClients[i] # c

OwnedInv ==
    \A c \in Connections :
        object[c] = "live" =>
            \/ incoming = c
            \/ \E i \in 1 .. size : storage[i] = c
            \/ \E i \in 1 .. Len(openClients) : openClients[i] = c
            \/ thread[c] = "cleanup"

\* How far Stop has come.
StopInv ==
    /\ ~bound => acceptor = "none" /\ stopper = "idle" /\ size = 0
    /\ stopper \in {"collect", "stop clients", "join client"} => acceptor = "none"
    /\ stopper \in {"stop clients", "join client"} => size = 0
    /\ stopper \in {"idle", "join server", "collect"} => openClients = <<>>
    /\ stopper = "join client" => openClients # <<>>

ServerInv ==
    TypeOK /\ AcceptorInv /\ HandlerInv /\ VectorInv /\ ClientsInv /\ CleanupInv /\ OwnedInv /\ StopInv

-----------------------------------------------------------------------------
(***************************************************************************)
(* The array of the vector                                                 *)
(***************************************************************************)
\* push_back keeps the elements in use and adds one, in a longer array if it must.
LEMMA PushedKeeps ==
    ASSUME NEW S, Nobody \in S, NEW array \in Seq(S), NEW n \in 0 .. Len(array), NEW handler \in S
    PROVE  /\ Pushed(array, n, handler) \in Seq(S)
           /\ n + 1 \in 0 .. Len(Pushed(array, n, handler))
           /\ Pushed(array, n, handler)[n + 1] = handler
           /\ \A i \in 1 .. n : Pushed(array, n, handler)[i] = array[i]
<1>1. CASE n < Len(array)
  BY <1>1 DEF Pushed
<1>2. CASE ~(n < Len(array))
  <2> DEFINE rest == [i \in 1 .. (IF n = 0 THEN 0 ELSE n - 1) |-> Nobody]
             longer == array \o <<handler>>
  <2>1. n = Len(array) /\ n \in Nat
    BY <1>2
  <2>2. /\ longer \in Seq(S) /\ Len(longer) = n + 1 /\ longer[n + 1] = handler
        /\ \A i \in 1 .. n : longer[i] = array[i]
    BY <2>1
  <2>3. rest \in Seq(S)
    BY <2>1
  <2> HIDE DEF rest, longer
  <2>4. /\ longer \o rest \in Seq(S) /\ n + 1 \in 0 .. Len(longer \o rest)
        /\ \A i \in 1 .. n + 1 : (longer \o rest)[i] = longer[i]
    BY <2>1, <2>2, <2>3
  <2>5. Pushed(array, n, handler) = longer \o rest
    BY <1>2 DEF Pushed, longer, rest
  <2> QED
    BY <2>1, <2>2, <2>4, <2>5
<1> QED
  BY <1>1, <1>2

\* erase moves the elements behind the i-th one place to the front.
LEMMA ErasedMoves ==
    ASSUME NEW S, NEW array \in Seq(S), NEW n \in 0 .. Len(array), NEW i \in 1 .. n
    PROVE  /\ Erased(array, n, i) \in Seq(S) /\ n - 1 \in 0 .. Len(Erased(array, n, i))
           /\ \A k \in 1 .. n - 1 :
                 Erased(array, n, i)[k] = IF k >= i THEN array[k + 1] ELSE array[k]
<1>1. \A k \in 1 .. Len(array) :
        (IF k \in i .. n - 1 THEN array[k + 1] ELSE array[k]) \in S
  OBVIOUS
<1>2. Erased(array, n, i) \in Seq(S) /\ Len(Erased(array, n, i)) = Len(array)
  BY <1>1 DEF Erased
<1> QED
  BY <1>2 DEF Erased

LEMMA InitServerInv == Init => ServerInv
<1> SUFFICES ASSUME Init PROVE ServerInv
  OBVIOUS
<1>1. TypeOK
  <2>1. storage = <<>> /\ Len(storage) = 0 /\ openClients = <<>> /\ size = 0
    BY DEF Init
  <2>2. storage \in Seq(Connections \cup {Nobody}) /\ openClients \in Seq(Connections)
    BY <2>1
  <2>3. size \in 0 .. Len(storage)
    BY <2>1
  <2>4. /\ bound \in BOOLEAN /\ acceptor = "none" /\ incoming = Nobody
        /\ thread \in [Connections -> {"none", "receive", "unregister", "cleanup", "ended"}]
        /\ object \in [Connections -> {"none", "live", "deleted"}]
        /\ cancelled = {} /\ open = {} /\ hungUp = {} /\ stopper = "idle" /\ undefined = "no"
    BY DEF Init
  <2> QED
    BY <2>2, <2>3, <2>4 DEF TypeOK
<1>2. AcceptorInv /\ HandlerInv /\ CleanupInv /\ OwnedInv /\ StopInv
  BY ConnectionsAssumption DEF Init, AcceptorInv, HandlerInv, CleanupInv, OwnedInv, StopInv
<1>3. size = 0 /\ Len(openClients) = 0
  BY DEF Init
<1>4. VectorInv /\ ClientsInv
  BY <1>3 DEF VectorInv, ClientsInv
<1> QED
  BY <1>1, <1>2, <1>4 DEF ServerInv

\* The elements of the copy are connections.
LEMMA ClientsAreConnections ==
    ASSUME ServerInv
    PROVE  /\ \A i \in 1 .. Len(openClients) : openClients[i] \in Connections
           /\ openClients # <<>> =>
                 /\ Last(openClients) = openClients[Len(openClients)]
                 /\ Last(openClients) \in Connections
                 /\ Len(openClients) \in Nat \ {0}
<1>1. openClients \in Seq(Connections)
  BY DEF ServerInv, TypeOK
<1>2. ASSUME openClients # <<>> PROVE Len(openClients) \in Nat \ {0}
  BY <1>1, <1>2
<1> QED
  BY <1>1, <1>2 DEF Last

-----------------------------------------------------------------------------
LEMMA BindStep ==
    ASSUME ServerInv, Bind
    PROVE  ServerInv'
<1>1. /\ stopper = "idle" /\ acceptor = "none" /\ bound' = TRUE /\ acceptor' = "accept" /\ stopper' = stopper
      /\ UNCHANGED <<incoming, thread, cancelled, object, open, storage, size, undefined>>
      /\ UNCHANGED <<openClients, hungUp>>
  BY DEF Bind, threadVars, vectorVars, stopVars
<1>2. TypeOK' /\ StopInv'
  BY <1>1 DEF ServerInv, TypeOK, StopInv
<1>3. AcceptorInv' /\ HandlerInv'
  BY <1>1 DEF ServerInv, AcceptorInv, HandlerInv
<1>4. VectorInv' /\ ClientsInv'
  <2>1. UNCHANGED <<storage, size, object, incoming, openClients>>
    BY <1>1
  <2>2. VectorInv /\ ClientsInv
    BY DEF ServerInv
  <2>3. VectorInv'
    BY ONLY <2>1, <2>2 DEF VectorInv
  <2>4. ClientsInv'
    BY ONLY <2>1, <2>2 DEF ClientsInv
  <2> QED
    BY <2>3, <2>4
<1>5. CleanupInv' /\ OwnedInv'
  BY <1>1 DEF ServerInv, CleanupInv, OwnedInv
<1> QED
  BY <1>2, <1>3, <1>4, <1>5 DEF ServerInv

LEMMA AcceptFailsStep ==
    ASSUME ServerInv, AcceptFails
    PROVE  ServerInv'
<1>1. /\ acceptor = "accept" /\ acceptor' = "returned" /\ UNCHANGED <<bound, stopper>>
      /\ UNCHANGED <<incoming, thread, cancelled, object, open, storage, size, undefined>>
      /\ UNCHANGED <<openClients, hungUp>>
  BY DEF AcceptFails, threadVars, vectorVars, stopVars
<1>2. TypeOK' /\ StopInv'
  BY <1>1 DEF ServerInv, TypeOK, StopInv
<1>3. AcceptorInv' /\ HandlerInv'
  BY <1>1 DEF ServerInv, AcceptorInv, HandlerInv
<1>4. VectorInv' /\ ClientsInv'
  <2>1. UNCHANGED <<storage, size, object, incoming, openClients>>
    BY <1>1
  <2>2. VectorInv /\ ClientsInv
    BY DEF ServerInv
  <2>3. VectorInv'
    BY ONLY <2>1, <2>2 DEF VectorInv
  <2>4. ClientsInv'
    BY ONLY <2>1, <2>2 DEF ClientsInv
  <2> QED
    BY <2>3, <2>4
<1>5. CleanupInv' /\ OwnedInv'
  BY <1>1 DEF ServerInv, CleanupInv, OwnedInv
<1> QED
  BY <1>2, <1>3, <1>4, <1>5 DEF ServerInv

LEMMA SetupHandlerStep ==
    ASSUME ServerInv, SetupHandler
    PROVE  ServerInv'
<1>1. /\ acceptor = "setup" /\ acceptor' = "register" /\ incoming' = incoming /\ open' = open
      /\ object' = [object EXCEPT ![incoming] = "live"] /\ thread' = [thread EXCEPT ![incoming] = "receive"]
      /\ UNCHANGED <<bound, cancelled, hungUp, storage, size, undefined, stopper, openClients>>
  BY DEF SetupHandler, vectorVars, stopVars
<1>2. /\ incoming \in Connections /\ thread[incoming] = "none" /\ object[incoming] = "none"
      /\ Nobody \notin Connections
  BY <1>1, ConnectionsAssumption DEF ServerInv, TypeOK, AcceptorInv, HandlerInv
<1>3. /\ object'[incoming] = "live" /\ thread'[incoming] = "receive"
      /\ \A c \in Connections : c # incoming => object'[c] = object[c] /\ thread'[c] = thread[c]
      /\ object' \in [Connections -> {"none", "live", "deleted"}] /\ thread' \in [Connections -> {"none", "receive", "unregister", "cleanup", "ended"}]
  BY <1>1, <1>2 DEF ServerInv, TypeOK
<1>4. TypeOK' /\ StopInv'
  BY <1>1, <1>2, <1>3 DEF ServerInv, TypeOK, StopInv
<1>5. AcceptorInv' /\ HandlerInv'
  BY <1>1, <1>2, <1>3 DEF ServerInv, AcceptorInv, HandlerInv
<1>6. VectorInv'
  <2>1. \A i \in 1 .. size : storage[i] \in Connections /\ storage[i] # incoming
    BY DEF ServerInv, VectorInv
  <2> QED
    BY <1>1, <1>2, <1>3, <2>1 DEF ServerInv, VectorInv
<1>7. ClientsInv'
  <2>1. \A i \in 1 .. Len(openClients) : openClients[i] \in Connections /\ openClients[i] # incoming
    BY ClientsAreConnections DEF ServerInv, ClientsInv
  <2> QED
    BY <1>1, <1>2, <1>3, <2>1 DEF ServerInv, ClientsInv
<1>8. CleanupInv'
  BY <1>1, <1>2, <1>3 DEF ServerInv, CleanupInv
<1>9. OwnedInv'
  BY <1>1, <1>2, <1>3 DEF ServerInv, OwnedInv
<1> QED
  BY <1>4, <1>5, <1>6, <1>7, <1>8, <1>9 DEF ServerInv

LEMMA SetupFailsStep ==
    ASSUME ServerInv, SetupFails
    PROVE  ServerInv'
<1>1. /\ acceptor = "setup" /\ acceptor' = "accept" /\ incoming' = Nobody /\ open' \subseteq open
      /\ object' = [object EXCEPT ![incoming] = "deleted"] /\ thread' = [thread EXCEPT ![incoming] = "ended"]
      /\ UNCHANGED <<bound, cancelled, hungUp, storage, size, undefined, stopper, openClients>>
  BY DEF SetupFails, vectorVars, stopVars
<1>2. /\ incoming \in Connections /\ thread[incoming] = "none" /\ object[incoming] = "none"
      /\ Nobody \notin Connections
  BY <1>1, ConnectionsAssumption DEF ServerInv, TypeOK, AcceptorInv, HandlerInv
<1>3. /\ object'[incoming] = "deleted" /\ thread'[incoming] = "ended"
      /\ \A c \in Connections : c # incoming => object'[c] = object[c] /\ thread'[c] = thread[c]
      /\ object' \in [Connections -> {"none", "live", "deleted"}] /\ thread' \in [Connections -> {"none", "receive", "unregister", "cleanup", "ended"}]
  BY <1>1, <1>2 DEF ServerInv, TypeOK
<1>4. TypeOK' /\ StopInv'
  BY <1>1, <1>2, <1>3 DEF ServerInv, TypeOK, StopInv
<1>5. AcceptorInv' /\ HandlerInv'
  BY <1>1, <1>2, <1>3 DEF ServerInv, AcceptorInv, HandlerInv
<1>6. VectorInv'
  <2>1. \A i \in 1 .. size : storage[i] \in Connections /\ storage[i] # incoming
    BY DEF ServerInv, VectorInv
  <2> QED
    BY <1>1, <1>2, <1>3, <2>1 DEF ServerInv, VectorInv
<1>7. ClientsInv'
  <2>1. \A i \in 1 .. Len(openClients) : openClients[i] \in Connections /\ openClients[i] # incoming
    BY ClientsAreConnections DEF ServerInv, ClientsInv
  <2> QED
    BY <1>1, <1>2, <1>3, <2>1 DEF ServerInv, ClientsInv
<1>8. CleanupInv'
  BY <1>1, <1>2, <1>3 DEF ServerInv, CleanupInv
<1>9. OwnedInv'
  BY <1>1, <1>2, <1>3 DEF ServerInv, OwnedInv
<1> QED
  BY <1>4, <1>5, <1>6, <1>7, <1>8, <1>9 DEF ServerInv

LEMMA StopBeginsStep ==
    ASSUME ServerInv, StopBegins
    PROVE  ServerInv'
<1>1. /\ stopper = "idle" /\ bound /\ stopper' = "join server" /\ UNCHANGED <<bound, acceptor>>
      /\ UNCHANGED <<incoming, thread, cancelled, object, open, storage, size, undefined>>
      /\ UNCHANGED <<openClients, hungUp>>
  BY DEF StopBegins, serverVars, threadVars, vectorVars
<1>2. TypeOK' /\ StopInv'
  BY <1>1 DEF ServerInv, TypeOK, StopInv
<1>3. AcceptorInv' /\ HandlerInv'
  BY <1>1 DEF ServerInv, AcceptorInv, HandlerInv
<1>4. VectorInv' /\ ClientsInv'
  <2>1. UNCHANGED <<storage, size, object, incoming, openClients>>
    BY <1>1
  <2>2. VectorInv /\ ClientsInv
    BY DEF ServerInv
  <2>3. VectorInv'
    BY ONLY <2>1, <2>2 DEF VectorInv
  <2>4. ClientsInv'
    BY ONLY <2>1, <2>2 DEF ClientsInv
  <2> QED
    BY <2>3, <2>4
<1>5. CleanupInv' /\ OwnedInv'
  BY <1>1 DEF ServerInv, CleanupInv, OwnedInv
<1> QED
  BY <1>2, <1>3, <1>4, <1>5 DEF ServerInv

LEMMA JoinServerStep ==
    ASSUME ServerInv, JoinServer
    PROVE  ServerInv'
<1>1. /\ stopper = "join server" /\ acceptor \in {"accept", "returned"}
      /\ acceptor' = "none" /\ stopper' = "collect" /\ bound' = bound
      /\ UNCHANGED <<incoming, thread, cancelled, object, open, storage, size, undefined>>
      /\ UNCHANGED <<openClients, hungUp>>
  BY DEF JoinServer, threadVars, vectorVars
<1>2. TypeOK' /\ StopInv'
  BY <1>1 DEF ServerInv, TypeOK, StopInv
<1>3. AcceptorInv' /\ HandlerInv'
  BY <1>1 DEF ServerInv, AcceptorInv, HandlerInv
<1>4. VectorInv' /\ ClientsInv'
  <2>1. UNCHANGED <<storage, size, object, incoming, openClients>>
    BY <1>1
  <2>2. VectorInv /\ ClientsInv
    BY DEF ServerInv
  <2>3. VectorInv'
    BY ONLY <2>1, <2>2 DEF VectorInv
  <2>4. ClientsInv'
    BY ONLY <2>1, <2>2 DEF ClientsInv
  <2> QED
    BY <2>3, <2>4
<1>5. CleanupInv' /\ OwnedInv'
  BY <1>1 DEF ServerInv, CleanupInv, OwnedInv
<1> QED
  BY <1>2, <1>3, <1>4, <1>5 DEF ServerInv

LEMMA CancelClientStep ==
    ASSUME ServerInv, CancelClient
    PROVE  ServerInv'
<1>1. /\ stopper = "stop clients" /\ openClients # <<>> /\ stopper' = "join client"
      /\ cancelled' = cancelled \cup {Last(openClients)} /\ UNCHANGED <<bound, acceptor>>
      /\ UNCHANGED <<incoming, thread, object, open, storage, size, undefined>>
      /\ UNCHANGED <<openClients, hungUp>>
  BY DEF CancelClient, serverVars, vectorVars
<1>2. TypeOK' /\ StopInv'
  BY <1>1, ClientsAreConnections DEF ServerInv, TypeOK, StopInv
<1>3. AcceptorInv' /\ HandlerInv'
  BY <1>1 DEF ServerInv, AcceptorInv, HandlerInv
<1>4. VectorInv' /\ ClientsInv'
  <2>1. UNCHANGED <<storage, size, object, incoming, openClients>>
    BY <1>1
  <2>2. VectorInv /\ ClientsInv
    BY DEF ServerInv
  <2>3. VectorInv'
    BY ONLY <2>1, <2>2 DEF VectorInv
  <2>4. ClientsInv'
    BY ONLY <2>1, <2>2 DEF ClientsInv
  <2> QED
    BY <2>3, <2>4
<1>5. CleanupInv' /\ OwnedInv'
  BY <1>1 DEF ServerInv, CleanupInv, OwnedInv
<1> QED
  BY <1>2, <1>3, <1>4, <1>5 DEF ServerInv

LEMMA StopEndsStep ==
    ASSUME ServerInv, StopEnds
    PROVE  ServerInv'
<1>1. /\ stopper = "stop clients" /\ openClients = <<>> /\ bound' = FALSE /\ stopper' = "idle"
      /\ UNCHANGED <<acceptor, incoming, thread, cancelled, object, open, storage, size, undefined>>
      /\ UNCHANGED <<openClients, hungUp>>
  BY DEF StopEnds, threadVars, vectorVars
<1>2. TypeOK' /\ StopInv'
  BY <1>1 DEF ServerInv, TypeOK, StopInv
<1>3. AcceptorInv' /\ HandlerInv'
  BY <1>1 DEF ServerInv, AcceptorInv, HandlerInv
<1>4. VectorInv' /\ ClientsInv'
  <2>1. UNCHANGED <<storage, size, object, incoming, openClients>>
    BY <1>1
  <2>2. VectorInv /\ ClientsInv
    BY DEF ServerInv
  <2>3. VectorInv'
    BY ONLY <2>1, <2>2 DEF VectorInv
  <2>4. ClientsInv'
    BY ONLY <2>1, <2>2 DEF ClientsInv
  <2> QED
    BY <2>3, <2>4
<1>5. CleanupInv' /\ OwnedInv'
  BY <1>1 DEF ServerInv, CleanupInv, OwnedInv
<1> QED
  BY <1>2, <1>3, <1>4, <1>5 DEF ServerInv

-----------------------------------------------------------------------------
LEMMA AcceptConnectionStep ==
    ASSUME ServerInv, NEW c \in Connections, AcceptConnection(c)
    PROVE  ServerInv'
<1>1. /\ acceptor = "accept" /\ acceptor' = "setup" /\ thread[c] = "none" /\ incoming' = c
      /\ open' = open \cup {c}
      /\ UNCHANGED <<bound, thread, cancelled, object, hungUp, storage, size, undefined>>
      /\ UNCHANGED <<stopper, openClients>>
  BY DEF AcceptConnection, vectorVars, stopVars
<1>2. object[c] = "none" /\ incoming = Nobody /\ Nobody \notin Connections
  BY <1>1, ConnectionsAssumption DEF ServerInv, TypeOK, AcceptorInv, HandlerInv
<1>3. TypeOK' /\ StopInv'
  BY <1>1 DEF ServerInv, TypeOK, StopInv
<1>4. AcceptorInv' /\ HandlerInv'
  BY <1>1, <1>2 DEF ServerInv, AcceptorInv, HandlerInv
<1>5. VectorInv'
  <2>1. VectorInv
    BY DEF ServerInv
  <2> QED
    BY ONLY <1>1, <1>2, <2>1 DEF VectorInv
<1>6. ClientsInv'
  <2>1. ClientsInv
    BY DEF ServerInv
  <2> QED
    BY ONLY <1>1, <1>2, <2>1 DEF ClientsInv
<1>7. CleanupInv'
  BY <1>1, <1>2 DEF ServerInv, CleanupInv
<1>8. OwnedInv'
  <2>1. \A d \in Connections : d # incoming
    BY <1>2
  <2> QED
    BY <1>1, <2>1 DEF ServerInv, OwnedInv
<1> QED
  BY <1>3, <1>4, <1>5, <1>6, <1>7, <1>8 DEF ServerInv

LEMMA RegisterStep ==
    ASSUME ServerInv, Register
    PROVE  ServerInv'
<1>1. /\ acceptor = "register" /\ acceptor' = "accept" /\ incoming' = Nobody /\ size' = size + 1
      /\ storage' = Pushed(storage, size, incoming)
      /\ UNCHANGED <<bound, thread, cancelled, object, open, hungUp, undefined, stopper, openClients>>
  BY DEF Register, threadVars, stopVars
<1>2. /\ incoming \in Connections /\ object[incoming] = "live" /\ size \in 0 .. Len(storage)
      /\ storage \in Seq(Connections \cup {Nobody})
  BY <1>1, ConnectionsAssumption DEF ServerInv, TypeOK, AcceptorInv
<1>3. /\ storage' \in Seq(Connections \cup {Nobody}) /\ size' \in 0 .. Len(storage')
      /\ storage'[size + 1] = incoming /\ \A i \in 1 .. size : storage'[i] = storage[i]
  <2> DEFINE S == Connections \cup {Nobody}
  <2>1. Nobody \in S /\ incoming \in S /\ storage \in Seq(S)
    BY <1>2
  <2> HIDE DEF S
  <2>2. /\ Pushed(storage, size, incoming) \in Seq(S)
        /\ size + 1 \in 0 .. Len(Pushed(storage, size, incoming))
        /\ Pushed(storage, size, incoming)[size + 1] = incoming
        /\ \A i \in 1 .. size : Pushed(storage, size, incoming)[i] = storage[i]
    BY <1>2, <2>1, PushedKeeps
  <2> QED
    BY <1>1, <2>2 DEF S
<1>4. TypeOK'
  BY <1>1, <1>3 DEF ServerInv, TypeOK
<1>5. AcceptorInv' /\ HandlerInv'
  BY <1>1, ConnectionsAssumption DEF ServerInv, AcceptorInv, HandlerInv
<1>6. StopInv'
  BY <1>1 DEF ServerInv, StopInv
<1>7. \A i \in 1 .. size' : storage'[i] = IF i = size + 1 THEN incoming ELSE storage[i]
  BY <1>1, <1>2, <1>3
<1>8. VectorInv'
  <2>1. \A i \in 1 .. size : storage[i] \in Connections /\ storage[i] # incoming
                            /\ object[storage[i]] = "live"
    BY DEF ServerInv, VectorInv
  <2>2. \A i, j \in 1 .. size : storage[i] = storage[j] => i = j
    BY DEF ServerInv, VectorInv
  <2>3. \A i \in 1 .. size' : i \in 1 .. size \/ i = size + 1
    BY <1>1, <1>2
  <2>4. \A i \in 1 .. size' : storage'[i] \in Connections /\ object[storage'[i]] = "live"
    BY <1>2, <1>7, <2>1, <2>3
  <2>5. \A i, j \in 1 .. size' : storage'[i] = storage'[j] => i = j
    BY <1>7, <2>1, <2>2, <2>3
  <2> QED
    BY <1>1, <2>4, <2>5, ConnectionsAssumption DEF VectorInv
<1>9. ClientsInv'
  BY <1>1, <1>2, <1>7, ClientsAreConnections, ConnectionsAssumption DEF ServerInv, ClientsInv
<1>10. CleanupInv' /\ OwnedInv'
  BY <1>1, <1>2, <1>7, ConnectionsAssumption, SMTT(60) DEF ServerInv, CleanupInv, OwnedInv
<1> QED
  BY <1>4, <1>5, <1>6, <1>8, <1>9, <1>10 DEF ServerInv

-----------------------------------------------------------------------------
LEMMA ReceiveStep ==
    ASSUME ServerInv, NEW c \in Connections, ReceiveEnds(c) \/ Cancelled(c)
    PROVE  ServerInv'
<1>1. /\ thread[c] = "receive"
      /\ thread' \in {[thread EXCEPT ![c] = "unregister"], [thread EXCEPT ![c] = "ended"]}
      /\ UNCHANGED <<bound, acceptor, incoming, cancelled, object, open, hungUp>>
      /\ UNCHANGED <<storage, size, undefined, stopper, openClients>>
  BY DEF ReceiveEnds, Cancelled, serverVars, vectorVars, stopVars
<1>2. thread \in [Connections -> {"none", "receive", "unregister", "cleanup", "ended"}]
  BY DEF ServerInv, TypeOK
<1>3. TypeOK' /\ StopInv'
  BY <1>1, ZenonT(60) DEF ServerInv, TypeOK, StopInv
<1>4. AcceptorInv' /\ HandlerInv'
  <2>1. /\ thread'[c] \in {"unregister", "ended"}
        /\ \A d \in Connections \ {c} : thread'[d] = thread[d]
    BY <1>1, <1>2
  <2>2. incoming # Nobody => incoming \in Connections
    BY DEF ServerInv, TypeOK
  <2>3. HandlerInv'
    BY <1>1, <2>1 DEF ServerInv, HandlerInv
  <2> QED
    BY <1>1, <2>1, <2>2, <2>3 DEF ServerInv, AcceptorInv
<1>5. VectorInv' /\ ClientsInv'
  BY <1>1 DEF ServerInv, VectorInv, ClientsInv
<1>6. \A d \in Connections : thread'[d] = "cleanup" <=> thread[d] = "cleanup"
  BY <1>1, <1>2
<1>7. CleanupInv' /\ OwnedInv'
  BY <1>1, <1>6 DEF ServerInv, CleanupInv, OwnedInv
<1> QED
  BY <1>3, <1>4, <1>5, <1>7 DEF ServerInv

LEMMA UnRegisterStep ==
    ASSUME ServerInv, undefined = "no", NEW c \in Connections, UnRegister(c)
    PROVE  ServerInv'
<1>1. /\ thread[c] = "unregister"
      /\ undefined' \in {"no", "null", "stale"}
      /\ storage' = IF undefined' = "no" /\ Found(c) THEN Erased(storage, size, FoundAt(c)) ELSE storage
      /\ size' = IF undefined' = "no" /\ Found(c) THEN size - 1 ELSE size
      /\ thread' = [thread EXCEPT ![c] = IF Found(c) \/ undefined' = "stale" THEN "cleanup" ELSE "ended"]
      /\ UNCHANGED <<bound, acceptor, incoming, cancelled, object, open, hungUp, stopper, openClients>>
  BY DEF UnRegister, serverVars, stopVars
<1>2. /\ thread \in [Connections -> {"none", "receive", "unregister", "cleanup", "ended"}]
      /\ storage \in Seq(Connections \cup {Nobody}) /\ size \in 0 .. Len(storage)
      /\ incoming # Nobody => incoming \in Connections
      /\ object[c] = "live"
  BY <1>1 DEF ServerInv, TypeOK, HandlerInv
<1>3. /\ thread'[c] = IF Found(c) \/ undefined' = "stale" THEN "cleanup" ELSE "ended"
      /\ \A d \in Connections \ {c} : thread'[d] = thread[d]
      /\ thread' \in [Connections -> {"none", "receive", "unregister", "cleanup", "ended"}]
  BY <1>1, <1>2
<1>4. AcceptorInv' /\ HandlerInv'
  <2>1. HandlerInv'
    BY <1>1, <1>2, <1>3 DEF ServerInv, HandlerInv
  <2> QED
    BY <1>1, <1>2, <1>3, <2>1 DEF ServerInv, AcceptorInv
<1>5. CASE undefined' = "no" /\ Found(c)
  <2> DEFINE at == FoundAt(c)
  <2>1. at \in 1 .. size /\ storage[at] = c
    BY <1>5 DEF Found, Registered, FoundAt
  <2>2. /\ storage' = Erased(storage, size, at) /\ size' = size - 1 /\ thread'[c] = "cleanup"
    BY <1>1, <1>3, <1>5
  <2> HIDE DEF at
  <2>3. /\ storage' \in Seq(Connections \cup {Nobody}) /\ size' \in 0 .. Len(storage')
        /\ \A k \in 1 .. size' : storage'[k] = IF k >= at THEN storage[k + 1] ELSE storage[k]
    <3> DEFINE S == Connections \cup {Nobody}
    <3>1. storage \in Seq(S) /\ size \in 0 .. Len(storage) /\ at \in 1 .. size
      BY <1>2, <2>1
    <3> HIDE DEF S
    <3>2. /\ Erased(storage, size, at) \in Seq(S)
          /\ size - 1 \in 0 .. Len(Erased(storage, size, at))
          /\ \A k \in 1 .. size - 1 :
                Erased(storage, size, at)[k] = IF k >= at THEN storage[k + 1] ELSE storage[k]
      BY <3>1, ErasedMoves
    <3> QED
      BY <2>2, <3>2 DEF S
  <2>4. TypeOK' /\ StopInv'
    <3>1. TypeOK'
      BY <1>1, <1>3, <2>3 DEF ServerInv, TypeOK
    <3>2. size # 0
      BY <1>2, <2>1
    <3>3. StopInv'
      BY <1>1, <3>2 DEF ServerInv, StopInv
    <3> QED
      BY <3>1, <3>3
  <2>5. \A i, j \in 1 .. size : storage[i] = storage[j] => i = j
    BY DEF ServerInv, VectorInv
  <2>6. \A k \in 1 .. size' : \E i \in 1 .. size :
          i # at /\ storage'[k] = storage[i] /\ i = IF k >= at THEN k + 1 ELSE k
    <3> TAKE k \in 1 .. size'
    <3>1. CASE k >= at
      <4>1. k + 1 \in 1 .. size /\ k + 1 # at
        BY <1>2, <2>1, <2>2, <3>1
      <4> QED
        BY <2>3, <3>1, <4>1
    <3>2. CASE ~(k >= at)
      <4>1. k \in 1 .. size /\ k # at
        BY <1>2, <2>1, <2>2, <3>2
      <4> QED
        BY <2>3, <3>2, <4>1
    <3> QED
      BY <3>1, <3>2
  <2>7. \A i \in 1 .. size : i # at => \E k \in 1 .. size' : storage'[k] = storage[i]
    <3> SUFFICES ASSUME NEW i \in 1 .. size, i # at PROVE \E k \in 1 .. size' : storage'[k] = storage[i]
      OBVIOUS
    <3>1. CASE i > at
      <4>1. i - 1 \in 1 .. size' /\ i - 1 >= at /\ (i - 1) + 1 = i
        BY <1>2, <2>1, <2>2, <3>1
      <4> QED
        BY <2>3, <4>1
    <3>2. CASE ~(i > at)
      <4>1. i \in 1 .. size' /\ ~(i >= at)
        BY <1>2, <2>1, <2>2, <3>2
      <4> QED
        BY <2>3, <4>1
    <3> QED
      BY <3>1, <3>2
  <2>8. VectorInv'
    <3>1. \A k \in 1 .. size' : /\ storage'[k] \in Connections /\ object[storage'[k]] = "live"
                               /\ storage'[k] # incoming
      BY <2>6 DEF ServerInv, VectorInv
    <3>2. \A k, l \in 1 .. size' : storage'[k] = storage'[l] => k = l
      <4> SUFFICES ASSUME NEW k \in 1 .. size', NEW l \in 1 .. size', storage'[k] = storage'[l]
                   PROVE  k = l
        OBVIOUS
      <4>1. PICK i \in 1 .. size : storage'[k] = storage[i] /\ i = IF k >= at THEN k + 1 ELSE k
        BY <2>6
      <4>2. PICK j \in 1 .. size : storage'[l] = storage[j] /\ j = IF l >= at THEN l + 1 ELSE l
        BY <2>6
      <4>3. i = j
        BY <2>5, <4>1, <4>2
      <4> QED
        BY <1>2, <2>1, <4>1, <4>2, <4>3
    <3> QED
      BY <1>1, <3>1, <3>2 DEF VectorInv
  <2>9. ClientsInv'
    BY <1>1, <2>6 DEF ServerInv, ClientsInv
  <2>10. \A k \in 1 .. size' : storage'[k] # c
    BY <2>1, <2>5, <2>6
  <2>11. c # incoming /\ \A i \in 1 .. Len(openClients) : openClients[i] # c
    BY <2>1 DEF ServerInv, VectorInv, ClientsInv
  <2>12. CleanupInv'
    BY <1>1, <1>3, <1>5, <2>6, <2>10, <2>11 DEF ServerInv, CleanupInv
  <2>13. OwnedInv'
    BY <1>1, <1>3, <2>1, <2>2, <2>7 DEF ServerInv, OwnedInv
  <2> QED
    BY <1>4, <2>4, <2>8, <2>9, <2>12, <2>13 DEF ServerInv
<1>6. CASE ~(undefined' = "no" /\ Found(c))
  <2>1. storage' = storage /\ size' = size /\ (undefined' = "no" => thread'[c] = "ended")
    BY <1>1, <1>3, <1>6
  <2>2. TypeOK' /\ StopInv'
    BY <1>1, <1>3, <2>1, ZenonT(60) DEF ServerInv, TypeOK, StopInv
  <2>3. VectorInv' /\ ClientsInv'
    BY <1>1, <2>1 DEF ServerInv, VectorInv, ClientsInv
  <2>4. CleanupInv'
    BY <1>1, <1>3, <2>1 DEF ServerInv, CleanupInv
  <2>5. OwnedInv'
    BY <1>1, <1>3, <2>1 DEF ServerInv, OwnedInv
  <2> QED
    BY <1>4, <2>2, <2>3, <2>4, <2>5 DEF ServerInv
<1> QED
  BY <1>5, <1>6

LEMMA DeleteSelfStep ==
    ASSUME ServerInv, undefined = "no", NEW c \in Connections, DeleteSelf(c)
    PROVE  ServerInv'
<1>1. /\ thread[c] = "cleanup" /\ open' = open \ {c}
      /\ object' = [object EXCEPT ![c] = "deleted"] /\ thread' = [thread EXCEPT ![c] = "ended"]
      /\ UNCHANGED <<bound, acceptor, incoming, cancelled, hungUp>>
      /\ UNCHANGED <<storage, size, undefined, stopper, openClients>>
  BY DEF DeleteSelf, serverVars, vectorVars, stopVars
<1>2. /\ thread \in [Connections -> {"none", "receive", "unregister", "cleanup", "ended"}]
      /\ object \in [Connections -> {"none", "live", "deleted"}]
      /\ incoming # Nobody => incoming \in Connections
  BY DEF ServerInv, TypeOK
<1>3. /\ c # incoming /\ \A i \in 1 .. size : storage[i] # c
      /\ \A i \in 1 .. Len(openClients) : openClients[i] # c
  BY <1>1 DEF ServerInv, CleanupInv
<1>4. /\ thread'[c] = "ended" /\ object'[c] = "deleted"
      /\ \A d \in Connections \ {c} : thread'[d] = thread[d] /\ object'[d] = object[d]
  BY <1>1, <1>2
<1>5. TypeOK' /\ StopInv'
  BY <1>1, <1>2 DEF ServerInv, TypeOK, StopInv
<1>6. HandlerInv'
  BY <1>4 DEF ServerInv, HandlerInv
<1>7. AcceptorInv'
  BY <1>1, <1>2, <1>3, <1>4 DEF ServerInv, AcceptorInv
<1>8. VectorInv'
  BY <1>1, <1>3, <1>4 DEF ServerInv, VectorInv
<1>9. ClientsInv'
  BY <1>1, <1>3, <1>4, ClientsAreConnections DEF ServerInv, ClientsInv
<1>10. CleanupInv' /\ OwnedInv'
  BY <1>1, <1>4 DEF ServerInv, CleanupInv, OwnedInv
<1> QED
  BY <1>5, <1>6, <1>7, <1>8, <1>9, <1>10 DEF ServerInv

-----------------------------------------------------------------------------
\* The first n elements of a sequence.
LEMMA FirstOnes ==
    ASSUME NEW S, NEW seq \in Seq(S), NEW n \in 0 .. Len(seq), NEW T, \A i \in 1 .. n : seq[i] \in T
    PROVE  /\ SubSeq(seq, 1, n) \in Seq(T) /\ Len(SubSeq(seq, 1, n)) = n
           /\ \A i \in 1 .. n : SubSeq(seq, 1, n)[i] = seq[i]
<1>1. /\ Len(SubSeq(seq, 1, n)) = n
      /\ \A i \in 1 .. n : SubSeq(seq, 1, n)[i] = seq[i]
  OBVIOUS
<1>2. SubSeq(seq, 1, n) = [i \in 1 .. n |-> seq[i]]
  OBVIOUS
<1>3. [i \in 1 .. n |-> seq[i]] \in Seq(T)
  OBVIOUS
<1> QED
  BY <1>1, <1>2, <1>3

LEMMA CollectStep ==
    ASSUME ServerInv, Collect
    PROVE  ServerInv'
<1>1. /\ stopper = "collect" /\ stopper' = "stop clients" /\ size' = 0
      /\ openClients' = SubSeq(storage, 1, size)
      /\ UNCHANGED <<bound, acceptor, incoming, thread, cancelled, object, open, hungUp>>
      /\ UNCHANGED <<storage, undefined>>
  BY DEF Collect, serverVars, threadVars
<1>2. /\ storage \in Seq(Connections \cup {Nobody}) /\ size \in 0 .. Len(storage)
      /\ \A i \in 1 .. size : storage[i] \in Connections
      /\ openClients = <<>>
  BY <1>1 DEF ServerInv, TypeOK, VectorInv, StopInv
<1>3. /\ Len(openClients') = size /\ openClients' \in Seq(Connections)
      /\ \A i \in 1 .. size : openClients'[i] = storage[i]
  BY <1>1, <1>2, FirstOnes
<1>4. TypeOK'
  <2>1. size' = 0 /\ storage' = storage
    BY <1>1
  <2>2. Len(storage) \in Nat
    BY <1>2
  <2>3. size' \in 0 .. Len(storage')
    BY <2>1, <2>2
  <2> QED
    BY <1>1, <1>3, <2>3 DEF ServerInv, TypeOK
<1>5. \A i \in 1 .. size' : FALSE
  <2>1. size' = 0
    BY <1>1
  <2>2. \A i \in 1 .. 0 : FALSE
    OBVIOUS
  <2> QED
    BY <2>1, <2>2
<1>6. AcceptorInv' /\ HandlerInv' /\ StopInv'
  BY <1>1 DEF ServerInv, AcceptorInv, HandlerInv, StopInv
<1>7. VectorInv'
  BY <1>5 DEF VectorInv
<1>8. ClientsInv'
  <2>1. \A i \in 1 .. size : /\ object[storage[i]] = "live" /\ storage[i] # incoming
                            /\ \A k \in 1 .. size : storage[i] = storage[k] => i = k
    BY DEF ServerInv, VectorInv
  <2>2. \A i \in 1 .. size : /\ object'[openClients'[i]] = "live" /\ openClients'[i] # incoming'
                            /\ \A k \in 1 .. size : openClients'[i] = openClients'[k] => i = k
    BY <1>1, <1>3, <2>1
  <2> QED
    BY <1>3, <1>5, <2>2 DEF ClientsInv
<1>9. CleanupInv'
  BY <1>1, <1>3, <1>5, ZenonT(60) DEF ServerInv, CleanupInv
<1>10. OwnedInv'
  <2>1. \A i \in 1 .. Len(openClients) : FALSE
    BY <1>2
  <2> QED
    BY <1>1, <1>3, <2>1 DEF ServerInv, OwnedInv
<1> QED
  BY <1>4, <1>6, <1>7, <1>8, <1>9, <1>10 DEF ServerInv

LEMMA JoinClientStep ==
    ASSUME ServerInv, JoinClient
    PROVE  ServerInv'
<1> DEFINE c == Last(openClients)
<1>1. /\ stopper = "join client" /\ stopper' = "stop clients" /\ thread[c] = "ended"
      /\ object' = [object EXCEPT ![c] = "deleted"] /\ openClients' = Front(openClients)
      /\ UNCHANGED <<bound, acceptor, incoming, thread, cancelled, open, hungUp>>
      /\ UNCHANGED <<storage, size, undefined>>
  BY DEF JoinClient, serverVars, vectorVars
<1>2. openClients # <<>> /\ size = 0 /\ acceptor = "none"
  BY <1>1 DEF ServerInv, StopInv
<1>3. /\ c = openClients[Len(openClients)] /\ c \in Connections /\ Len(openClients) \in Nat \ {0}
      /\ \A i \in 1 .. Len(openClients) : openClients[i] \in Connections
  BY <1>2, ClientsAreConnections
<1>4. /\ openClients' \in Seq(Connections) /\ Len(openClients') = Len(openClients) - 1
      /\ \A i \in 1 .. Len(openClients') : openClients'[i] = openClients[i]
  <2> DEFINE n == Len(openClients) - 1
  <2>1. openClients \in Seq(Connections) /\ n \in 0 .. Len(openClients)
    <3>1. n \in 0 .. Len(openClients)
      BY <1>3
    <3> QED
      BY <3>1 DEF ServerInv, TypeOK
  <2>2. \A i \in 1 .. n : openClients[i] \in Connections
    BY <1>3
  <2>3. openClients' = SubSeq(openClients, 1, n)
    BY <1>1 DEF Front
  <2> HIDE DEF n
  <2>4. /\ openClients' \in Seq(Connections) /\ Len(openClients') = n
        /\ \A i \in 1 .. n : openClients'[i] = openClients[i]
    BY <2>1, <2>2, <2>3, FirstOnes
  <2> QED
    BY <2>4 DEF n
<1>5. object \in [Connections -> {"none", "live", "deleted"}]
  BY DEF ServerInv, TypeOK
<1> HIDE DEF c
<1>6. object'[c] = "deleted" /\ \A d \in Connections \ {c} : object'[d] = object[d]
  BY <1>1, <1>3, <1>5
<1>7. TypeOK' /\ StopInv'
  BY <1>1, <1>2, <1>4, <1>5 DEF ServerInv, TypeOK, StopInv
<1>8. HandlerInv'
  <2>1. HandlerInv
    BY DEF ServerInv
  <2> QED
    BY ONLY <1>1, <1>3, <1>6, <2>1, ZenonT(60) DEF HandlerInv
<1>9. AcceptorInv' /\ VectorInv'
  <2>1. \A i \in 1 .. size : FALSE
    BY <1>2
  <2> QED
    BY <1>1, <1>2, <2>1 DEF ServerInv, AcceptorInv, VectorInv
<1>10. \A i \in 1 .. Len(openClients') : i \in 1 .. Len(openClients) /\ openClients[i] # c
  <2> SUFFICES ASSUME NEW i \in 1 .. Len(openClients')
               PROVE  i \in 1 .. Len(openClients) /\ openClients[i] # c
    OBVIOUS
  <2>1. i \in 1 .. Len(openClients) /\ i # Len(openClients)
    BY <1>3, <1>4
  <2>2. Len(openClients) \in 1 .. Len(openClients)
    BY <1>3
  <2>3. openClients[i] = openClients[Len(openClients)] => i = Len(openClients)
    BY <2>1, <2>2 DEF ServerInv, ClientsInv
  <2> QED
    BY <1>3, <2>1, <2>3
<1>11. ClientsInv'
  <2>1. \A i \in 1 .. Len(openClients) :
          /\ object[openClients[i]] = "live" /\ openClients[i] # incoming
          /\ \A k \in 1 .. Len(openClients) : openClients[i] = openClients[k] => i = k
          /\ \A k \in 1 .. size : storage[k] # openClients[i]
    BY DEF ServerInv, ClientsInv
  <2>2. \A i \in 1 .. Len(openClients') : object'[openClients[i]] = "live"
    BY <1>3, <1>6, <1>10, <2>1
  <2>3. ASSUME NEW i \in 1 .. Len(openClients'), NEW k \in 1 .. Len(openClients'),
               openClients'[i] = openClients'[k]
        PROVE  i = k
    BY <1>4, <1>10, <2>1, <2>3
  <2>4. ASSUME NEW i \in 1 .. Len(openClients')
        PROVE  /\ object'[openClients'[i]] = "live" /\ openClients'[i] # incoming
               /\ \A k \in 1 .. size : storage[k] # openClients'[i]
    BY <1>4, <1>10, <2>1, <2>2, <2>4
  <2> QED
    BY <1>1, <2>3, <2>4 DEF ClientsInv
<1>12. CleanupInv'
  <2>1. CleanupInv
    BY DEF ServerInv
  <2>2. ASSUME undefined = "no", NEW d \in Connections, thread[d] = "cleanup"
        PROVE  /\ d # incoming /\ \A i \in 1 .. size : storage[i] # d
               /\ \A i \in 1 .. Len(openClients) : openClients[i] # d
    BY ONLY <2>1, <2>2 DEF CleanupInv
  <2>3. ASSUME undefined = "no", NEW d \in Connections, thread[d] = "cleanup"
        PROVE  \A i \in 1 .. Len(openClients') : openClients'[i] # d
    BY ONLY <1>4, <1>10, <2>2, <2>3
  <2>4. UNCHANGED <<undefined, thread, incoming, storage, size>>
    BY <1>1
  <2> QED
    BY ONLY <2>2, <2>3, <2>4 DEF CleanupInv
<1>13. OwnedInv'
  <2> SUFFICES ASSUME NEW d \in Connections, object'[d] = "live", incoming # d, thread[d] # "cleanup",
                      ~\E i \in 1 .. size : storage[i] = d
               PROVE  \E i \in 1 .. Len(openClients') : openClients'[i] = d
    BY <1>1 DEF OwnedInv
  <2>1. d # c /\ object[d] = "live"
    BY <1>6
  <2>2. PICK i \in 1 .. Len(openClients) : openClients[i] = d
    BY <2>1 DEF ServerInv, OwnedInv
  <2>3. i \in 1 .. Len(openClients')
    BY <1>3, <1>4, <2>1, <2>2
  <2> QED
    BY <1>4, <2>2, <2>3
<1> QED
  BY <1>7, <1>8, <1>9, <1>11, <1>12, <1>13 DEF ServerInv

LEMMA HangUpStep ==
    ASSUME ServerInv, (\E c \in Connections : HangUp(c)) \/ UNCHANGED vars
    PROVE  ServerInv'
<1>1. /\ UNCHANGED <<bound, acceptor, incoming, thread, cancelled, object, open>>
      /\ UNCHANGED <<storage, size, undefined, stopper, openClients>>
      /\ hungUp \subseteq Connections => hungUp' \subseteq Connections
  BY DEF HangUp, vars, serverVars, threadVars, vectorVars, stopVars
<1>2. TypeOK' /\ StopInv' /\ AcceptorInv' /\ HandlerInv'
  BY <1>1 DEF ServerInv, TypeOK, StopInv, AcceptorInv, HandlerInv
<1>3. VectorInv' /\ ClientsInv' /\ CleanupInv' /\ OwnedInv'
  BY <1>1 DEF ServerInv, VectorInv, ClientsInv, CleanupInv, OwnedInv
<1> QED
  BY <1>2, <1>3 DEF ServerInv

-----------------------------------------------------------------------------
LEMMA NextServerInv == ServerInv /\ [Next]_vars => ServerInv'
<1> SUFFICES ASSUME ServerInv, [Next]_vars PROVE ServerInv'
  OBVIOUS
<1>1. CASE UNCHANGED vars
  BY <1>1, HangUpStep
<1>2. CASE Next
  <2>1. undefined = "no"
    BY <1>2 DEF Next
  <2>2. CASE Bind \/ StopBegins
    BY <2>2, BindStep, StopBeginsStep
  <2>3. CASE Accept
    BY <2>3, AcceptFailsStep, SetupHandlerStep, SetupFailsStep, RegisterStep, AcceptConnectionStep
       DEF Accept
  <2>4. CASE Stop
    BY <2>4, JoinServerStep, CollectStep, CancelClientStep, JoinClientStep, StopEndsStep DEF Stop
  <2>5. ASSUME NEW c \in Connections, Handler(c) PROVE ServerInv'
    BY <2>1, <2>5, ReceiveStep, UnRegisterStep, DeleteSelfStep DEF Handler
  <2>6. CASE \E c \in Connections : HangUp(c)
    BY <2>6, HangUpStep
  <2> QED
    BY <1>2, <2>2, <2>3, <2>4, <2>5, <2>6 DEF Next
<1> QED
  BY <1>1, <1>2

\* The strengthening: every handler is in one place, and Stop as far as it has come.
THEOREM ServerInvariant == Spec => []ServerInv
BY InitServerInv, NextServerInv, PTL DEF Spec

\* No thread of a connection runs in a handler that has been deleted, by whomever: its own
\* thread, the accepting thread or WOscTcpHandler::Stop.
THEOREM ServerThreadsHaveHandlers == Spec => []ThreadsHaveHandlers
<1>1. ServerInv => ThreadsHaveHandlers
  BY DEF ServerInv, HandlerInv, ThreadsHaveHandlers
<1> QED
  BY <1>1, ServerInvariant, PTL

-----------------------------------------------------------------------------
LEMMA PlacesExclude ==
    ASSUME ServerInv, undefined = "no", NEW c \in Connections
    PROVE  /\ c \in Registered <=> \E i \in 1 .. size : storage[i] = c
           /\ c \in ToSet(openClients) <=> \E i \in 1 .. Len(openClients) : openClients[i] = c
           /\ c \in Registered => object[c] = "live" /\ c # incoming /\ c \notin ToSet(openClients)
           /\ c \in ToSet(openClients) => object[c] = "live" /\ c # incoming
           /\ thread[c] = "cleanup" =>
                 object[c] = "live" /\ c # incoming /\ c \notin Registered /\ c \notin ToSet(openClients)
           /\ object[c] = "live" => incoming = c \/ c \in Registered \/ c \in ToSet(openClients)
                                     \/ thread[c] = "cleanup"
<1>1. c \in Registered <=> \E i \in 1 .. size : storage[i] = c
  BY DEF Registered
<1>2. DOMAIN openClients = 1 .. Len(openClients)
  <2>1. openClients \in Seq(Connections)
    BY DEF ServerInv, TypeOK
  <2> QED
    BY <2>1
<1>3. c \in ToSet(openClients) <=> \E i \in 1 .. Len(openClients) : openClients[i] = c
  BY <1>2 DEF ToSet
<1>4. c \in Registered => object[c] = "live" /\ c # incoming /\ c \notin ToSet(openClients)
  BY <1>1, <1>3 DEF ServerInv, VectorInv, ClientsInv
<1>5. c \in ToSet(openClients) => object[c] = "live" /\ c # incoming
  BY <1>3 DEF ServerInv, ClientsInv
<1>6. thread[c] = "cleanup" =>
         object[c] = "live" /\ c # incoming /\ c \notin Registered /\ c \notin ToSet(openClients)
  BY <1>1, <1>3 DEF ServerInv, HandlerInv, CleanupInv
<1>7. object[c] = "live" => incoming = c \/ c \in Registered \/ c \in ToSet(openClients)
                            \/ thread[c] = "cleanup"
  BY <1>1, <1>3 DEF ServerInv, OwnedInv
<1> QED
  BY <1>1, <1>3, <1>4, <1>5, <1>6, <1>7

LEMMA LiveHandlerHasOneOwner ==
    ASSUME ServerInv, undefined = "no", NEW c \in Connections
    PROVE  Cardinality(Owners(c)) = IF object[c] = "live" THEN 1 ELSE 0
<1>1. /\ "acceptor" \in Owners(c) <=> incoming = c /\ object[c] = "live"
      /\ "vector" \in Owners(c) <=> c \in Registered
      /\ "application" \in Owners(c) <=> c \in ToSet(openClients)
      /\ "self" \in Owners(c) <=> thread[c] = "cleanup"
      /\ Owners(c) \subseteq {"acceptor", "vector", "application", "self"}
  BY DEF Owners
<1>2. CASE object[c] = "live"
  <2>1. \/ Owners(c) = {"acceptor"} \/ Owners(c) = {"vector"}
        \/ Owners(c) = {"application"} \/ Owners(c) = {"self"}
    BY <1>1, <1>2, PlacesExclude
  <2>2. Cardinality(Owners(c)) = 1
    BY <2>1, FS_Singleton
  <2> QED
    BY <1>2, <2>2
<1>3. CASE object[c] # "live"
  <2>1. Owners(c) = {}
    BY <1>1, <1>3, PlacesExclude
  <2>2. Cardinality(Owners(c)) = 0
    BY <2>1, FS_EmptySet
  <2> QED
    BY <1>3, <2>2
<1> QED
  BY <1>2, <1>3

\* A handler that is alive has exactly one owner that will delete it, and one that is not has none.
THEOREM ServerOneOwner == Spec => []OneOwner
<1>1. ServerInv => OneOwner
  <2> SUFFICES ASSUME ServerInv, undefined = "no"
               PROVE  /\ \A c \in Connections :
                            Cardinality(Owners(c)) = (IF object[c] = "live" THEN 1 ELSE 0)
                      /\ IsInjective(SubSeq(storage, 1, size)) /\ IsInjective(openClients)
    BY DEF OneOwner
  <2>1. \A c \in Connections : Cardinality(Owners(c)) = IF object[c] = "live" THEN 1 ELSE 0
    BY LiveHandlerHasOneOwner
  <2>2. IsInjective(openClients)
    <3>1. DOMAIN openClients = 1 .. Len(openClients)
      <4>1. openClients \in Seq(Connections)
        BY DEF ServerInv, TypeOK
      <4> QED
        BY <4>1
    <3> QED
      BY <3>1 DEF ServerInv, ClientsInv, IsInjective
  <2>3. IsInjective(SubSeq(storage, 1, size))
    <3> DEFINE used == SubSeq(storage, 1, size)
    <3>1. /\ storage \in Seq(Connections \cup {Nobody}) /\ size \in 0 .. Len(storage)
          /\ \A i \in 1 .. size : storage[i] \in Connections
      BY DEF ServerInv, TypeOK, VectorInv
    <3>2. /\ used \in Seq(Connections) /\ Len(used) = size
          /\ \A i \in 1 .. size : used[i] = storage[i]
      BY <3>1, FirstOnes
    <3> HIDE DEF used
    <3>3. DOMAIN used = 1 .. size
      BY <3>2
    <3>4. IsInjective(used)
      BY <3>2, <3>3 DEF ServerInv, VectorInv, IsInjective
    <3> QED
      BY <3>4 DEF used
  <2> QED
    BY <2>1, <2>2, <2>3
<1> QED
  BY <1>1, ServerInvariant, PTL

\* When Stop has returned, every handler there was has been deleted or is deleting itself.
THEOREM ServerNothingLeft == Spec => []NothingLeft
<1>1. ServerInv => NothingLeft
  <2> SUFFICES ASSUME ServerInv, undefined = "no", stopper = "idle", ~bound,
                      NEW c \in Connections, object[c] = "live"
               PROVE  thread[c] = "cleanup"
    BY DEF NothingLeft
  <2>1. acceptor = "none" /\ size = 0 /\ openClients = <<>> /\ incoming = Nobody
    BY DEF ServerInv, StopInv, AcceptorInv
  <2>2. /\ \A i \in 1 .. size : FALSE
        /\ \A i \in 1 .. Len(openClients) : FALSE
    BY <2>1
  <2> QED
    BY <2>1, <2>2, ConnectionsAssumption DEF ServerInv, OwnedInv
<1> QED
  BY <1>1, ServerInvariant, PTL

-----------------------------------------------------------------------------
(***************************************************************************)
(* The threaded client and the server it sends to are a channel of packets *)
(* (PacketChannel), for any packets and buffers of any size.               *)
(*                                                                         *)
(* The argument: what the receiver holds of the packet it is in, what is   *)
(* on the wire and what the sending thread has still to send of its packet *)
(* are together the frames of the packets that were accepted and not       *)
(* delivered, one after the other.  A step moves bytes between the three,  *)
(* adds the frame of a packet, or takes one off.  The frames can be told   *)
(* apart only because nobody sends between a length and its data.          *)
(***************************************************************************)

Frame(p) == Threaded!NetworkOrder(Len(p)) \o p

\* f[j] are the frames of the accepted packets after the j-th.
FramesAfter(f) ==
    /\ f \in [Nat -> Seq(Nat)]
    /\ f[Len(accepted)] = <<>>
    /\ \A j \in 1 .. Len(accepted) : j > Len(delivered) => f[j - 1] = Frame(accepted[j]) \o f[j]

\* What the receiver has of the frame it is in.
Begun == IF isRxPacketLen THEN received ELSE Threaded!NetworkOrder(packetLen) \o received

\* What a thread has still to send of its packet.
Unsent(t) ==
    SubSeq(Threaded!Buffer(t), nSent[t] + 1, Len(Threaded!Buffer(t)))
        \o (IF pc[t] = "length" THEN packet[t] ELSE <<>>)
ToSend == IF mutexTx = Threaded!NoThread THEN <<>> ELSE Unsent(mutexTx)

\* After the connection is lost the missing bytes are not those a thread would send.
FramingInv ==
    \E f, missing :
        /\ FramesAfter(f) /\ missing \in Seq(Nat)
        /\ f[Len(delivered)] = (Begun \o wire) \o missing
        /\ ~broken => missing = ToSend

StreamTypeOK ==
    /\ accepted \in Seq(Payloads) /\ delivered \in Seq(Payloads)
    /\ Len(delivered) <= Len(accepted)
    /\ wire \in Seq(Nat) /\ received \in Seq(Nat)
    /\ packetLen \in Nat /\ isRxPacketLen \in BOOLEAN
    /\ mutexTx \in {"main", "reception", Threaded!NoThread}
    /\ pc \in [{"main", "reception"} -> {"idle", "lock", "length", "data"}]
    /\ packet \in [{"main", "reception"} -> Payloads \cup {<<>>}]
    /\ nSent \in [{"main", "reception"} -> Nat]

\* The mutex is held from the first byte of the length to the last one of the data.
SenderInv ==
    \A t \in {"main", "reception"} :
        /\ pc[t] # "idle" => packet[t] \in Payloads
        /\ pc[t] \in {"length", "data"} <=> mutexTx = t
        /\ mutexTx = t => nSent[t] < Len(Threaded!Buffer(t))

\* A receiver that has all it asked for has gone on.
ReceiverInv == Len(received) < IF isRxPacketLen THEN Threaded!LengthSize ELSE packetLen

\* A client with a thread has but one connection.
SessionInv ==
    /\ receptionThread = "none" => socketID = Threaded!NoSocket /\ ~connected
    /\ ~connected => mutexTx = Threaded!NoThread

ClientInv == StreamTypeOK /\ SenderInv /\ ReceiverInv /\ SessionInv /\ FramingInv

\* A sequence is what comes before a place and what comes after it.
LEMMA CutAt ==
    ASSUME NEW S, NEW s \in Seq(S), NEW m \in 0 .. Len(s), NEW n \in m .. Len(s)
    PROVE  /\ SubSeq(s, m + 1, n) \in Seq(S) /\ SubSeq(s, n + 1, Len(s)) \in Seq(S)
           /\ Len(SubSeq(s, m + 1, n)) = n - m
           /\ SubSeq(s, m + 1, n) \o SubSeq(s, n + 1, Len(s)) = SubSeq(s, m + 1, Len(s))
<1> DEFINE a == SubSeq(s, m + 1, n)
           b == SubSeq(s, n + 1, Len(s))
           c == SubSeq(s, m + 1, Len(s))
<1>1. /\ a \in Seq(S) /\ Len(a) = n - m /\ \A i \in 1 .. n - m : a[i] = s[m + i]
      /\ b \in Seq(S) /\ Len(b) = Len(s) - n /\ \A i \in 1 .. Len(s) - n : b[i] = s[n + i]
      /\ c \in Seq(S) /\ Len(c) = Len(s) - m /\ \A i \in 1 .. Len(s) - m : c[i] = s[m + i]
  OBVIOUS
<1> DEFINE ab == a \o b
<1> HIDE DEF a, b, c
<1>2. /\ ab \in Seq(S) /\ Len(ab) = Len(a) + Len(b)
      /\ \A i \in 1 .. Len(a) + Len(b) : ab[i] = IF i <= Len(a) THEN a[i] ELSE b[i - Len(a)]
  BY <1>1, ConcatProperties, ZenonT(60)
<1> HIDE DEF ab
<1>3. \A i \in 1 .. Len(ab) : ab[i] = c[i]
  <2>1. Len(s) \in Nat /\ m \in Nat /\ n \in Nat /\ m <= n /\ n <= Len(s)
    BY LenProperties
  <2>2. Len(ab) = Len(s) - m
    BY <1>1, <1>2, <2>1, SMTT(60)
  <2> SUFFICES ASSUME NEW i \in 1 .. Len(s) - m
               PROVE  ab[i] = c[i]
    BY <2>2
  <2>3. i \in 1 .. Len(a) + Len(b)
    BY <1>1, <2>1, SMTT(60)
  <2>4. ab[i] = IF i <= Len(a) THEN a[i] ELSE b[i - Len(a)]
    BY <1>2, <2>3
  <2>5. c[i] = s[m + i]
    BY <1>1
  <2>6. CASE i <= n - m
    <3>1. i \in 1 .. n - m /\ i <= Len(a)
      BY <1>1, <2>1, <2>6
    <3>2. a[i] = s[m + i]
      BY <1>1, <3>1
    <3> QED
      BY <2>4, <2>5, <3>1, <3>2
  <2>7. CASE i > n - m
    <3>1. i - (n - m) \in 1 .. Len(s) - n /\ n + (i - (n - m)) = m + i
      BY <2>1, <2>7
    <3>2. ab[i] = b[i - (n - m)]
      BY <1>1, <2>1, <2>7, <2>4
    <3>3. b[i - (n - m)] = s[n + (i - (n - m))]
      BY <1>1, <3>1
    <3> QED
      BY <2>5, <3>1, <3>2, <3>3
  <2> QED
    BY <2>1, <2>6, <2>7
<1>4. ab = c
  <2>1. Len(ab) = Len(c)
    BY <1>1, <1>2
  <2> QED
    BY <1>1, <1>2, <1>3, <2>1, SeqEqual
<1> QED
  BY <1>1, <1>4 DEF a, b, c, ab

\* Two ways to write a sequence in two parts, the first ones of the same length.
LEMMA SameParts ==
    ASSUME NEW S, NEW a \in Seq(S), NEW b \in Seq(S), NEW c \in Seq(S), NEW d \in Seq(S),
           a \o b = c \o d, Len(a) = Len(c)
    PROVE  a = c /\ b = d
<1> DEFINE ab == a \o b
           cd == c \o d
<1>1. /\ Len(ab) = Len(a) + Len(b)
      /\ \A i \in 1 .. Len(a) + Len(b) : ab[i] = IF i <= Len(a) THEN a[i] ELSE b[i - Len(a)]
      /\ Len(cd) = Len(c) + Len(d)
      /\ \A i \in 1 .. Len(c) + Len(d) : cd[i] = IF i <= Len(c) THEN c[i] ELSE d[i - Len(c)]
      /\ ab = cd
  BY ConcatProperties
<1> HIDE DEF ab, cd
<1>2. Len(a) \in Nat /\ Len(b) = Len(d) /\ Len(b) \in Nat
  BY <1>1
<1>3. ASSUME NEW i \in 1 .. Len(a)
      PROVE  a[i] = c[i]
  BY <1>1, <1>2
<1>4. ASSUME NEW i \in 1 .. Len(b)
      PROVE  b[i] = d[i]
  <2>1. Len(a) + i \in 1 .. Len(a) + Len(b) /\ ~(Len(a) + i <= Len(a)) /\ Len(a) + i - Len(a) = i
    BY <1>2
  <2>2. ab[Len(a) + i] = b[i] /\ cd[Len(a) + i] = d[i]
    BY <1>1, <1>2, <2>1, SMTT(60)
  <2> QED
    BY <1>1, <2>2
<1>5. a = c
  BY <1>3, SeqEqual
<1>6. b = d
  BY <1>2, <1>4, SeqEqual
<1> QED
  BY <1>5, <1>6

\* The bytes of a length say which length it is.
LEMMA LengthDigits ==
    ASSUME NEW l \in Nat
    PROVE  /\ Threaded!NetworkOrder(l) \in Seq(Nat) /\ Len(Threaded!NetworkOrder(l)) = Threaded!LengthSize
           /\ Threaded!FromNetworkOrder(Threaded!NetworkOrder(l)) = l
           /\ \A m \in Nat : Threaded!NetworkOrder(l) = Threaded!NetworkOrder(m) => l = m
<1>1. \A m \in Nat : /\ m \div 4 \in Nat /\ m % 4 \in Nat
                     /\ (m \div 4) * 4 + (m % 4) = m
  OBVIOUS
<1>2. \A m \in Nat : /\ Threaded!NetworkOrder(m) = <<m \div 4, m % 4>>
                     /\ Threaded!NetworkOrder(m)[1] = m \div 4
                     /\ Threaded!NetworkOrder(m)[2] = m % 4
  BY DEF Threaded!NetworkOrder, Threaded!Base
<1>3. Threaded!NetworkOrder(l) \in Seq(Nat) /\ Len(Threaded!NetworkOrder(l)) = 2
  <2>1. \A a, b \in Nat : <<a, b>> \in Seq(Nat) /\ Len(<<a, b>>) = 2
    OBVIOUS
  <2> QED
    BY <1>1, <1>2, <2>1, ZenonT(60)
<1>4. Threaded!FromNetworkOrder(Threaded!NetworkOrder(l)) = l
  BY <1>1, <1>2 DEF Threaded!FromNetworkOrder, Threaded!Base
<1>5. ASSUME NEW m \in Nat, Threaded!NetworkOrder(l) = Threaded!NetworkOrder(m)
      PROVE  l = m
  <2>1. l \div 4 = m \div 4 /\ l % 4 = m % 4
    BY <1>2, <1>5
  <2> QED
    BY <1>1, <2>1
<1> QED
  BY <1>3, <1>4, <1>5 DEF Threaded!LengthSize

LEMMA PayloadIs ==
    ASSUME NEW p \in Payloads
    PROVE  /\ p \in Seq(Nat) /\ Len(p) \in Nat \ {0}
           /\ Frame(p) \in Seq(Nat)
           /\ Frame(p) = Threaded!NetworkOrder(Len(p)) \o p
<1>1. p \in Seq(0 .. Threaded!Base - 1) /\ Len(p) \in 1 .. Threaded!Base * Threaded!Base - 1
  BY ClientAssumptions DEF Threaded!StreamAssumption
<1>2. 0 .. Threaded!Base - 1 \subseteq Nat /\ 1 .. Threaded!Base * Threaded!Base - 1 \subseteq Nat \ {0}
  BY DEF Threaded!Base
<1>3. p \in Seq(Nat) /\ Len(p) \in Nat \ {0}
  BY <1>1, <1>2, SeqMonotonic
<1>4. Threaded!NetworkOrder(Len(p)) \in Seq(Nat)
  BY <1>3, LengthDigits
<1> QED
  BY <1>3, <1>4, ConcatProperties DEF Frame

\* Three parts may be joined in either order.
LEMMA JoinParts ==
    ASSUME NEW a \in Seq(Nat), NEW b \in Seq(Nat), NEW c \in Seq(Nat)
    PROVE  (a \o b) \o c = a \o (b \o c)
  BY ConcatAssociative, SMTT(60)

LEMMA Joined ==
    ASSUME NEW a \in Seq(Nat), NEW b \in Seq(Nat)
    PROVE  a \o b \in Seq(Nat)
  BY ConcatProperties

LEMMA BegunIs ==
    ASSUME StreamTypeOK
    PROVE  Begun \in Seq(Nat)
<1>1. Threaded!NetworkOrder(packetLen) \in Seq(Nat)
  BY LengthDigits DEF StreamTypeOK
<1> QED
  BY <1>1, ConcatProperties DEF StreamTypeOK, Begun

LEMMA BufferIs ==
    ASSUME StreamTypeOK, SenderInv, NEW t \in {"main", "reception"}, mutexTx = t
    PROVE  /\ Threaded!Buffer(t) \in Seq(Nat) /\ packet[t] \in Seq(Nat)
           /\ pc[t] \in {"length", "data"} /\ packet[t] \in Payloads
           /\ nSent[t] \in 0 .. Len(Threaded!Buffer(t)) - 1
           /\ Unsent(t) \in Seq(Nat) /\ ToSend = Unsent(t)
<1>1. pc[t] \in {"length", "data"} /\ packet[t] \in Payloads
  BY DEF SenderInv
<1>2. packet[t] \in Seq(Nat) /\ Len(packet[t]) \in Nat
  BY <1>1, PayloadIs
<1>3. Threaded!Buffer(t) \in Seq(Nat)
  BY <1>2, LengthDigits DEF Threaded!Buffer
<1>4. nSent[t] \in 0 .. Len(Threaded!Buffer(t)) - 1
  <2>1. nSent[t] \in Nat /\ nSent[t] < Len(Threaded!Buffer(t))
    BY DEF SenderInv, StreamTypeOK
  <2>2. Len(Threaded!Buffer(t)) \in Nat
    BY <1>3, LenProperties
  <2> QED
    BY <2>1, <2>2
<1>5. Unsent(t) \in Seq(Nat)
  <2> DEFINE rest == SubSeq(Threaded!Buffer(t), nSent[t] + 1, Len(Threaded!Buffer(t)))
             data == IF pc[t] = "length" THEN packet[t] ELSE <<>>
  <2>1. rest \in Seq(Nat)
    <3>1. Len(Threaded!Buffer(t)) \in nSent[t] .. Len(Threaded!Buffer(t))
      BY <1>4
    <3> QED
      BY <1>3, <1>4, <3>1, CutAt
  <2>2. data \in Seq(Nat)
    BY <1>2
  <2> QED
    BY <2>1, <2>2, ConcatProperties DEF Unsent
<1>6. ToSend = Unsent(t)
  BY DEF ToSend, Threaded!NoThread
<1> QED
  BY <1>1, <1>2, <1>3, <1>4, <1>5, <1>6

LEMMA ClientStarts == Threaded!Init => ClientInv
<1> SUFFICES ASSUME Threaded!Init PROVE ClientInv
  OBVIOUS
<1> USE DEF Threaded!Init, Threaded!StreamInit
<1>1. StreamTypeOK
  BY DEF StreamTypeOK
<1>2. SenderInv
  BY DEF SenderInv, Threaded!NoThread
<1>3. ReceiverInv
  BY DEF ReceiverInv, Threaded!LengthSize
<1>4. SessionInv
  BY DEF SessionInv
<1>5. FramingInv
  <2> DEFINE f == [j \in Nat |-> <<>>]
  <2>1. FramesAfter(f)
    BY DEF FramesAfter
  <2>2. f[Len(delivered)] = (Begun \o wire) \o <<>>
    BY DEF Begun
  <2>3. ~broken => <<>> = ToSend
    BY DEF ToSend
  <2> HIDE DEF f
  <2> QED
    BY <2>1, <2>2, <2>3, EmptySeq DEF FramingInv
<1> QED
  BY <1>1, <1>2, <1>3, <1>4, <1>5 DEF ClientInv

\* A step that leaves the stream alone.
LEMMA StreamStays ==
    ASSUME ClientInv, UNCHANGED Threaded!streamVars, SessionInv'
    PROVE  ClientInv'
<1> USE DEF Threaded!streamVars, Threaded!sendVars, Threaded!receiveVars
<1>1. StreamTypeOK'
  BY DEF ClientInv, StreamTypeOK
<1>2. SenderInv'
  BY DEF ClientInv, SenderInv, Threaded!Buffer
<1>3. ReceiverInv'
  BY DEF ClientInv, ReceiverInv
<1>4. FramingInv'
  BY ZenonT(60) DEF ClientInv, FramingInv, FramesAfter, Begun, ToSend, Unsent, Threaded!Buffer
<1> QED
  BY <1>1, <1>2, <1>3, <1>4 DEF ClientInv

LEMMA CallsPreserve ==
    ASSUME ClientInv, Threaded!ConnectFails \/ Threaded!Close \/ Threaded!ThreadEnds
    PROVE  ClientInv' /\ UNCHANGED Threaded!streamVars
<1>1. /\ UNCHANGED Threaded!streamVars
      /\ (receptionThread' = "none" => receptionThread = "none")
      /\ UNCHANGED socketID
  BY DEF ClientInv, SessionInv, Threaded!ConnectFails, Threaded!Close, Threaded!ThreadEnds, Threaded!HasThread
<1>2. SessionInv'
  BY <1>1 DEF ClientInv, SessionInv, Threaded!streamVars, Threaded!sendVars
<1> QED
  BY <1>1, <1>2, StreamStays

LEMMA ConnectPreserves ==
    ASSUME ClientInv, Threaded!Connect
    PROVE  /\ ClientInv'
           /\ ~connected /\ connected' /\ ~broken' /\ accepted' = <<>> /\ delivered' = <<>>
<1> USE DEF Threaded!Connect, Threaded!NewStream, Threaded!sendVars
<1>1. ~connected /\ mutexTx = Threaded!NoThread
  BY DEF ClientInv, SessionInv, Threaded!MayConnect, Threaded!HasThread
<1>2. StreamTypeOK'
  BY DEF ClientInv, StreamTypeOK
<1>3. SenderInv'
  BY DEF ClientInv, SenderInv, Threaded!Buffer
<1>4. ReceiverInv'
  BY DEF ReceiverInv, Threaded!LengthSize
<1>5. SessionInv'
  BY DEF SessionInv
<1>6. FramingInv'
  <2> DEFINE f == [j \in Nat |-> <<>>]
  <2>1. FramesAfter(f)'
    BY DEF FramesAfter
  <2>2. f[Len(delivered')] = (Begun' \o wire') \o <<>>
    BY DEF Begun
  <2>3. ToSend' = <<>>
    BY <1>1 DEF ToSend
  <2> HIDE DEF f
  <2> QED
    BY <2>1, <2>2, <2>3, EmptySeq DEF FramingInv
<1> QED
  BY <1>1, <1>2, <1>3, <1>4, <1>5, <1>6 DEF ClientInv

LEMMA CallSendPreserves ==
    ASSUME ClientInv, NEW t \in {"main", "reception"}, Threaded!CallSend(t), UNCHANGED Threaded!clientVars
    PROVE  ClientInv' /\ UNCHANGED <<accepted, delivered, connected, broken>>
<1> USE DEF Threaded!CallSend, Threaded!clientVars, Threaded!receiveVars
<1>1. PICK p \in Payloads : packet' = [packet EXCEPT ![t] = p]
  OBVIOUS
<1>2. StreamTypeOK'
  BY <1>1 DEF ClientInv, StreamTypeOK
<1>3. mutexTx # t
  BY DEF ClientInv, SenderInv
<1>4. \A u \in {"main", "reception"} : u # t => /\ pc'[u] = pc[u] /\ packet'[u] = packet[u]
                                               /\ Threaded!Buffer(u)' = Threaded!Buffer(u)
  BY <1>1 DEF ClientInv, StreamTypeOK, Threaded!Buffer
<1>5. pc'[t] = "lock" /\ packet'[t] = p
  BY <1>1 DEF ClientInv, StreamTypeOK
<1>6. SenderInv'
  <2> SUFFICES ASSUME NEW u \in {"main", "reception"}
               PROVE  /\ pc'[u] # "idle" => packet'[u] \in Payloads
                      /\ pc'[u] \in {"length", "data"} <=> mutexTx' = u
                      /\ mutexTx' = u => nSent'[u] < Len(Threaded!Buffer(u)')
    BY DEF SenderInv
  <2> QED
    BY <1>3, <1>4, <1>5 DEF ClientInv, SenderInv
<1>7. ReceiverInv' /\ SessionInv'
  BY DEF ClientInv, ReceiverInv, SessionInv
<1>8. ToSend' = ToSend
  <2>1. CASE mutexTx = Threaded!NoThread
    BY <2>1 DEF ToSend
  <2>2. CASE mutexTx # Threaded!NoThread
    <3>1. mutexTx \in {"main", "reception"}
      BY <2>2 DEF ClientInv, StreamTypeOK
    <3>2. Unsent(mutexTx)' = Unsent(mutexTx)
      BY <1>3, <1>4, <3>1 DEF Unsent
    <3> QED
      BY <2>2, <3>2 DEF ToSend
  <2> QED
    BY <2>1, <2>2
<1>9. FramingInv'
  BY <1>8 DEF ClientInv, FramingInv, FramesAfter, Begun
<1> QED
  BY <1>2, <1>6, <1>7, <1>9 DEF ClientInv

LEMMA FrameAppended ==
    ASSUME StreamTypeOK, NEW f, FramesAfter(f), NEW p \in Payloads,
           accepted' = Append(accepted, p), delivered' = delivered
    PROVE  \E g : /\ FramesAfter(g)'
                  /\ g[Len(delivered')] = f[Len(delivered)] \o Frame(p)
<1> DEFINE n == Len(accepted)
<1>1. /\ n \in Nat /\ Len(delivered) \in Nat /\ Len(delivered) <= n
      /\ Len(accepted') = n + 1 /\ accepted'[n + 1] = p
      /\ \A j \in 1 .. n : accepted'[j] = accepted[j] /\ accepted[j] \in Payloads
  BY DEF StreamTypeOK
<1>2. Frame(p) \in Seq(Nat) /\ \A j \in Nat : f[j] \in Seq(Nat)
  BY PayloadIs DEF FramesAfter
<1>3. PICK g :
         /\ g \in [Nat -> Seq(Nat)]
         /\ \A j \in Nat : j <= n => g[j] = f[j] \o Frame(p)
         /\ g[n + 1] = <<>>
  <2> DEFINE h == [j \in Nat |-> IF j <= n THEN f[j] \o Frame(p) ELSE <<>>]
  <2>1. h \in [Nat -> Seq(Nat)]
    BY <1>2, ConcatProperties, EmptySeq
  <2>2. /\ \A j \in Nat : j <= n => h[j] = f[j] \o Frame(p)
        /\ h[n + 1] = <<>>
    BY <1>1
  <2> QED
    BY <2>1, <2>2
<1>5. ASSUME NEW j \in 1 .. n + 1, j > Len(delivered)
      PROVE  g[j - 1] = Frame(accepted'[j]) \o g[j]
  <2>1. CASE j = n + 1
    <3>1. j - 1 = n /\ n <= n
      BY <1>1, <2>1
    <3>2. g[n] = <<>> \o Frame(p)
      BY <1>1, <1>3, <3>1 DEF FramesAfter
    <3>3. <<>> \o Frame(p) = Frame(p) /\ Frame(p) \o <<>> = Frame(p)
      BY <1>2, ConcatEmptySeq
    <3> QED
      BY <1>1, <1>3, <2>1, <3>1, <3>2, <3>3
  <2>2. CASE j <= n
    <3>1. j \in 1 .. n /\ j - 1 \in Nat /\ j - 1 <= n /\ j \in Nat
      BY <1>1, <2>2
    <3>2. g[j - 1] = (Frame(accepted[j]) \o f[j]) \o Frame(p)
      BY <1>3, <1>5, <3>1 DEF FramesAfter
    <3>3. Frame(accepted[j]) \in Seq(Nat) /\ f[j] \in Seq(Nat)
      BY <1>1, <1>2, <3>1, PayloadIs
    <3>4. g[j - 1] = Frame(accepted[j]) \o (f[j] \o Frame(p))
      <4>1. (Frame(accepted[j]) \o f[j]) \o Frame(p) = Frame(accepted[j]) \o (f[j] \o Frame(p))
        BY <1>2, <3>3, JoinParts, ZenonT(60)
      <4> QED
        BY <3>2, <4>1
    <3> QED
      BY <1>1, <1>3, <2>2, <3>1, <3>4
  <2>3. j = n + 1 \/ j <= n
    BY <1>1
  <2> QED
    BY <2>1, <2>2, <2>3
<1>6. FramesAfter(g)'
  BY <1>1, <1>3, <1>5 DEF FramesAfter
<1>7. g[Len(delivered')] = f[Len(delivered)] \o Frame(p)
  BY <1>1, <1>3
<1> QED
  BY <1>6, <1>7

LEMMA LockPreserves ==
    ASSUME ClientInv, NEW t \in {"main", "reception"}, Threaded!Lock(t), UNCHANGED Threaded!clientVars
    PROVE  /\ ClientInv'
           /\ UNCHANGED <<delivered, connected, broken>>
           /\ \/ UNCHANGED accepted
              \/ connected /\ ~broken /\ packet[t] \in Payloads /\ accepted' = Append(accepted, packet[t])
<1> USE DEF Threaded!clientVars, Threaded!receiveVars
<1>1. /\ pc[t] = "lock" /\ mutexTx = Threaded!NoThread
      /\ UNCHANGED <<connected, broken, packet, wire, isRxPacketLen, received, packetLen, delivered>>
      /\ UNCHANGED <<socketID, receptionThread>>
  BY DEF Threaded!Lock, Threaded!MutexIsFree
<1>2. packet[t] \in Payloads /\ Threaded!NoThread = "none"
  BY <1>1 DEF ClientInv, SenderInv, Threaded!NoThread
<1>3. ToSend = <<>>
  BY <1>1 DEF ToSend
<1>4. ReceiverInv'
  BY <1>1 DEF ClientInv, ReceiverInv
<1>5. \A u \in {"main", "reception"} : mutexTx # u
  BY <1>1, <1>2
<1>6. CASE ~connected
  <2>1. /\ mutexTx' = Threaded!NoThread /\ pc' = [pc EXCEPT ![t] = "idle"]
        /\ UNCHANGED <<nSent, accepted>>
    BY <1>6 DEF Threaded!Lock, Threaded!Return
  <2>2. StreamTypeOK' /\ SenderInv' /\ SessionInv'
    BY <1>1, <1>2, <1>5, <2>1 DEF ClientInv, StreamTypeOK, SenderInv, SessionInv
  <2>3. ToSend' = <<>>
    BY <2>1 DEF ToSend
  <2>4. FramingInv'
    BY <1>1, <1>3, <2>1, <2>3 DEF ClientInv, FramingInv, FramesAfter, Begun
  <2> QED
    BY <1>1, <1>4, <2>1, <2>2, <2>4 DEF ClientInv
<1>7. CASE connected
  <2>1. /\ mutexTx' = t /\ pc' = [pc EXCEPT ![t] = "length"] /\ nSent' = [nSent EXCEPT ![t] = 0]
        /\ accepted' = IF broken THEN accepted ELSE Append(accepted, packet[t])
    BY <1>7 DEF Threaded!Lock
  <2>2. StreamTypeOK'
    <3>1. accepted' \in Seq(Payloads) /\ Len(accepted') >= Len(accepted)
      BY <1>2, <2>1 DEF ClientInv, StreamTypeOK
    <3> QED
      BY <1>1, <2>1, <3>1 DEF ClientInv, StreamTypeOK
  <2>3. pc'[t] = "length" /\ nSent'[t] = 0 /\ packet'[t] = packet[t]
    BY <1>1, <2>1 DEF ClientInv, StreamTypeOK
  <2>4. \A u \in {"main", "reception"} : u # t => pc'[u] = pc[u]
    BY <2>1 DEF ClientInv, StreamTypeOK
  <2>5. /\ packet[t] \in Seq(Nat)
        /\ Threaded!Buffer(t)' = Threaded!NetworkOrder(Len(packet[t]))
        /\ Threaded!Buffer(t)' \in Seq(Nat) /\ Len(Threaded!Buffer(t)') = 2
    BY <1>2, <2>3, PayloadIs, LengthDigits DEF Threaded!Buffer, Threaded!LengthSize
  <2>6. SenderInv'
    <3> SUFFICES ASSUME NEW u \in {"main", "reception"}
                 PROVE  /\ pc'[u] # "idle" => packet'[u] \in Payloads
                        /\ pc'[u] \in {"length", "data"} <=> mutexTx' = u
                        /\ mutexTx' = u => nSent'[u] < Len(Threaded!Buffer(u)')
      BY DEF SenderInv
    <3>1. CASE u = t
      <4>1. pc'[u] = "length" /\ nSent'[u] = 0 /\ packet'[u] \in Payloads /\ mutexTx' = u
        BY <1>2, <2>1, <2>3, <3>1
      <4>2. Len(Threaded!Buffer(u)') = 2
        BY <2>5, <3>1, Zenon
      <4>3. nSent'[u] < Len(Threaded!Buffer(u)')
        BY <4>1, <4>2
      <4>4. pc'[u] \in {"length", "data"} <=> mutexTx' = u
        BY <4>1
      <4> QED
        BY <4>1, <4>3, <4>4
    <3>2. CASE u # t
      BY <1>1, <1>5, <2>1, <2>4, <3>2 DEF ClientInv, SenderInv
    <3> QED
      BY <3>1, <3>2
  <2>7. SessionInv'
    BY <1>1, <1>7 DEF ClientInv, SessionInv
  <2>8. FramingInv'
    <3>1. PICK f, missing :
             /\ FramesAfter(f) /\ missing \in Seq(Nat)
             /\ f[Len(delivered)] = (Begun \o wire) \o missing
             /\ ~broken => missing = <<>>
      BY <1>3 DEF ClientInv, FramingInv
    <3>2. Begun' = Begun
      BY <1>1 DEF Begun
    <3>3. CASE broken
      BY <1>1, <2>1, <3>1, <3>2, <3>3 DEF FramingInv, FramesAfter
    <3>4. CASE ~broken
      <4>1. PICK g : /\ FramesAfter(g)'
                     /\ g[Len(delivered')] = f[Len(delivered)] \o Frame(packet[t])
        BY <1>1, <1>2, <2>1, <3>1, <3>4, FrameAppended DEF ClientInv
      <4>2. g[Len(delivered')] = (Begun' \o wire') \o Frame(packet[t])
        <5>1. Begun \o wire \in Seq(Nat)
          BY BegunIs, ConcatProperties DEF ClientInv, StreamTypeOK
        <5>2. (Begun \o wire) \o missing = Begun \o wire
          BY <3>1, <3>4, <5>1, ConcatEmptySeq
        <5> QED
          BY <1>1, <3>1, <3>2, <4>1, <5>2
      <4>3. ToSend' = Frame(packet[t])
        <5>1. ToSend' = Unsent(t)'
          BY <1>2, <2>1 DEF ToSend
        <5>2. SubSeq(Threaded!Buffer(t)', 0 + 1, Len(Threaded!Buffer(t)')) = Threaded!Buffer(t)'
          BY <2>5, SubSeqFull
        <5> QED
          BY <2>3, <2>5, <5>1, <5>2 DEF Unsent, Frame
      <4>4. Frame(packet[t]) \in Seq(Nat)
        BY <1>2, PayloadIs
      <4> QED
        BY <4>1, <4>2, <4>3, <4>4 DEF FramingInv
    <3> QED
      BY <3>3, <3>4
  <2>9. UNCHANGED accepted \/ (~broken /\ accepted' = Append(accepted, packet[t]))
    BY <2>1
  <2> QED
    BY <1>1, <1>2, <1>4, <1>7, <2>2, <2>6, <2>7, <2>8, <2>9 DEF ClientInv
<1> QED
  BY <1>6, <1>7

\* A step of the thread that holds the mutex moves bytes from what it has to send to the wire.
LEMMA SendBytesPreserves ==
    ASSUME ClientInv, NEW t \in {"main", "reception"}, Threaded!SendBytes(t), UNCHANGED Threaded!clientVars
    PROVE  ClientInv' /\ UNCHANGED <<accepted, delivered, connected, broken>>
<1> USE DEF Threaded!clientVars, Threaded!receiveVars
<1> DEFINE buffer == Threaded!Buffer(t)
           from == nSent[t]
<1>1. /\ pc[t] \in {"length", "data"} /\ ~broken
      /\ UNCHANGED <<connected, broken, packet, isRxPacketLen, received, packetLen, accepted, delivered>>
      /\ UNCHANGED <<socketID, receptionThread>>
  BY DEF Threaded!SendBytes
<1>2. mutexTx = t
  BY <1>1 DEF ClientInv, SenderInv
<1>3. /\ buffer \in Seq(Nat) /\ packet[t] \in Seq(Nat) /\ packet[t] \in Payloads
      /\ from \in 0 .. Len(buffer) - 1 /\ Len(buffer) \in Nat
      /\ ToSend = SubSeq(buffer, from + 1, Len(buffer)) \o (IF pc[t] = "length" THEN packet[t] ELSE <<>>)
  BY <1>2, BufferIs, LenProperties DEF ClientInv, Unsent
<1>4. PICK n \in 1 .. WireSize :
         /\ n <= Len(buffer) - from
         /\ wire' = wire \o SubSeq(buffer, from + 1, from + n)
         /\ IF from + n < Len(buffer)
            THEN nSent' = [nSent EXCEPT ![t] = @ + n] /\ UNCHANGED <<mutexTx, pc, result>>
            ELSE /\ nSent' = [nSent EXCEPT ![t] = 0]
                 /\ \/ pc[t] = "length" /\ pc' = [pc EXCEPT ![t] = "data"] /\ UNCHANGED <<mutexTx, result>>
                    \/ pc[t] = "data" /\ Threaded!Return(t, "NO_ERROR")
  BY DEF Threaded!SendBytes
<1> HIDE DEF buffer, from
<1>5. n \in Nat \ {0} /\ from + n \in from .. Len(buffer)
  <2>1. WireSize \in Nat
    BY ClientAssumptions DEF Threaded!StreamAssumption
  <2> QED
    BY <1>3, <1>4, <2>1
<1> DEFINE sent == SubSeq(buffer, from + 1, from + n)
           rest == SubSeq(buffer, from + n + 1, Len(buffer))
           data == IF pc[t] = "length" THEN packet[t] ELSE <<>>
<1>6. /\ sent \in Seq(Nat) /\ rest \in Seq(Nat) /\ data \in Seq(Nat)
      /\ sent \o rest = SubSeq(buffer, from + 1, Len(buffer))
  <2>1. from \in 0 .. Len(buffer) /\ from + n \in from .. Len(buffer)
    BY <1>3, <1>5
  <2>2. /\ sent \in Seq(Nat) /\ rest \in Seq(Nat)
        /\ sent \o rest = SubSeq(buffer, from + 1, Len(buffer))
    BY <1>3, <2>1, CutAt, Zenon
  <2> QED
    BY <1>3, <2>2, SMTT(60)
<1>7. wire' = wire \o sent /\ ToSend = SubSeq(buffer, from + 1, Len(buffer)) \o data
  BY <1>3, <1>4
<1> HIDE DEF sent, rest, data
<1>8. ToSend = sent \o (rest \o data)
  <2>1. (sent \o rest) \o data = sent \o (rest \o data)
    BY <1>6, JoinParts, ZenonT(60)
  <2> QED
    BY <1>6, <1>7, <2>1
<1>9. ReceiverInv' /\ SessionInv'
  <2>1. mutexTx' \in {t, Threaded!NoThread} /\ (mutexTx' = mutexTx \/ mutexTx' = Threaded!NoThread)
    BY <1>2, <1>4 DEF Threaded!Return
  <2> QED
    BY <1>1, <2>1 DEF ClientInv, ReceiverInv, SessionInv
<1>10. ASSUME NEW left \in Seq(Nat), ToSend = sent \o left, ToSend' = left
       PROVE  FramingInv'
  <2>1. PICK f : /\ FramesAfter(f)
                 /\ f[Len(delivered)] = (Begun \o wire) \o ToSend
    BY <1>1 DEF ClientInv, FramingInv
  <2>2. Begun' = Begun /\ Begun \in Seq(Nat) /\ wire \in Seq(Nat)
    BY <1>1, BegunIs DEF Begun, ClientInv, StreamTypeOK
  <2>3. f[Len(delivered)] = (Begun \o (wire \o sent)) \o left
    <3>1. Begun \o wire \in Seq(Nat)
      BY <2>2, Joined
    <3>2. ((Begun \o wire) \o sent) \o left = (Begun \o wire) \o (sent \o left)
      BY <1>6, <1>10, <3>1, JoinParts, ZenonT(60)
    <3>3. (Begun \o wire) \o sent = Begun \o (wire \o sent)
      BY <1>6, <2>2, JoinParts, ZenonT(60)
    <3> QED
      BY <1>10, <2>1, <3>2, <3>3
  <2>4. FramesAfter(f)'
    BY <1>1, <2>1 DEF FramesAfter
  <2>5. f[Len(delivered')] = (Begun' \o wire') \o left
    BY <1>1, <1>7, <2>2, <2>3
  <2> QED
    BY <1>10, <2>4, <2>5 DEF FramingInv
<1>11. wire' \in Seq(Nat)
  BY <1>6, <1>7, ConcatProperties DEF ClientInv, StreamTypeOK
<1>12. \A u \in {"main", "reception"} :
         u # t => /\ mutexTx # u
                  /\ pc[u] # "idle" => packet[u] \in Payloads
                  /\ pc[u] \notin {"length", "data"}
  BY <1>2 DEF ClientInv, SenderInv
<1>13. CASE from + n < Len(buffer)
  <2>1. nSent' = [nSent EXCEPT ![t] = @ + n] /\ mutexTx' = t /\ pc' = pc
    BY <1>2, <1>4, <1>13
  <2>2. nSent'[t] = from + n /\ from \in Nat
    BY <2>1 DEF ClientInv, StreamTypeOK, from
  <2>3. StreamTypeOK'
    BY <1>1, <1>2, <1>5, <1>11, <2>1 DEF ClientInv, StreamTypeOK
  <2>4. Threaded!Buffer(t)' = buffer
    BY <1>1, <2>1 DEF Threaded!Buffer, buffer
  <2>5. SenderInv'
    <3> SUFFICES ASSUME NEW u \in {"main", "reception"}
                 PROVE  /\ pc'[u] # "idle" => packet'[u] \in Payloads
                        /\ pc'[u] \in {"length", "data"} <=> mutexTx' = u
                        /\ mutexTx' = u => nSent'[u] < Len(Threaded!Buffer(u)')
      BY DEF SenderInv
    <3>1. mutexTx' = u => nSent'[u] < Len(Threaded!Buffer(u)')
      <4>1. nSent'[t] < Len(Threaded!Buffer(t)')
        BY <1>13, <2>2, <2>4
      <4>2. SUFFICES ASSUME u = t PROVE nSent'[u] < Len(Threaded!Buffer(u)')
        BY <2>1
      <4> QED
        BY <4>1, <4>2, Zenon
    <3>2. /\ pc'[u] # "idle" => packet'[u] \in Payloads
          /\ pc'[u] \in {"length", "data"} <=> mutexTx' = u
      BY <1>1, <1>2, <2>1 DEF ClientInv, SenderInv
    <3> QED
      BY <3>1, <3>2
  <2>6. ToSend' = rest \o data
    <3>1. ToSend' = Unsent(t)'
      BY <2>1 DEF ToSend, Threaded!NoThread
    <3> QED
      BY <1>1, <2>1, <2>2, <2>4, <3>1 DEF Unsent, rest, data, buffer
  <2>7. FramingInv'
    BY <1>6, <1>8, <1>10, <2>6, ConcatProperties
  <2> QED
    BY <1>1, <1>9, <2>3, <2>5, <2>7 DEF ClientInv
<1>14. CASE ~(from + n < Len(buffer))
  <2>1. rest = <<>> /\ rest \o data = data
    <3>1. from + n = Len(buffer)
      BY <1>3, <1>5, <1>14
    <3>2. rest = <<>>
      BY <1>3, <3>1, SubSeqEmpty DEF rest
    <3> QED
      BY <1>6, <3>2, ConcatEmptySeq
  <2>2. nSent' = [nSent EXCEPT ![t] = 0]
    BY <1>4, <1>14
  <2>3. CASE pc[t] = "length"
    <3>1. pc' = [pc EXCEPT ![t] = "data"] /\ mutexTx' = t
      BY <1>2, <1>4, <1>14, <2>3
    <3>2. pc'[t] = "data" /\ nSent'[t] = 0 /\ packet'[t] = packet[t]
      BY <1>1, <2>2, <3>1 DEF ClientInv, StreamTypeOK
    <3>3. Threaded!Buffer(t)' = packet[t] /\ Len(packet[t]) > 0
      <4>1. Len(packet[t]) \in Nat \ {0}
        BY <1>3, PayloadIs
      <4> QED
        BY <3>2, <4>1 DEF Threaded!Buffer, buffer
    <3>4. StreamTypeOK'
      BY <1>1, <1>2, <1>11, <2>2, <3>1 DEF ClientInv, StreamTypeOK
    <3>5. SenderInv'
      <4> SUFFICES ASSUME NEW u \in {"main", "reception"}
                   PROVE  /\ pc'[u] # "idle" => packet'[u] \in Payloads
                          /\ pc'[u] \in {"length", "data"} <=> mutexTx' = u
                          /\ mutexTx' = u => nSent'[u] < Len(Threaded!Buffer(u)')
        BY DEF SenderInv
      <4>1. CASE u = t
        <5>1. nSent'[t] < Len(Threaded!Buffer(t)')
          BY <3>2, <3>3
        <5>2. nSent'[u] < Len(Threaded!Buffer(u)')
          BY <4>1, <5>1, Zenon
        <5>3. pc'[u] = "data" /\ mutexTx' = u /\ packet'[u] \in Payloads
          BY <1>3, <3>1, <3>2, <4>1
        <5>4. pc'[u] \in {"length", "data"} <=> mutexTx' = u
          BY <5>3
        <5> QED
          BY <5>2, <5>3, <5>4
      <4>2. CASE u # t
        <5>1. pc'[u] = pc[u] /\ packet'[u] = packet[u] /\ mutexTx' # u
          BY <1>1, <3>1, <4>2 DEF ClientInv, StreamTypeOK
        <5> QED
          BY <1>12, <4>2, <5>1
      <4> QED
        BY <4>1, <4>2
    <3>6. ToSend' = data
      <4>1. ToSend' = Unsent(t)'
        BY <3>1 DEF ToSend, Threaded!NoThread
      <4>2. Unsent(t)' = SubSeq(packet[t], 0 + 1, Len(packet[t])) \o <<>>
        BY <3>2, <3>3 DEF Unsent
      <4>3. SubSeq(packet[t], 0 + 1, Len(packet[t])) = packet[t] /\ packet[t] \o <<>> = packet[t]
        BY <1>3, SubSeqFull, ConcatEmptySeq
      <4> QED
        BY <2>3, <4>1, <4>2, <4>3 DEF data
    <3>7. FramingInv'
      BY <1>6, <1>8, <1>10, <2>1, <3>6
    <3> QED
      BY <1>1, <1>9, <3>4, <3>5, <3>7 DEF ClientInv
  <2>4. CASE pc[t] = "data"
    <3>1. pc' = [pc EXCEPT ![t] = "idle"] /\ mutexTx' = Threaded!NoThread
      BY <1>4, <1>14, <2>4 DEF Threaded!Return
    <3>2. StreamTypeOK'
      BY <1>1, <1>11, <2>2, <3>1 DEF ClientInv, StreamTypeOK
    <3>3. SenderInv'
      <4> SUFFICES ASSUME NEW u \in {"main", "reception"}
                   PROVE  /\ pc'[u] # "idle" => packet'[u] \in Payloads
                          /\ pc'[u] \notin {"length", "data"} /\ mutexTx' # u
        BY DEF SenderInv
      <4>1. mutexTx' # u
        BY <3>1 DEF Threaded!NoThread
      <4>2. CASE u = t
        BY <3>1, <4>1, <4>2 DEF ClientInv, StreamTypeOK
      <4>3. CASE u # t
        <5>1. pc'[u] = pc[u] /\ packet'[u] = packet[u]
          BY <1>1, <3>1, <4>3 DEF ClientInv, StreamTypeOK
        <5> QED
          BY <1>12, <4>1, <4>3, <5>1
      <4> QED
        BY <4>2, <4>3
    <3>4. ToSend' = data
      BY <2>4, <3>1 DEF ToSend, data
    <3>5. FramingInv'
      BY <1>6, <1>8, <1>10, <2>1, <3>4
    <3> QED
      BY <1>1, <1>9, <3>2, <3>3, <3>5 DEF ClientInv
  <2> QED
    BY <1>1, <2>3, <2>4
<1> QED
  BY <1>13, <1>14

\* A thread gives up only when the connection is lost: its socket blocks.
LEMMA SendFailsPreserves ==
    ASSUME ClientInv, NEW t \in {"main", "reception"}, Threaded!SendFails(t), UNCHANGED Threaded!clientVars
    PROVE  ClientInv' /\ UNCHANGED <<accepted, delivered, connected, broken>>
<1> USE DEF Threaded!clientVars, Threaded!receiveVars
<1>1. /\ pc[t] \in {"length", "data"} /\ broken
      /\ UNCHANGED <<connected, broken, packet, nSent, wire, isRxPacketLen, received, packetLen,
                     accepted, delivered>>
      /\ UNCHANGED <<socketID, receptionThread>>
      /\ mutexTx' = Threaded!NoThread /\ pc' = [pc EXCEPT ![t] = "idle"]
  BY DEF Threaded!SendFails, Threaded!Return
<1>2. mutexTx = t
  BY <1>1 DEF ClientInv, SenderInv
<1>3. StreamTypeOK'
  BY <1>1 DEF ClientInv, StreamTypeOK
<1>4. SenderInv'
  <2> SUFFICES ASSUME NEW u \in {"main", "reception"}
               PROVE  /\ pc'[u] # "idle" => packet'[u] \in Payloads
                      /\ pc'[u] \notin {"length", "data"} /\ mutexTx' # u
    BY DEF SenderInv
  <2>1. mutexTx' # u
    BY <1>1 DEF Threaded!NoThread
  <2>2. CASE u = t
    BY <1>1, <2>1, <2>2 DEF ClientInv, StreamTypeOK
  <2>3. CASE u # t
    <3>1. pc'[u] = pc[u] /\ packet'[u] = packet[u] /\ mutexTx # u
      BY <1>1, <1>2, <2>3 DEF ClientInv, StreamTypeOK
    <3> QED
      BY <2>1, <3>1 DEF ClientInv, SenderInv
  <2> QED
    BY <2>2, <2>3
<1>5. ReceiverInv' /\ SessionInv'
  BY <1>1 DEF ClientInv, ReceiverInv, SessionInv
<1>6. FramingInv'
  BY <1>1 DEF ClientInv, FramingInv, FramesAfter, Begun
<1> QED
  BY <1>1, <1>3, <1>4, <1>5, <1>6 DEF ClientInv

\* When the connection is lost, the end of what was under way is missing.
LEMMA BreakPreserves ==
    ASSUME ClientInv, Threaded!Break, UNCHANGED Threaded!clientVars
    PROVE  /\ ClientInv'
           /\ connected /\ ~broken /\ broken' /\ UNCHANGED <<accepted, delivered, connected>>
<1> USE DEF Threaded!clientVars, Threaded!receiveVars, Threaded!sendVars
<1>1. /\ connected /\ ~broken /\ broken' = TRUE
      /\ UNCHANGED <<connected, mutexTx, pc, packet, nSent, isRxPacketLen, received, packetLen,
                     accepted, delivered, socketID, receptionThread>>
  BY DEF Threaded!Break
<1>2. PICK n \in 0 .. Len(wire) : wire' = SubSeq(wire, 1, n)
  BY SMTT(60) DEF Threaded!Break
<1> DEFINE lost == SubSeq(wire, n + 1, Len(wire))
<1>3. wire' \in Seq(Nat) /\ lost \in Seq(Nat) /\ wire = wire' \o lost
  <2>1. wire \in Seq(Nat) /\ Len(wire) \in Nat /\ n \in 0 .. Len(wire) /\ 0 \in 0 .. Len(wire)
    BY LenProperties DEF ClientInv, StreamTypeOK
  <2>2. /\ SubSeq(wire, 0 + 1, n) \in Seq(Nat) /\ lost \in Seq(Nat)
        /\ SubSeq(wire, 0 + 1, n) \o lost = SubSeq(wire, 0 + 1, Len(wire))
    BY <2>1, CutAt, Zenon
  <2>3. SubSeq(wire, 0 + 1, Len(wire)) = wire /\ SubSeq(wire, 0 + 1, n) = wire'
    BY <1>2, <2>1, SubSeqFull
  <2> HIDE DEF lost
  <2> QED
    BY <2>2, <2>3
<1> HIDE DEF lost
<1>4. StreamTypeOK'
  BY <1>1, <1>3 DEF ClientInv, StreamTypeOK
<1>5. SenderInv'
  BY <1>1 DEF ClientInv, SenderInv, Threaded!Buffer
<1>6. ReceiverInv' /\ SessionInv'
  BY <1>1 DEF ClientInv, ReceiverInv, SessionInv
<1>7. FramingInv'
  <2>1. PICK f, missing :
           /\ FramesAfter(f) /\ missing \in Seq(Nat)
           /\ f[Len(delivered)] = (Begun \o wire) \o missing
    BY DEF ClientInv, FramingInv
  <2>2. Begun' = Begun /\ Begun \in Seq(Nat)
    BY <1>1, BegunIs DEF Begun, ClientInv
  <2>3. lost \o missing \in Seq(Nat)
    BY <1>3, <2>1, ConcatProperties
  <2>4. f[Len(delivered)] = (Begun \o wire') \o (lost \o missing)
    <3>1. (Begun \o wire') \o lost = Begun \o (wire' \o lost)
      BY <1>3, <2>2, JoinParts, ZenonT(60)
    <3>2. Begun \o wire' \in Seq(Nat)
      BY <1>3, <2>2, Joined
    <3>3. ((Begun \o wire') \o lost) \o missing = (Begun \o wire') \o (lost \o missing)
      BY <1>3, <2>1, <3>2, JoinParts, ZenonT(60)
    <3> QED
      BY <1>3, <2>1, <3>1, <3>3
  <2>5. FramesAfter(f)'
    BY <1>1, <2>1 DEF FramesAfter
  <2> QED
    BY <1>1, <2>2, <2>3, <2>4, <2>5 DEF FramingInv
<1> QED
  BY <1>1, <1>4, <1>5, <1>6, <1>7 DEF ClientInv

\* A frame that has begun is that of the next packet.
LEMMA NextFrame ==
    ASSUME ClientInv, NEW f, FramesAfter(f), NEW digits \in Seq(Nat), NEW more \in Seq(Nat),
           f[Len(delivered)] = digits \o more, Len(digits) = Threaded!LengthSize
    PROVE  LET next == Len(delivered) + 1
               p == accepted[next]
           IN  /\ next \in 1 .. Len(accepted) /\ p \in Payloads
               /\ digits = Threaded!NetworkOrder(Len(p))
               /\ more = p \o f[next]
               /\ f[next] \in Seq(Nat)
<1> DEFINE k == Len(delivered)
           p == accepted[k + 1]
<1>1. k \in Nat /\ Len(accepted) \in Nat /\ k <= Len(accepted)
  BY DEF ClientInv, StreamTypeOK
<1>2. k # Len(accepted)
  <2>1. Len(digits \o more) = Len(digits) + Len(more) /\ Len(more) \in Nat
    BY ConcatProperties, LenProperties
  <2>2. digits \o more # <<>>
    BY <2>1, EmptySeq DEF Threaded!LengthSize
  <2> QED
    BY <2>2 DEF FramesAfter
<1>3. k + 1 \in 1 .. Len(accepted) /\ k + 1 > k /\ (k + 1) - 1 = k
  BY <1>1, <1>2
<1>4. p \in Payloads
  BY <1>3, ElementOfSeq DEF ClientInv, StreamTypeOK
<1>5. f[k] = Frame(p) \o f[k + 1]
  BY <1>3 DEF FramesAfter
<1>6. f[k + 1] \in Seq(Nat)
  BY <1>1 DEF FramesAfter
<1>7. /\ p \in Seq(Nat) /\ Threaded!NetworkOrder(Len(p)) \in Seq(Nat)
      /\ Len(Threaded!NetworkOrder(Len(p))) = Threaded!LengthSize
  BY <1>4, PayloadIs, LengthDigits
<1>8. f[k] = digits \o more
  OBVIOUS
<1> HIDE DEF k, p
<1> DEFINE order == Threaded!NetworkOrder(Len(p))
           later == f[k + 1]
<1>9. /\ order \in Seq(Nat) /\ p \in Seq(Nat) /\ later \in Seq(Nat)
      /\ Len(order) = Len(digits)
      /\ digits \o more = (order \o p) \o later
  BY <1>5, <1>6, <1>7, <1>8 DEF Frame
<1> HIDE DEF order, later
<1>10. digits = order /\ more = p \o later
  <2>1. (order \o p) \o later = order \o (p \o later)
    BY <1>9, JoinParts, ZenonT(60)
  <2>2. p \o later \in Seq(Nat)
    BY <1>9, Joined
  <2> QED
    BY <1>9, <2>1, <2>2, SameParts
<1> QED
  BY <1>3, <1>4, <1>6, <1>10 DEF k, p, order, later

LEMMA ReceiveEndsPreserves ==
    ASSUME ClientInv, Threaded!ReceiveEnds, UNCHANGED Threaded!clientVars
    PROVE  ClientInv' /\ UNCHANGED <<accepted, delivered, connected, broken>>
<1> USE DEF Threaded!ReceiveEnds, Threaded!clientVars, Threaded!sendVars
<1>1. StreamTypeOK' /\ SenderInv' /\ ReceiverInv' /\ SessionInv'
  BY DEF ClientInv, StreamTypeOK, SenderInv, ReceiverInv, SessionInv, Threaded!Buffer
<1>2. FramingInv'
  BY ZenonT(60) DEF ClientInv, FramingInv, FramesAfter, Begun, ToSend, Unsent, Threaded!Buffer
<1> QED
  BY <1>1, <1>2 DEF ClientInv

\* The receiver takes bytes from the wire; when it has a length it waits for so many bytes, and when
\* it has those they are the next packet.
LEMMA ReceiveBytesPreserves ==
    ASSUME ClientInv, Threaded!ReceiveBytes, UNCHANGED Threaded!clientVars
    PROVE  /\ ClientInv'
           /\ UNCHANGED <<accepted, connected, broken>>
           /\ \/ UNCHANGED delivered
              \/ /\ Len(delivered) + 1 \in 1 .. Len(accepted)
                 /\ delivered' = Append(delivered, accepted[Len(delivered) + 1])
<1> USE DEF Threaded!clientVars, Threaded!sendVars
<1>1. UNCHANGED <<connected, broken, mutexTx, pc, packet, nSent, accepted, socketID, receptionThread>>
  BY DEF Threaded!ReceiveBytes
<1>2. PICK n \in 1 .. WireSize :
         /\ n <= Threaded!RxCount /\ n <= Len(wire)
         /\ wire' = SubSeq(wire, n + 1, Len(wire))
         /\ LET bytes == received \o SubSeq(wire, 1, n)
            IN \/ /\ isRxPacketLen /\ Len(bytes) = Threaded!LengthSize
                  /\ packetLen' = Threaded!FromNetworkOrder(bytes)
                  /\ isRxPacketLen' = FALSE
                  /\ received' = <<>>
                  /\ UNCHANGED delivered
               \/ /\ ~isRxPacketLen /\ Len(bytes) = packetLen
                  /\ isRxPacketLen' = TRUE
                  /\ delivered' = Append(delivered, bytes)
                  /\ received' = <<>>
                  /\ UNCHANGED packetLen
               \/ /\ Len(bytes) # Threaded!BufferSize
                  /\ received' = bytes
                  /\ UNCHANGED <<isRxPacketLen, packetLen, delivered>>
  BY SMTT(60) DEF Threaded!ReceiveBytes, Threaded!NothingReceived
<1> DEFINE taken == SubSeq(wire, 1, n)
           bytes == received \o taken
           k == Len(delivered)
<1>3. n \in Nat /\ Len(wire) \in Nat /\ n \in 0 .. Len(wire) /\ wire \in Seq(Nat) /\ received \in Seq(Nat)
  <2>1. WireSize \in Nat /\ wire \in Seq(Nat) /\ received \in Seq(Nat)
    BY ClientAssumptions DEF Threaded!StreamAssumption, ClientInv, StreamTypeOK
  <2> QED
    BY <1>2, <2>1, LenProperties
<1>4. taken \in Seq(Nat) /\ wire' \in Seq(Nat) /\ Len(taken) = n /\ taken \o wire' = wire
  <2>1. 0 \in 0 .. Len(wire)
    BY <1>3
  <2>2. /\ SubSeq(wire, 0 + 1, n) \in Seq(Nat) /\ SubSeq(wire, n + 1, Len(wire)) \in Seq(Nat)
        /\ Len(SubSeq(wire, 0 + 1, n)) = n - 0
        /\ SubSeq(wire, 0 + 1, n) \o SubSeq(wire, n + 1, Len(wire)) = SubSeq(wire, 0 + 1, Len(wire))
    BY <1>3, <2>1, CutAt, ZenonT(60)
  <2>3. SubSeq(wire, 0 + 1, Len(wire)) = wire /\ SubSeq(wire, 0 + 1, n) = taken /\ n - 0 = n
    BY <1>3, SubSeqFull
  <2> QED
    BY <1>2, <2>2, <2>3
<1> HIDE DEF taken
<1>5. bytes \in Seq(Nat) /\ Len(bytes) = Len(received) + n /\ bytes \o wire' = received \o wire
  <2>1. (received \o taken) \o wire' = received \o (taken \o wire')
    BY <1>3, <1>4, JoinParts, ZenonT(60)
  <2> QED
    BY <1>3, <1>4, <2>1, ConcatProperties
<1>6. Len(bytes) <= Threaded!BufferSize /\ Len(received) \in Nat
  BY <1>2, <1>3, <1>5, LenProperties DEF Threaded!RxCount, Threaded!BufferSize, Threaded!LengthSize, ClientInv, StreamTypeOK
<1> HIDE DEF bytes
<1>7. SenderInv' /\ SessionInv'
  BY <1>1 DEF ClientInv, SenderInv, SessionInv, Threaded!Buffer
<1>8. PICK f, missing :
         /\ FramesAfter(f) /\ missing \in Seq(Nat)
         /\ f[k] = (Begun \o wire) \o missing
         /\ ~broken => missing = ToSend
  BY DEF ClientInv, FramingInv
<1>9. ToSend' = ToSend
  BY <1>1 DEF ToSend, Unsent, Threaded!Buffer
<1>10. wire' \o missing \in Seq(Nat)
  BY <1>4, <1>8, Joined
<1>11. CASE isRxPacketLen /\ Len(bytes) = Threaded!LengthSize
            /\ packetLen' = Threaded!FromNetworkOrder(bytes) /\ isRxPacketLen' = FALSE
            /\ received' = <<>> /\ UNCHANGED delivered
  <2>1. f[k] = bytes \o (wire' \o missing)
    <3>1. (bytes \o wire') \o missing = bytes \o (wire' \o missing)
      BY <1>4, <1>5, <1>8, JoinParts, ZenonT(60)
    <3> QED
      BY <1>5, <1>8, <1>11, <3>1 DEF Begun
  <2> DEFINE p == accepted[k + 1]
  <2>2. p \in Payloads /\ bytes = Threaded!NetworkOrder(Len(p))
    BY <1>5, <1>8, <1>10, <1>11, <2>1, NextFrame
  <2>3. Len(p) \in Nat \ {0} /\ packetLen' = Len(p)
    BY <1>11, <2>2, PayloadIs, LengthDigits
  <2>4. Begun' = bytes
    <3>1. Begun' = Threaded!NetworkOrder(Len(p)) \o <<>>
      BY <1>11, <2>3 DEF Begun
    <3> QED
      BY <1>5, <2>2, <3>1, ConcatEmptySeq
  <2>5. StreamTypeOK' /\ ReceiverInv'
    <3>1. packetLen' \in Nat /\ 0 < packetLen'
      BY <2>3
    <3>2. StreamTypeOK'
      <4>1. isRxPacketLen' = FALSE /\ received' = <<>> /\ delivered' = delivered
        BY <1>11
      <4>2. wire' \in Seq(Nat) /\ received' \in Seq(Nat) /\ isRxPacketLen' \in BOOLEAN
        BY <1>4, <4>1, EmptySeq
      <4>3. UNCHANGED <<accepted, delivered, mutexTx, pc, packet, nSent>>
        BY <1>1, <4>1
      <4> QED
        BY <3>1, <4>2, <4>3 DEF ClientInv, StreamTypeOK
    <3>3. ReceiverInv'
      BY <1>11, <3>1, EmptySeq DEF ReceiverInv
    <3> QED
      BY <3>2, <3>3
  <2>6. f[Len(delivered')] = (Begun' \o wire') \o missing
    <3>1. (bytes \o wire') \o missing = bytes \o (wire' \o missing)
      BY <1>4, <1>5, <1>8, JoinParts, ZenonT(60)
    <3> QED
      BY <1>11, <2>1, <2>4, <3>1
  <2>7. FramesAfter(f)'
    BY <1>1, <1>8, <1>11 DEF FramesAfter
  <2>8. FramingInv'
    BY <1>1, <1>8, <1>9, <2>6, <2>7 DEF FramingInv
  <2> QED
    BY <1>1, <1>7, <1>11, <2>5, <2>8 DEF ClientInv
<1>12. CASE ~isRxPacketLen /\ Len(bytes) = packetLen /\ isRxPacketLen' = TRUE
            /\ delivered' = Append(delivered, bytes) /\ received' = <<>> /\ UNCHANGED packetLen
  <2> DEFINE digits == Threaded!NetworkOrder(packetLen)
  <2>1. digits \in Seq(Nat) /\ Len(digits) = Threaded!LengthSize
    BY LengthDigits DEF ClientInv, StreamTypeOK
  <2>2. f[k] = digits \o (bytes \o (wire' \o missing)) /\ bytes \o (wire' \o missing) \in Seq(Nat)
    <3>1. Begun = digits \o received
      BY <1>12 DEF Begun
    <3> HIDE DEF digits
    <3>2. (digits \o received) \o wire = digits \o (received \o wire)
      BY <1>3, <2>1, JoinParts, ZenonT(60)
    <3>3. received \o wire \in Seq(Nat)
      BY <1>3, Joined
    <3>4. (digits \o (received \o wire)) \o missing = digits \o ((received \o wire) \o missing)
      BY <1>8, <2>1, <3>3, JoinParts, ZenonT(60)
    <3>5. (bytes \o wire') \o missing = bytes \o (wire' \o missing)
      BY <1>4, <1>5, <1>8, JoinParts, ZenonT(60)
    <3>6. bytes \o (wire' \o missing) \in Seq(Nat)
      BY <1>5, <1>10, Joined
    <3> QED
      BY <1>5, <1>8, <3>1, <3>2, <3>4, <3>5, <3>6
  <2> DEFINE p == accepted[k + 1]
  <2>3. /\ k + 1 \in 1 .. Len(accepted) /\ p \in Payloads
        /\ digits = Threaded!NetworkOrder(Len(p))
        /\ bytes \o (wire' \o missing) = p \o f[k + 1] /\ f[k + 1] \in Seq(Nat)
    BY <1>8, <2>1, <2>2, NextFrame
  <2>4. p \in Seq(Nat) /\ Len(p) \in Nat \ {0} /\ packetLen = Len(p)
    <3>1. p \in Seq(Nat) /\ Len(p) \in Nat \ {0}
      BY <2>3, PayloadIs
    <3> QED
      BY <2>3, <3>1, LengthDigits DEF ClientInv, StreamTypeOK
  <2>5. bytes = p /\ wire' \o missing = f[k + 1]
    <3> DEFINE later == f[k + 1]
               left == wire' \o missing
    <3>1. /\ bytes \in Seq(Nat) /\ left \in Seq(Nat) /\ p \in Seq(Nat) /\ later \in Seq(Nat)
          /\ bytes \o left = p \o later /\ Len(bytes) = Len(p)
      BY <1>5, <1>10, <1>12, <2>3, <2>4
    <3> HIDE DEF p, later, left
    <3>2. bytes = p /\ left = later
      BY <3>1, SameParts, ZenonT(60)
    <3> QED
      BY <3>2 DEF later, left
  <2>6. /\ delivered' \in Seq(Payloads) /\ Len(delivered') = k + 1 /\ Len(delivered') <= Len(accepted)
        /\ delivered' = Append(delivered, p)
    BY <1>12, <2>3, <2>5 DEF ClientInv, StreamTypeOK
  <2>7. StreamTypeOK' /\ ReceiverInv'
    BY <1>1, <1>4, <1>12, <2>6 DEF ClientInv, StreamTypeOK, ReceiverInv, Threaded!LengthSize
  <2>8. FramesAfter(f)'
    <3>1. k \in Nat /\ Len(accepted) \in Nat
      BY DEF ClientInv, StreamTypeOK
    <3>2. \A j \in 1 .. Len(accepted) : j > k + 1 => j > k
      BY <3>1
    <3> QED
      BY <1>1, <1>8, <2>6, <3>2 DEF FramesAfter
  <2>9. f[Len(delivered')] = (Begun' \o wire') \o missing
    <3>1. Begun' = <<>>
      BY <1>12 DEF Begun
    <3>2. <<>> \o wire' = wire'
      BY <1>4, ConcatEmptySeq
    <3> QED
      BY <2>5, <2>6, <3>1, <3>2
  <2>10. FramingInv'
    BY <1>1, <1>8, <1>9, <2>8, <2>9 DEF FramingInv
  <2> QED
    BY <1>1, <1>7, <2>3, <2>6, <2>7, <2>10 DEF ClientInv
<1>13. CASE Len(bytes) # Threaded!BufferSize /\ received' = bytes
            /\ UNCHANGED <<isRxPacketLen, packetLen, delivered>>
  <2>1. StreamTypeOK'
    BY <1>1, <1>4, <1>5, <1>13 DEF ClientInv, StreamTypeOK
  <2>2. ReceiverInv'
    <3>1. Len(bytes) < Threaded!BufferSize
      <4>1. Threaded!BufferSize \in Nat /\ Len(bytes) \in Nat
        BY <1>5, LenProperties DEF Threaded!BufferSize, Threaded!LengthSize, ClientInv, StreamTypeOK
      <4> QED
        BY <1>6, <1>13, <4>1
    <3> QED
      BY <1>13, <3>1 DEF ReceiverInv, Threaded!BufferSize
  <2>3. Begun' \o wire' = Begun \o wire
    <3>1. CASE isRxPacketLen
      BY <1>5, <1>13, <3>1 DEF Begun
    <3>2. CASE ~isRxPacketLen
      <4> DEFINE digits == Threaded!NetworkOrder(packetLen)
      <4>1. digits \in Seq(Nat)
        BY LengthDigits DEF ClientInv, StreamTypeOK
      <4>2. Begun' = digits \o bytes /\ Begun = digits \o received
        BY <1>13, <3>2 DEF Begun
      <4> HIDE DEF digits
      <4>3. (digits \o bytes) \o wire' = digits \o (bytes \o wire')
        BY <1>4, <1>5, <4>1, JoinParts, ZenonT(60)
      <4>4. (digits \o received) \o wire = digits \o (received \o wire)
        BY <1>3, <4>1, JoinParts, ZenonT(60)
      <4> QED
        BY <1>5, <4>2, <4>3, <4>4
    <3> QED
      BY <3>1, <3>2
  <2>4. FramesAfter(f)'
    BY <1>1, <1>8, <1>13 DEF FramesAfter
  <2>5. FramingInv'
    BY <1>1, <1>8, <1>9, <1>13, <2>3, <2>4 DEF FramingInv
  <2> QED
    BY <1>1, <1>7, <1>13, <2>1, <2>2, <2>5 DEF ClientInv
<1> QED
  BY <1>2, <1>11, <1>12, <1>13 DEF bytes, taken

\* Every step of the client keeps the invariant.
LEMMA ClientStep == ClientInv /\ [Threaded!Next]_Threaded!vars => ClientInv'
<1> SUFFICES ASSUME ClientInv, [Threaded!Next]_Threaded!vars PROVE ClientInv'
  OBVIOUS
<1>1. CASE Threaded!ConnectFails \/ Threaded!Close \/ Threaded!ThreadEnds
  BY <1>1, CallsPreserve
<1>2. CASE Threaded!Connect
  BY <1>2, ConnectPreserves
<1>3. CASE Threaded!Stream
  BY <1>3, CallSendPreserves, LockPreserves, SendBytesPreserves, SendFailsPreserves, BreakPreserves,
     ReceiveBytesPreserves, ReceiveEndsPreserves
     DEF Threaded!Stream, Threaded!SendStep
<1>4. CASE UNCHANGED Threaded!vars
  <2>1. UNCHANGED Threaded!streamVars /\ UNCHANGED <<socketID, receptionThread>>
    BY <1>4 DEF Threaded!vars, Threaded!clientVars
  <2>2. SessionInv'
    BY <2>1 DEF ClientInv, SessionInv, Threaded!streamVars, Threaded!sendVars
  <2> QED
    BY <2>1, <2>2, StreamStays
<1> QED
  BY <1>1, <1>2, <1>3, <1>4 DEF Threaded!Next

\* The packets after the k-th, when one is added and when the first of them is taken.
LEMMA QueueGrows ==
    ASSUME NEW s \in Seq(Payloads), NEW k \in Nat, k <= Len(s), NEW p \in Payloads
    PROVE  SubSeq(Append(s, p), k + 1, Len(Append(s, p))) = Append(SubSeq(s, k + 1, Len(s)), p)
<1> DEFINE n == Len(s)
           t == Append(s, p)
           u == SubSeq(t, k + 1, n + 1)
           v == SubSeq(s, k + 1, n)
<1>1. /\ n \in Nat /\ t \in Seq(Payloads) /\ Len(t) = n + 1
      /\ t[n + 1] = p /\ \A i \in 1 .. n : t[i] = s[i]
  OBVIOUS
<1> HIDE DEF n, t
<1>2. /\ v \in Seq(Payloads) /\ Len(v) = n - k /\ \A i \in 1 .. n - k : v[i] = s[k + i]
  BY <1>1 DEF n
<1>3. /\ u \in Seq(Payloads) /\ Len(u) = n + 1 - k /\ \A i \in 1 .. n + 1 - k : u[i] = t[k + i]
  BY <1>1 DEF n
<1> HIDE DEF u, v
<1>4. /\ Append(v, p) \in Seq(Payloads) /\ Len(Append(v, p)) = n - k + 1
      /\ Append(v, p)[n - k + 1] = p /\ \A i \in 1 .. n - k : Append(v, p)[i] = v[i]
  BY <1>2
<1>5. u = Append(v, p)
  <2>1. n \in Nat /\ k \in Nat /\ k <= n
    BY <1>1 DEF n
  <2>2. Len(u) = Len(Append(v, p))
    BY <1>3, <1>4, <2>1
  <2>3. ASSUME NEW i \in 1 .. Len(u)
        PROVE  u[i] = Append(v, p)[i]
    <3>1. i \in 1 .. n + 1 - k /\ u[i] = t[k + i]
      BY <1>3
    <3>2. CASE i = n - k + 1
      <4>1. k + i = n + 1
        BY <2>1, <3>2
      <4> QED
        BY <1>1, <1>4, <3>1, <3>2, <4>1
    <3>3. CASE i # n - k + 1
      <4>1. i \in 1 .. n - k /\ k + i \in 1 .. n
        BY <2>1, <3>1, <3>3
      <4> QED
        BY <1>1, <1>2, <1>4, <3>1, <4>1
    <3> QED
      BY <3>2, <3>3
  <2> QED
    BY <1>3, <1>4, <2>2, <2>3, SeqEqual
<1> QED
  BY <1>1, <1>5 DEF n, t, u, v

LEMMA QueueShrinks ==
    ASSUME NEW s \in Seq(Payloads), NEW k \in Nat, k + 1 \in 1 .. Len(s)
    PROVE  /\ SubSeq(s, k + 1, Len(s)) # <<>>
           /\ Head(SubSeq(s, k + 1, Len(s))) = s[k + 1]
           /\ Tail(SubSeq(s, k + 1, Len(s))) = SubSeq(s, k + 1 + 1, Len(s))
<1>1. Len(s) \in k + 1 .. Len(s) /\ Len(SubSeq(s, k + 1, Len(s))) # 0
  BY LenProperties
<1> QED
  BY <1>1, HeadTailOfSubSeq, EmptySeq

\* Every step of the client and the two handlers is one of the channel, or changes nothing there.
LEMMA ClientStepsAreChannelSteps ==
    ASSUME ClientInv, [Threaded!Next]_Threaded!vars
    PROVE  [Threaded!Channel!ChannelNext]_<<SubSeq(accepted, Len(delivered) + 1, Len(accepted)),
                                            delivered, connected /\ ~broken>>
<1> DEFINE queue == SubSeq(accepted, Len(delivered) + 1, Len(accepted))
           isOpen == connected /\ ~broken
<1>1. /\ accepted \in Seq(Payloads) /\ Len(delivered) \in Nat /\ Len(accepted) \in Nat
      /\ Len(delivered) <= Len(accepted)
  BY DEF ClientInv, StreamTypeOK
<1>2. ASSUME UNCHANGED <<accepted, delivered, connected, broken>>
      PROVE  UNCHANGED <<queue, delivered, isOpen>>
  BY <1>2
<1>3. CASE Threaded!Connect
  <2>1. ~connected /\ connected' /\ ~broken' /\ accepted' = <<>> /\ delivered' = <<>>
    BY <1>3, ConnectPreserves
  <2>2. queue' = <<>>
    BY <2>1, SubSeqEmpty
  <2>3. Threaded!Channel!Open
    BY <1>3, <2>1, <2>2 DEF Threaded!Channel!Open
  <2> QED
    BY <2>3 DEF Threaded!Channel!ChannelNext
<1>4. CASE Threaded!ConnectFails \/ Threaded!Close \/ Threaded!ThreadEnds
  <2>1. UNCHANGED <<accepted, delivered, connected, broken>>
    BY <1>4, CallsPreserve DEF Threaded!streamVars
  <2> QED
    BY <1>2, <2>1
<1>5. ASSUME NEW t \in {"main", "reception"}, Threaded!Lock(t), UNCHANGED Threaded!clientVars
      PROVE  Threaded!Channel!ChannelNext \/ UNCHANGED <<queue, delivered, isOpen>>
  <2>1. /\ UNCHANGED <<delivered, connected, broken>>
        /\ \/ UNCHANGED accepted
           \/ connected /\ ~broken /\ packet[t] \in Payloads /\ accepted' = Append(accepted, packet[t])
    BY <1>5, LockPreserves
  <2>2. CASE UNCHANGED accepted
    BY <1>2, <2>1, <2>2
  <2>3. CASE connected /\ ~broken /\ packet[t] \in Payloads /\ accepted' = Append(accepted, packet[t])
    <3>1. queue' = Append(queue, packet[t])
      BY <1>1, <2>1, <2>3, QueueGrows
    <3>2. Threaded!Channel!Send(packet[t])
      BY <2>1, <2>3, <3>1 DEF Threaded!Channel!Send
    <3> QED
      BY <2>3, <3>2 DEF Threaded!Channel!ChannelNext
  <2> QED
    BY <2>1, <2>2, <2>3
<1>6. ASSUME Threaded!ReceiveBytes, UNCHANGED Threaded!clientVars
      PROVE  Threaded!Channel!ChannelNext \/ UNCHANGED <<queue, delivered, isOpen>>
  <2>1. /\ UNCHANGED <<accepted, connected, broken>>
        /\ \/ UNCHANGED delivered
           \/ /\ Len(delivered) + 1 \in 1 .. Len(accepted)
              /\ delivered' = Append(delivered, accepted[Len(delivered) + 1])
    BY <1>6, ReceiveBytesPreserves
  <2>2. CASE UNCHANGED delivered
    BY <1>2, <2>1, <2>2
  <2>3. CASE /\ Len(delivered) + 1 \in 1 .. Len(accepted)
             /\ delivered' = Append(delivered, accepted[Len(delivered) + 1])
    <3>1. Len(delivered') = Len(delivered) + 1
      BY <2>3 DEF ClientInv, StreamTypeOK
    <3>2. queue # <<>> /\ Head(queue) = accepted[Len(delivered) + 1] /\ Tail(queue) = queue'
      BY <1>1, <2>1, <2>3, <3>1, QueueShrinks
    <3>3. Threaded!Channel!Deliver
      BY <2>1, <2>3, <3>2 DEF Threaded!Channel!Deliver
    <3> QED
      BY <3>3 DEF Threaded!Channel!ChannelNext
  <2> QED
    BY <2>1, <2>2, <2>3
<1>7. ASSUME Threaded!Break, UNCHANGED Threaded!clientVars
      PROVE  Threaded!Channel!ChannelNext
  <2>1. connected /\ ~broken /\ broken' /\ UNCHANGED <<accepted, delivered, connected>>
    BY <1>7, BreakPreserves
  <2>2. Threaded!Channel!Break
    BY <2>1 DEF Threaded!Channel!Break
  <2> QED
    BY <2>2 DEF Threaded!Channel!ChannelNext
<1>8. CASE Threaded!Stream
  <2>1. CASE Threaded!Break
    BY <1>7, <1>8, <2>1 DEF Threaded!Stream
  <2>2. CASE Threaded!ReceiveBytes
    BY <1>6, <1>8, <2>2 DEF Threaded!Stream
  <2>3. CASE \E t \in {"main", "reception"} : Threaded!Lock(t)
    BY <1>5, <1>8, <2>3 DEF Threaded!Stream
  <2>4. CASE \/ Threaded!ReceiveEnds
             \/ \E t \in {"main", "reception"} :
                   Threaded!CallSend(t) \/ Threaded!SendBytes(t) \/ Threaded!SendFails(t)
    <3>1. UNCHANGED <<accepted, delivered, connected, broken>>
      BY <1>8, <2>4, ReceiveEndsPreserves, CallSendPreserves, SendBytesPreserves, SendFailsPreserves
         DEF Threaded!Stream
    <3> QED
      BY <1>2, <3>1
  <2> QED
    BY <1>8, <2>1, <2>2, <2>3, <2>4 DEF Threaded!Stream, Threaded!SendStep
<1>9. CASE UNCHANGED Threaded!vars
  <2>1. UNCHANGED <<accepted, delivered, connected, broken>>
    BY <1>9 DEF Threaded!vars, Threaded!streamVars
  <2> QED
    BY <1>2, <2>1
<1> QED
  BY <1>3, <1>4, <1>8, <1>9 DEF Threaded!Next

\* The connection with a threaded client is a channel that delivers packets whole and in order,
\* however the bytes are cut up, whichever of its threads send and wherever it breaks: NetworkSend
\* holds m_mutexTx over length and data, and NetworkReceiveInternal asks for what is missing.
THEOREM ClientImplementsChannel == Threaded!Spec => IsChannel
<1>1. Threaded!Init => Threaded!Channel!ChannelInit
  BY SubSeqEmpty DEF Threaded!Init, Threaded!StreamInit, Threaded!Channel!ChannelInit
<1>2. ClientInv /\ [Threaded!Next]_Threaded!vars
         => [Threaded!Channel!ChannelNext]_<<SubSeq(accepted, Len(delivered) + 1, Len(accepted)),
                                             delivered, connected /\ ~broken>>
  BY ClientStepsAreChannelSteps
<1> QED
  BY <1>1, <1>2, ClientStarts, ClientStep, PTL
     DEF Threaded!Spec, IsChannel, Threaded!IsChannel, Threaded!Channel!ChannelSpec
=============================================================================
