------------------------------ MODULE TcpServer ------------------------------
(***************************************************************************)
(* WOscTcpServer in threading mode (WOscTcpServer.cpp, WOscTcpHandler.cpp):*)
(* the thread that accepts connections, one thread per connection, and the *)
(* thread of the application, which binds and stops the server.  They meet *)
(* in the vector of registered handlers, which is guarded by a mutex: what *)
(* happens under it is one step.  A connection stands for its handler.     *)
(***************************************************************************)
EXTENDS Naturals, FiniteSets, SequencesExt

CONSTANTS Connections, Nobody

ASSUME ConnectionsAssumption == IsFiniteSet(Connections) /\ Nobody \notin Connections

VARIABLES
    bound,          \* m_socketServer >= 0
    acceptor,       \* the thread that runs Accept
    incoming,       \* its handler, or Nobody
    thread,         \* the receive thread of every handler
    cancelled,      \* handlers whose thread has been asked to end
    object,         \* the handler: "none", "live" or "deleted"
    open,           \* connections whose socket this side has not closed
    hungUp,         \* connections that the peer has closed
    storage,        \* the array of the vector m_connections: its capacity is the length
    size,           \* how many of its elements are in use; what is behind them is left there
    stopper,        \* the application: where it is in Stop
    openClients,    \* its copy of m_connections
    undefined       \* set by an access to the array that is undefined and has an effect

vars == <<bound, acceptor, incoming, thread, cancelled, object, open, hungUp, storage, size,
          stopper, openClients, undefined>>

Registered == {storage[i] : i \in 1 .. size}

Init ==
    /\ bound = FALSE /\ acceptor = "none" /\ incoming = Nobody
    /\ thread = [c \in Connections |-> "none"] /\ cancelled = {}
    /\ object = [c \in Connections |-> "none"]
    /\ open = {} /\ hungUp = {}
    /\ storage = <<>> /\ size = 0
    /\ stopper = "idle" /\ openClients = <<>> /\ undefined = "no"

threadVars == <<thread, cancelled, object, open>>
vectorVars == <<storage, size, undefined>>
serverVars == <<bound, acceptor, incoming>>
stopVars == <<stopper, openClients>>

(***************************************************************************)
(* The application binds, which starts the accepting thread.               *)
(***************************************************************************)
Bind ==
    /\ stopper = "idle" /\ ~bound /\ acceptor = "none"
    /\ bound' = TRUE /\ acceptor' = "accept"
    /\ UNCHANGED <<incoming, threadVars, vectorVars, stopVars, hungUp>>

(***************************************************************************)
(* Accept: only accept is a point where the thread can be cancelled.       *)
(***************************************************************************)
AcceptConnection(c) ==
    /\ acceptor = "accept" /\ thread[c] = "none"
    /\ incoming' = c /\ acceptor' = "setup"
    /\ open' = open \cup {c}
    /\ UNCHANGED <<bound, thread, cancelled, object, hungUp, vectorVars, stopVars>>

\* accept fails: the thread returns, and the server goes on without it.
AcceptFails ==
    /\ acceptor = "accept"
    /\ acceptor' = "returned"
    /\ UNCHANGED <<bound, incoming, threadVars, vectorVars, stopVars, hungUp>>

\* SetupHandlerForNewConnection: the handler is created and its thread runs.
SetupHandler ==
    /\ acceptor = "setup"
    /\ object' = [object EXCEPT ![incoming] = "live"]
    /\ thread' = [thread EXCEPT ![incoming] = "receive"]
    /\ acceptor' = "register"
    /\ UNCHANGED <<bound, incoming, cancelled, open, hungUp, vectorVars, stopVars>>

\* The thread cannot be created: the handler is deleted and the socket closed.
SetupFails ==
    /\ acceptor = "setup"
    /\ object' = [object EXCEPT ![incoming] = "deleted"]
    /\ thread' = [thread EXCEPT ![incoming] = "ended"]
    /\ open' = open \ {incoming}
    /\ acceptor' = "accept" /\ incoming' = Nobody
    /\ UNCHANGED <<bound, cancelled, hungUp, vectorVars, stopVars>>

\* push_back: a full array is replaced by one of double the size.
Pushed(array, n, handler) ==
    IF n < Len(array) THEN [array EXCEPT ![n + 1] = handler]
    ELSE array \o <<handler>> \o [i \in 1 .. (IF n = 0 THEN 0 ELSE n - 1) |-> Nobody]

Register ==
    /\ acceptor = "register"
    /\ storage' = Pushed(storage, size, incoming)
    /\ size' = size + 1
    /\ acceptor' = "accept" /\ incoming' = Nobody
    /\ UNCHANGED <<bound, threadVars, hungUp, undefined, stopVars>>

(***************************************************************************)
(* The receive thread of a handler                                         *)
(***************************************************************************)
\* recv returns nothing: the loop of ReceiveThread ends.
ReceiveEnds(c) ==
    /\ thread[c] = "receive" /\ c \in hungUp
    /\ thread' = [thread EXCEPT ![c] = "unregister"]
    /\ UNCHANGED <<serverVars, cancelled, object, open, hungUp, vectorVars, stopVars>>

Cancelled(c) ==
    /\ thread[c] = "receive" /\ c \in cancelled
    /\ thread' = [thread EXCEPT ![c] = "ended"]
    /\ UNCHANGED <<serverVars, cancelled, object, open, hungUp, vectorVars, stopVars>>

\* UnRegister looks from m_connections[size()] down: the first element it reads is behind the
\* last one.  There is no array before the first push_back; the element may be one that was
\* erased or cleared and left in place, and erasing that is undefined.
Found(c) == c \in Registered
FoundAt(c) == CHOOSE i \in 1 .. size : storage[i] = c
LeftBehind == IF size < Len(storage) THEN storage[size + 1] ELSE Nobody
Erased(array, n, i) == [k \in 1 .. Len(array) |-> IF k \in i .. n - 1 THEN array[k + 1] ELSE array[k]]

UnRegisterForgets(c) ==
    /\ thread[c] = "unregister"
    /\ undefined' = IF storage = <<>> THEN "null" ELSE IF LeftBehind = c THEN "stale" ELSE "no"
    /\ thread' = [thread EXCEPT ![c] = IF Found(c) \/ undefined' = "stale" THEN "cleanup" ELSE "ended"]
    /\ UNCHANGED <<serverVars, cancelled, object, open, hungUp, storage, size, stopVars>>

\* With that, the handler goes on to delete itself.
UnRegister(c) ==
    /\ thread[c] = "unregister"
    /\ undefined' = IF storage = <<>> THEN "null" ELSE IF LeftBehind = c THEN "stale" ELSE "no"
    /\ storage' = IF undefined' = "no" /\ Found(c) THEN Erased(storage, size, FoundAt(c)) ELSE storage
    /\ size' = IF undefined' = "no" /\ Found(c) THEN size - 1 ELSE size
    /\ thread' = [thread EXCEPT ![c] = IF Found(c) \/ undefined' = "stale" THEN "cleanup" ELSE "ended"]
    /\ UNCHANGED <<serverVars, cancelled, object, open, hungUp, stopVars>>

\* close, pthread_detach, delete this
DeleteSelf(c) ==
    /\ thread[c] = "cleanup"
    /\ open' = open \ {c}
    /\ object' = [object EXCEPT ![c] = "deleted"]
    /\ thread' = [thread EXCEPT ![c] = "ended"]
    /\ UNCHANGED <<serverVars, cancelled, hungUp, vectorVars, stopVars>>

(***************************************************************************)
(* Stop, called by the application                                         *)
(***************************************************************************)
StopBegins ==
    /\ stopper = "idle" /\ bound
    /\ stopper' = "join server"
    /\ UNCHANGED <<serverVars, threadVars, vectorVars, openClients, hungUp>>

JoinServerNotAwaited ==
    /\ stopper = "join server"
    /\ stopper' = "collect"
    /\ UNCHANGED <<serverVars, threadVars, vectorVars, openClients, hungUp>>

\* The accepting thread is cancelled in accept, or has returned, and is joined.
JoinServer ==
    /\ stopper = "join server" /\ acceptor \in {"accept", "returned"}
    /\ acceptor' = "none"
    /\ stopper' = "collect"
    /\ UNCHANGED <<bound, incoming, threadVars, vectorVars, openClients, hungUp>>

\* The vector is copied and cleared under the mutex.
Collect ==
    /\ stopper = "collect"
    /\ openClients' = SubSeq(storage, 1, size)
    /\ size' = 0
    /\ stopper' = "stop clients"
    /\ UNCHANGED <<serverVars, threadVars, storage, undefined, hungUp>>

CancelClientNot ==
    /\ stopper = "stop clients" /\ openClients # <<>>
    /\ stopper' = "join client"
    /\ UNCHANGED <<serverVars, threadVars, hungUp, vectorVars, openClients>>

\* WOscTcpHandler::Stop of the last one: its thread is asked to end ...
CancelClient ==
    /\ stopper = "stop clients" /\ openClients # <<>>
    /\ cancelled' = cancelled \cup {Last(openClients)}
    /\ stopper' = "join client"
    /\ UNCHANGED <<serverVars, thread, object, open, hungUp, vectorVars, openClients>>

\* ... and joined; m_socketID is -1 from then on, so that close does nothing.
JoinClient ==
    /\ stopper = "join client" /\ thread[Last(openClients)] = "ended"
    /\ object' = [object EXCEPT ![Last(openClients)] = "deleted"]
    /\ openClients' = Front(openClients)
    /\ stopper' = "stop clients"
    /\ UNCHANGED <<serverVars, thread, cancelled, open, hungUp, vectorVars>>

StopEnds ==
    /\ stopper = "stop clients" /\ openClients = <<>>
    /\ bound' = FALSE /\ stopper' = "idle"
    /\ UNCHANGED <<acceptor, incoming, threadVars, vectorVars, openClients, hungUp>>

-----------------------------------------------------------------------------
HangUp(c) ==
    /\ c \in open \ hungUp
    /\ hungUp' = hungUp \cup {c}
    /\ UNCHANGED <<serverVars, threadVars, vectorVars, stopVars>>

Accept == AcceptFails \/ SetupHandler \/ SetupFails \/ Register \/ \E c \in Connections : AcceptConnection(c)
Handler(c) == ReceiveEnds(c) \/ Cancelled(c) \/ UnRegister(c) \/ DeleteSelf(c)
Stop == JoinServer \/ Collect \/ CancelClient \/ JoinClient \/ StopEnds

\* After an undefined access nothing can be said of what follows.
Next ==
    /\ undefined = "no"
    /\ Bind \/ Accept \/ StopBegins \/ Stop \/ \E c \in Connections : Handler(c) \/ HangUp(c)

\* The threads run; peers and the application need not do anything.
Fairness ==
    /\ WF_vars(undefined = "no" /\ Stop)
    /\ WF_vars(undefined = "no" /\ (SetupHandler \/ SetupFails \/ Register))
    /\ \A c \in Connections : WF_vars(undefined = "no" /\ Handler(c))

Spec == Init /\ [][Next]_vars /\ Fairness

-----------------------------------------------------------------------------
\* The type of every variable; the array is at least as long as the part in use.
TypeOK ==
    /\ bound \in BOOLEAN
    /\ acceptor \in {"none", "accept", "setup", "register", "returned"}
    /\ incoming \in Connections \cup {Nobody}
    /\ thread \in [Connections -> {"none", "receive", "unregister", "cleanup", "ended"}]
    /\ object \in [Connections -> {"none", "live", "deleted"}]
    /\ cancelled \subseteq Connections /\ open \subseteq Connections /\ hungUp \subseteq Connections
    /\ storage \in Seq(Connections \cup {Nobody}) /\ size \in 0 .. Len(storage)
    /\ stopper \in {"idle", "join server", "collect", "stop clients", "join client"}
    /\ openClients \in Seq(Connections)
    /\ undefined \in {"no", "null", "stale"}

\* Every handler has one owner that will delete it: its own thread once it has unregistered, the
\* application once it has taken it from the vector, the accepting thread before it is
\* registered, and the vector otherwise.  A handler with none is never deleted, one with two is
\* deleted twice.
Owners(c) ==
    {o \in {"acceptor", "vector", "application", "self"} :
        CASE o = "acceptor" -> incoming = c /\ object[c] = "live"
          [] o = "vector" -> c \in Registered
          [] o = "application" -> c \in ToSet(openClients)
          [] OTHER -> thread[c] = "cleanup"}

OneOwner ==
    undefined = "no" =>
        /\ \A c \in Connections : Cardinality(Owners(c)) = (IF object[c] = "live" THEN 1 ELSE 0)
        /\ IsInjective(SubSeq(storage, 1, size)) /\ IsInjective(openClients)

\* No thread runs in a handler that has been deleted.
ThreadsHaveHandlers ==
    \A c \in Connections : thread[c] \in {"receive", "unregister", "cleanup"} => object[c] = "live"

\* When the application is not in Stop and the server not bound, no thread and no handler is left
\* but those that are about to delete themselves.
NothingLeft ==
    undefined = "no" /\ stopper = "idle" /\ ~bound =>
        \A c \in Connections : object[c] = "live" => thread[c] = "cleanup"

\* Stop joins threads that may be in accept, blocked in recv, waiting for the mutex or ended, and
\* comes to its end all the same.
StopReturns == stopper # "idle" ~> (stopper = "idle" \/ undefined # "no")

\* WOscTcpServer.cpp:22 says of a handler's thread: "If we were still registered at the server, we
\* cleanup and delete ourselves."  One that has ended is not kept as a registered handler.
EndedAreUnregistered ==
    \A c \in Connections : thread[c] = "ended" /\ stopper = "idle" => c \notin Registered

\* WOscTcpServer.cpp:23 goes on: "If the server terminated us, we just exit as he will wait for us."
TerminatedJustExit == \A c \in Connections : thread[c] = "cleanup" => c \notin ToSet(openClients)

\* WOscTcpServer.cpp:210 says that Stop ends the threads "by closing the client connection
\* sockets": they are closed when it has returned.
StopClosesSockets ==
    stopper = "idle" /\ ~bound => \A c \in open : object[c] # "deleted"
==============================================================================
