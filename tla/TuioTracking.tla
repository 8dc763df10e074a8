---------------------------- MODULE TuioTracking ----------------------------
(***************************************************************************)
(* What the loop of xtrack does with a frame: the fiducials found in it    *)
(* are transferred to the remembered ones, and TuioServer (tuio.cpp) sends *)
(* those that are tracked in one OSC bundle over UDP.  The network loses,  *)
(* delays and duplicates datagrams; a receiver takes a bundle for the      *)
(* present state when its sequence number is the highest so far.           *)
(***************************************************************************)
EXTENDS FiducialFinder

CONSTANTS
    Windows,    \* FALSE: src/xtrack-mac, where the socket is left out
    MaxSent     \* bound: frames sent

ASSUME TuioAssumption == Windows \in BOOLEAN /\ MaxSent \in Nat

VARIABLES
    sock,       \* the socket: "none", "open" or "closed"
    fseq,
    network,    \* bundles that may still arrive
    view,       \* the receiver: the number and the fiducials of the newest frame it knows
    frames,     \* history: what was tracked in every frame sent
    inFrame     \* history: the ids in the last frame

tuioVars == <<sock, fseq, network, view, frames, inFrame>>
vars == <<finderVars, tuioVars>>

Init ==
    /\ FinderInit
    /\ sock = "none" /\ fseq = 0 /\ network = {} /\ frames = <<>> /\ inFrame = {}
    /\ view = [fseq |-> -1, fiducials |-> <<>>]

\* On Windows the constructor throws 1 when Winsock or the socket fails, which ends the program.
Open ==
    /\ sock = "none"
    /\ sock' = IF Windows THEN "open" ELSE "absent"
    /\ UNCHANGED <<finderVars, fseq, network, view, frames, inFrame>>

OpenFails ==
    /\ Windows /\ sock = "none" /\ sock' = "closed"
    /\ UNCHANGED <<finderVars, fseq, network, view, frames, inFrame>>

Close ==
    /\ sock \in {"open", "absent"} /\ sock' = "closed"
    /\ UNCHANGED <<finderVars, fseq, network, view, frames, inFrame>>

(***************************************************************************)
(* sendMessage                                                             *)
(***************************************************************************)
Data(f) == [x |-> f.x, a |-> f.a, xspeed |-> f.xspeed, aspeed |-> f.aspeed,
            xyacc |-> f.xyacc, aacc |-> f.aacc]
Tracked(fiducials) == {i \in Ids : fiducials[i].isTracked}
IdsInOrder == [k \in 1 .. MaxFiducials |-> k - 1]

Alive(fiducials) == [path |-> "alive", ids |-> Tracked(fiducials)]
Set(fiducials, i) == [path |-> "set", id |-> i, data |-> Data(fiducials[i])]
FSeq(number) == [path |-> "fseq", number |-> number]

BundleWithoutNaN(fiducials, number) ==
    Append(FoldLeft(LAMBDA sent, i : IF fiducials[i].isTracked /\ fiducials[i].xspeed # NaN
                                     THEN Append(sent, Set(fiducials, i)) ELSE sent,
                    <<Alive(fiducials)>>, IdsInOrder),
           FSeq(number))

\* One message per tracked fiducial, between the list of all of them and the frame number.
Bundle(fiducials, number) ==
    Append(FoldLeft(LAMBDA sent, i : IF fiducials[i].isTracked
                                     THEN Append(sent, Set(fiducials, i)) ELSE sent,
                    <<Alive(fiducials)>>, IdsInOrder),
           FSeq(number))

\* The result of sendto is ignored.
SendTo(bundle) == network' = IF sock = "open" THEN network \cup {bundle} ELSE network

SendMessage(fiducials) ==
    /\ SendTo(Bundle(fiducials, fseq))
    /\ fseq' = fseq + 1

\* One frame: find, then send.
Frame(raws, tick) ==
    /\ sock \in {"open", "absent"} /\ fseq < MaxSent
    /\ FindFiducials(raws, tick)
    /\ SendMessage(trackedFiducials')
    /\ frames' = Append(frames, [i \in Tracked(trackedFiducials') |-> Data(trackedFiducials'[i])])
    /\ inFrame' = {raws[k].id : k \in 1 .. Len(raws)} \cap Ids
    /\ UNCHANGED <<sock, view>>

(***************************************************************************)
(* The network and the receiver                                            *)
(***************************************************************************)
Lose(bundle) ==
    /\ network' = network \ {bundle}
    /\ UNCHANGED <<finderVars, sock, fseq, view, frames, inFrame>>

\* The messages of a bundle are applied in their order; the last one decides.
Receive(bundle) ==
    LET number == Last(bundle).number
        sets == {k \in 1 .. Len(bundle) : bundle[k].path = "set"}
        known(i) == \E k \in sets : bundle[k].id = i
        value(i) == IF known(i) THEN bundle[CHOOSE k \in sets : bundle[k].id = i].data
                    ELSE IF i \in DOMAIN view.fiducials THEN view.fiducials[i] ELSE Data(Unseen)
    IN  view' = IF number <= view.fseq THEN view
                ELSE [fseq |-> number, fiducials |-> [i \in Head(bundle).ids |-> value(i)]]

\* A datagram that has arrived may arrive again.
Deliver(bundle) ==
    /\ Receive(bundle)
    /\ UNCHANGED <<finderVars, sock, fseq, network, frames, inFrame>>

Next ==
    \/ Open \/ OpenFails \/ Close
    \/ \E raws \in RawFrames, tick \in Ticks : Frame(raws, tick)
    \/ \E bundle \in network : Lose(bundle) \/ Deliver(bundle)

Spec == Init /\ [][Next]_vars

-----------------------------------------------------------------------------
\* The type of every variable but the history.
TypeOK ==
    /\ clock \in Nat /\ found \in Nat
    /\ \A i \in Ids : trackedFiducials[i].isTracked \in BOOLEAN /\ trackedFiducials[i].timestamp \in Nat
    /\ sock \in {"none", "open", "absent", "closed"} /\ fseq \in 0 .. MaxSent
    /\ \A bundle \in network : Head(bundle).path = "alive" /\ Last(bundle).path = "fseq"

\* Whatever datagrams are lost, duplicated or overtaken, what the receiver holds is exactly what
\* was tracked in one frame: no bundle builds on another.
ViewIsOneFrame ==
    view.fseq >= 0 => view.fseq < Len(frames) /\ view.fiducials = frames[view.fseq + 1]

\* A fiducial counts as tracked exactly when it was seen at the time of the last frame: in that
\* frame or, when the clock has not advanced, in one of the frames at the same time.
TrackedNow ==
    fseq > 0 =>
        \A i \in Ids : trackedFiducials[i].isTracked <=>
            seen[i] # <<>> /\ seen[i][Len(seen[i])].t = FrameStart(clock)

\* What a frame of any fiducials after any time leaves behind: no speed is over no time or the long
\* way round, and what is said to be tracked is.
FinderInv == TypeOK /\ TimePasses /\ ShortWayRound /\ TrackedNow

\* fiducials.h:21 asks of isTracked "Has the fiducial been tracked?", which is about the frame
\* that was passed to findFiducials.
TrackedIffInFrame == fseq > 0 => \A i \in Ids : trackedFiducials[i].isTracked <=> i \in inFrame
=============================================================================
