--------------------------- MODULE MCTuioTracking ---------------------------
(***************************************************************************)
(* Two fiducials on a circle of four directions; frames with none, one,    *)
(* two candidates of one id, both, and an id that is not known.            *)
(***************************************************************************)
EXTENDS TuioTracking

Fid(i, position, angle) == [id |-> i, x |-> position, a |-> angle]
SomeFrames == {
    <<>>,
    <<Fid(0, 0, 0)>>,
    <<Fid(0, 2, 3)>>,
    <<Fid(0, 2, 1), Fid(0, 0, 3)>>,
    <<Fid(1, 1, 2), Fid(0, 1, 2)>>,
    <<Fid(-1, 2, 0), Fid(1, 2, 3), Fid(3, 0, 0)>> }
=============================================================================
