----------------------------- MODULE XtrackLoop -----------------------------
(***************************************************************************)
(* The processing loop of xtrack (xtrack.cpp): every round captures a      *)
(* frame, records or plays, and waits for a key.  A signal asks for the    *)
(* end at any moment; it is looked at once per round.  Finding and sending *)
(* the fiducials of a frame is the subject of TuioTracking.                *)
(***************************************************************************)
EXTENDS Recorder

VARIABLES
    phase,           \* where the program is
    recordMode,
    term_requested,
    cameraDisplay,   \* TRUE if there is one
    exitCode

loopVars == <<phase, recordMode, term_requested, cameraDisplay, exitCode>>
vars == <<recorderVars, loopVars>>

Init ==
    /\ RecorderInit
    /\ phase = "start" /\ recordMode = "NORMAL" /\ term_requested = FALSE
    /\ cameraDisplay = FALSE /\ exitCode = 0

\* The handler is installed before anything else; it only sets the flag.
Signal ==
    /\ phase \notin {"exited", "aborted"} /\ ~term_requested
    /\ term_requested' = TRUE
    /\ UNCHANGED <<recorderVars, phase, recordMode, cameraDisplay, exitCode>>

UserDeletes ==
    /\ phase = "key" /\ \E num \in DOMAIN files : DeleteFile(num)
    /\ UNCHANGED loopVars

(***************************************************************************)
(* The preparations of process: whatever throws 1 ends the program.        *)
(***************************************************************************)
Prepare(r, display) ==
    /\ phase = "start" /\ LegalRatio(r)
    /\ ratio' = r /\ cameraDisplay' = display /\ phase' = "frame"
    /\ UNCHANGED <<files, frameProgress, writer, reader, lastPlayedFileNum, lastPlayedFrame, offered,
                   recordMode, term_requested, exitCode>>

PreparationFails(r) ==
    /\ phase = "start" /\ ~LegalRatio(r)
    /\ exitCode' = 1 /\ phase' = "exited"
    /\ UNCHANGED <<recorderVars, recordMode, term_requested, cameraDisplay>>

CameraFails ==
    /\ phase = "start"
    /\ exitCode' = 1 /\ phase' = "exited"
    /\ UNCHANGED <<recorderVars, recordMode, term_requested, cameraDisplay>>

(***************************************************************************)
(* One frame                                                               *)
(***************************************************************************)
loopRest == <<recordMode, term_requested, cameraDisplay, exitCode>>

NoImage == phase = "frame" /\ phase' = "quit" /\ UNCHANGED <<recorderVars, loopRest>>

NormalFrame ==
    /\ phase = "frame" /\ recordMode = "NORMAL"
    /\ phase' = "key" /\ UNCHANGED <<recorderVars, loopRest>>

\* displayMat is assigned only when there is a display; resizing an empty image throws an
\* exception that nobody catches.
RecordingFrame ==
    /\ phase = "frame" /\ recordMode = "RECORDING"
    /\ SkipFrame \/ (cameraDisplay /\ WriteFrame)
    /\ phase' = "key" /\ UNCHANGED loopRest

RecordingThrows ==
    /\ phase = "frame" /\ recordMode = "RECORDING"
    /\ ~cameraDisplay /\ FrameDue
    /\ phase' = "aborted" /\ UNCHANGED <<recorderVars, loopRest>>

PlaybackFrame ==
    /\ phase = "frame" /\ recordMode = "PLAYBACK"
    /\ \/ (RepeatFrame \/ NextFrame) /\ phase' = "key"
       \/ EndOfFile /\ phase' = "search"
    /\ UNCHANGED <<files, ratio, writer, offered, loopRest>>

PlaybackSearch(found) ==
    /\ phase = "search"
    /\ TryNextFile(found)
    /\ phase' = IF found THEN "key" ELSE "search"
    /\ UNCHANGED <<files, ratio, writer, offered, loopRest>>

(***************************************************************************)
(* One key, and the condition of the loop                                  *)
(***************************************************************************)
\* Bound: no further round begins when MaxFrames frames have been recorded.
Round(requested) ==
    /\ requested \/ recordMode' # "RECORDING" \/ offered' < MaxFrames
    /\ phase' = IF requested THEN "quit" ELSE "frame"
    /\ term_requested' = requested

NoKey ==
    /\ phase = "key"
    /\ UNCHANGED <<recorderVars, recordMode, cameraDisplay, exitCode>>
    /\ Round(term_requested)

KeyQuit ==
    /\ phase = "key"
    /\ UNCHANGED <<recorderVars, recordMode, cameraDisplay, exitCode>>
    /\ Round(TRUE)

KeyRecord(opened) ==
    /\ phase = "key" /\ recordMode = "NORMAL"
    /\ GetLastFileNum < MaxFile
    /\ StartRecording(opened)
    /\ recordMode' = IF opened THEN "RECORDING" ELSE "NORMAL"
    /\ Round(term_requested) /\ UNCHANGED <<cameraDisplay, exitCode>>

StopRecordingOnly ==
    /\ IF recordMode = "RECORDING" THEN StopRecording ELSE UNCHANGED <<writer, offered>>
    /\ UNCHANGED <<playbackVars, files, ratio>>

StopMode ==
    /\ IF recordMode = "RECORDING" THEN StopRecording ELSE UNCHANGED <<writer, offered>>
    /\ IF recordMode = "PLAYBACK" THEN StopPlayback ELSE UNCHANGED playbackVars
    /\ UNCHANGED <<files, ratio>>

KeyStop ==
    /\ phase = "key"
    /\ StopMode
    /\ recordMode' = "NORMAL"
    /\ Round(term_requested) /\ UNCHANGED <<cameraDisplay, exitCode>>

\* While recording, the recording is stopped first; the mode changes only if playback starts.
KeyPlay(opened) ==
    /\ phase = "key" /\ recordMode # "PLAYBACK"
    /\ IF recordMode = "RECORDING" THEN StopRecording ELSE UNCHANGED <<writer, offered>>
    /\ IF cameraDisplay THEN StartPlayback(opened) ELSE ~opened /\ UNCHANGED playbackVars
    /\ recordMode' = IF opened THEN "PLAYBACK" ELSE recordMode
    /\ UNCHANGED <<files, ratio, cameraDisplay, exitCode>>
    /\ Round(term_requested)

\* After the loop whatever is running is stopped and the display deleted.
Quit ==
    /\ phase = "quit"
    /\ StopMode
    /\ phase' = "exited" /\ cameraDisplay' = FALSE
    /\ UNCHANGED <<recordMode, term_requested, exitCode>>

Frame == NormalFrame \/ RecordingFrame \/ RecordingThrows \/ PlaybackFrame
Search == \E found \in BOOLEAN : PlaybackSearch(found)
Key == NoKey \/ KeyQuit \/ KeyStop \/ \E opened \in BOOLEAN : KeyRecord(opened) \/ KeyPlay(opened)
Start == CameraFails \/ \E r \in Ratios : PreparationFails(r) \/ \E d \in BOOLEAN : Prepare(r, d)

Ended == phase \in {"exited", "aborted"} /\ UNCHANGED vars

Next == Start \/ NoImage \/ Frame \/ Search \/ Key \/ Quit \/ Signal \/ UserDeletes \/ Ended

\* The program keeps running; the user and the system need not do anything.
Spec == Init /\ [][Next]_vars /\ WF_vars(Start \/ Frame \/ Search \/ NoKey \/ Quit)
-----------------------------------------------------------------------------
(***************************************************************************)
(* Properties                                                              *)
(***************************************************************************)
Pictures == [file : Nat, pos : Nat]

\* The type of every variable.
TypeOK ==
    /\ DOMAIN files \subseteq Nat /\ \A n \in DOMAIN files : files[n] \in Nat
    /\ ratio \in Int \X (Nat \ {0}) /\ frameProgress \in Nat /\ offered \in Nat
    /\ writer \in Nat \cup {Closed} /\ reader \in [file : Nat \cup {Closed}, pos : Nat]
    /\ lastPlayedFileNum \in Nat \cup {-1} /\ lastPlayedFrame \in Pictures \cup {Raw, Freed}
    /\ phase \in {"start", "frame", "search", "key", "quit", "exited", "aborted"}
    /\ recordMode \in {"NORMAL", "RECORDING", "PLAYBACK"}
    /\ term_requested \in BOOLEAN /\ cameraDisplay \in BOOLEAN /\ exitCode \in {0, 1}

\* recordMode is the only record of what is open: whatever keys are pressed and calls fail, the
\* video files and the copied frame exist only in the mode that will release them, playback has
\* a frame to repeat or delete and a window to show it, and nothing is left when the program ends.
ModeAgrees ==
    /\ (recordMode = "NORMAL" \/ phase = "exited") => writer = Closed
    /\ (recordMode # "PLAYBACK" \/ phase = "exited") => reader = NoReader /\ lastPlayedFrame = Freed
    /\ (recordMode = "PLAYBACK" /\ phase \notin {"exited", "aborted"}) =>
          /\ cameraDisplay /\ writer = Closed
          /\ lastPlayedFrame = Freed <=> phase = "search"

\* A recording holds the share of the frames offered to it that the parameter asks for.  At a third
\* or a tenth of the rate the sum of doubles falls short of a whole frame, which is then written a
\* call late; but it is written, so that what a recording owes never adds up to more than a frame.
\* Halvings of the rate owe less than one.
RateKept ==
    writer # Closed =>
        LET owed == offered * ratio[1] - files[writer] * ratio[2]
        IN  owed \in 0 .. ratio[2] /\ (IsHalving(ratio) => owed < ratio[2])

\* Starting a recording never touches a file that is there already.
NeverOverwrites ==
    [][writer' \notin {writer, Closed} => writer' \notin DOMAIN files]_vars

\* The playback leaves a file only at its end or on a key, and goes on with the next greater
\* number that the directory lists, or with the smallest: in which order it lists them and
\* whatever was deleted meanwhile does not matter.
Successor(n) ==
    LET above == {m \in Listed : m > n}
    IN  IF Listed = {} THEN -1 ELSE IF above = {} THEN Min(Listed) ELSE Min(above)

PlaysInOrder ==
    [][/\ phase = "search" /\ term_requested' = term_requested =>
             lastPlayedFileNum' = Successor(lastPlayedFileNum)
       /\ phase = "frame" /\ phase' = "search" => reader.pos = files[reader.file]
       /\ lastPlayedFrame'.pos > 1 =>
             lastPlayedFrame' \in {lastPlayedFrame, Read(lastPlayedFrame)}]_vars

\* A key or a signal that asks for the end is honoured, unless no file yields a frame and the
\* program is caught in the loop of playbackFrame.
Playable == \E n \in DOMAIN files : files[n] > 0
QuitHonoured == term_requested ~> (phase \in {"exited", "aborted"} \/ ~Playable)

\* xtrack.cpp:108 promises without that exception that the stream is processed "until the
\* application is quit".
QuitAlwaysHonoured == term_requested ~> phase \in {"exited", "aborted"}

\* record.h:26 says of recordFrame "Record the next frame": in the mode that records, a file is
\* open to take it.
RecordsInRecordMode == recordMode = "RECORDING" /\ phase = "frame" => writer # Closed

\* record.h:32 says of playbackFrame "Play back the next frame": what is shown was read from a
\* file.
ShowsFramesOfFiles ==
    [][phase = "frame" /\ recordMode = "PLAYBACK" /\ phase' = "key" => lastPlayedFrame' # Raw]_vars

\* record.cpp:92 gives as the reason for a failed playback that "No video file found for
\* playback": as long as there is a file to play, the one that 'p' tries is there.
FailsOnlyWithoutFile ==
    phase = "key" /\ recordMode # "PLAYBACK" /\ Playable => FirstPlayed \cap DOMAIN files # {}
=============================================================================
