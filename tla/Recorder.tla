------------------------------ MODULE Recorder ------------------------------
(***************************************************************************)
(* CameraRecorder (record.cpp): one video file is written or one is played *)
(* at a rate that is a fraction of the camera's.  The methods change       *)
(* disjoint parts of the state, so that XtrackLoop can conjoin them where  *)
(* a key calls two of them.                                                *)
(*                                                                         *)
(* The program adds up doubles.  The ratio and every sum are off by at     *)
(* most 2^-51 together, and exact sums are multiples of 1 / ratio[2], so   *)
(* that up to 2^51 / ratio[2] frames a sum is below 1.0 where the exact    *)
(* one is, and above it where that is.  Where the exact sum is 1, the      *)
(* double may be just below it.                                            *)
(***************************************************************************)
EXTENDS Integers, FiniteSets, FiniteSetsExt, SequencesExt

CONSTANTS
    Windows,     \* TRUE: src/xtrack; FALSE: src/xtrack-mac, where the file search is missing
    Foreign,     \* numbers of video files whose name is not what getFileName writes: xtrack5.avi
    MaxFile,     \* bound: highest number of a file
    MaxFrames,   \* bound: frames passed to a recording
    Directories, \* the videos that may be there at the start
    Ratios       \* values of the fps-scale parameter, as pairs <<numerator, denominator>>

ASSUME RecorderAssumption ==
    /\ Windows \in BOOLEAN /\ Foreign \subseteq Nat /\ MaxFile \in Nat /\ MaxFrames \in Nat
    /\ IsFiniteSet(Foreign)
    /\ \A d \in Directories :
          IsFiniteSet(DOMAIN d) /\ DOMAIN d \subseteq Nat /\ \A n \in DOMAIN d : d[n] \in Nat
    /\ Ratios \subseteq Int \X (Nat \ {0})

VARIABLES
    files,             \* the number of frames of every file with a name of getFileName
    ratio,             \* frameRateRatio
    frameProgress,     \* the exact sum next to that of doubles, in units of 1 / ratio[2]
    writer,            \* videoWriter: the number of the open file or Closed
    reader,            \* videoReader: file and frames read, or file Closed
    lastPlayedFileNum,
    lastPlayedFrame,   \* what the image shows: frame pos of a file, Raw memory, or Freed
    offered            \* history: frames passed to recordFrame in this recording

recorderVars == <<files, ratio, frameProgress, writer, reader, lastPlayedFileNum,
                  lastPlayedFrame, offered>>

Closed == -1
NoReader == [file |-> Closed, pos |-> 0]
Raw == [file |-> Closed, pos |-> 0]
Freed == [file |-> Closed, pos |-> Closed]

RecorderInit ==
    /\ files \in Directories
    /\ ratio = <<1, 1>> /\ frameProgress = 0 /\ offered = 0
    /\ writer = Closed /\ reader = NoReader
    /\ lastPlayedFileNum = -1 /\ lastPlayedFrame = Freed

\* The constructor throws unless the ratio is in (0, 1].
LegalRatio(r) == r[1] > 0 /\ r[1] <= r[2]

(***************************************************************************)
(* The search for files                                                    *)
(***************************************************************************)
Listed == DOMAIN files \cup Foreign

LastFileNumFirst == FoldLeft(LAMBDA last, num : IF last = 0 THEN num ELSE last, 0, SetToSeq(Listed))
LastFileNum == Max(Listed \cup {0})
MacLastFileNum == 0
GetLastFileNum == IF Windows THEN LastFileNum ELSE MacLastFileNum

NearerNoWrap(current, next, num) == next < 0 \/ (num > current /\ num < next)

\* nextFileNum after one more file of the search
Nearer(current, next, num) ==
    \/ next < 0
    \/ num > current /\ (next <= current \/ num < next)
    \/ next <= current /\ num < next

\* The directory is listed in any order.
NextFileNums(current) ==
    {FoldLeft(LAMBDA next, num : IF Nearer(current, next, num) THEN num ELSE next, -1, order) :
        order \in SetToSeqs(Listed)}
MacNextFileNums(current) == {-1}
GetNextFileNums(current) == IF Windows THEN NextFileNums(current) ELSE MacNextFileNums(current)

(***************************************************************************)
(* Recording                                                               *)
(***************************************************************************)
\* Opening a file for writing empties it; it fails for reasons of the system or the codec.
StartRecording(opened) ==
    LET num == GetLastFileNum + 1
    IN  IF opened
        THEN /\ files' = [n \in DOMAIN files \cup {num} |-> IF n = num THEN 0 ELSE files[n]]
             /\ writer' = num /\ lastPlayedFileNum' = num
             /\ frameProgress' = 0 /\ offered' = 0
             /\ UNCHANGED <<ratio, reader, lastPlayedFrame>>
        ELSE UNCHANGED recorderVars

Progress == frameProgress + ratio[1]

\* Halvings of the rate, and the full rate, are added up exactly.
IsHalving(r) == \E k \in 0 .. r[2] : r[2] = r[1] * 2 ^ k

\* frameProgress >= 1.0, and its negation: rounding decides between them when a frame is just full.
FrameDue == Progress >= ratio[2]
FrameNotDue == Progress < ratio[2] \/ (Progress = ratio[2] /\ ~IsHalving(ratio))

ProgressReset(progress) == 0
ProgressLeft(progress) == progress - ratio[2]

\* The writer swallows the frame when it has been released.
WriteFrame ==
    /\ FrameDue
    /\ frameProgress' = ProgressLeft(Progress)
    /\ offered' = offered + 1
    /\ files' = IF writer # Closed THEN [files EXCEPT ![writer] = @ + 1] ELSE files
    /\ UNCHANGED <<ratio, writer, reader, lastPlayedFileNum, lastPlayedFrame>>

SkipFrame ==
    /\ FrameNotDue
    /\ frameProgress' = Progress
    /\ offered' = offered + 1
    /\ UNCHANGED <<files, ratio, writer, reader, lastPlayedFileNum, lastPlayedFrame>>

StopRecording == writer' = Closed /\ offered' = 0

(***************************************************************************)
(* Playback: the variables it changes are those of playbackVars.           *)
(***************************************************************************)
playbackVars == <<frameProgress, reader, lastPlayedFileNum, lastPlayedFrame>>

\* A file without frames may or may not open.
Opens(num, opened) == IF num \in DOMAIN files THEN files[num] > 0 => opened ELSE ~opened

FirstPlayed ==
    IF lastPlayedFileNum < 0 THEN GetNextFileNums(lastPlayedFileNum) ELSE {lastPlayedFileNum}

StartPlayback(opened) ==
    \E num \in FirstPlayed :
        /\ Opens(num, opened)
        /\ IF opened
           THEN /\ reader' = [file |-> num, pos |-> 0]
                /\ lastPlayedFileNum' = num
                /\ frameProgress' = 0
                /\ lastPlayedFrame' = Raw
           ELSE reader' = NoReader /\ UNCHANGED <<frameProgress, lastPlayedFileNum, lastPlayedFrame>>

\* Between two frames of the file the last one is shown again.
RepeatFrame ==
    /\ FrameNotDue
    /\ frameProgress' = Progress
    /\ UNCHANGED <<reader, lastPlayedFileNum, lastPlayedFrame>>

HasFrame(r) == r.file \in DOMAIN files /\ r.pos < files[r.file]
Read(r) == [r EXCEPT !.pos = @ + 1]

\* What is read is shown and kept; frameProgress has been increased before.
ShowFrame(r, progress) ==
    /\ HasFrame(r)
    /\ reader' = Read(r)
    /\ lastPlayedFrame' = Read(r)
    /\ frameProgress' = ProgressLeft(progress)

NextFrame ==
    /\ FrameDue
    /\ ShowFrame(reader, Progress)
    /\ UNCHANGED lastPlayedFileNum

\* The file is at its end: the loop of playbackFrame begins.
EndOfFile ==
    /\ FrameDue /\ ~HasFrame(reader)
    /\ lastPlayedFrame' = Freed
    /\ frameProgress' = Progress
    /\ UNCHANGED <<reader, lastPlayedFileNum>>

\* One round of the loop: the next file is opened and read; it ends when that gives a frame.
TryNextFile(found) ==
    \E num \in GetNextFileNums(lastPlayedFileNum) :
        LET opened == [file |-> IF num \in DOMAIN files THEN num ELSE Closed, pos |-> 0]
        IN  /\ lastPlayedFileNum' = num
            /\ IF found THEN ShowFrame(opened, frameProgress)
                        ELSE /\ ~HasFrame(opened)
                             /\ reader' = opened
                             /\ UNCHANGED <<frameProgress, lastPlayedFrame>>

StopPlayback ==
    /\ reader' = NoReader /\ lastPlayedFrame' = Freed
    /\ UNCHANGED <<frameProgress, lastPlayedFileNum>>

(***************************************************************************)
(* The user deletes a video that is not open.                              *)
(***************************************************************************)
DeleteFile(num) ==
    /\ num \in DOMAIN files \ {writer, reader.file}
    /\ files' = [n \in DOMAIN files \ {num} |-> files[n]]
    /\ UNCHANGED <<ratio, frameProgress, writer, reader, lastPlayedFileNum, lastPlayedFrame, offered>>

=============================================================================
