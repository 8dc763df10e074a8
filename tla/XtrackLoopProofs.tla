-------------------------- MODULE XtrackLoopProofs --------------------------
(***************************************************************************)
(* What is open agrees with the mode, a recording keeps its rate and never *)
(* overwrites, and the playback keeps the order of the files, for every    *)
(* directory, every ratio and every number of frames.                      *)
(*                                                                         *)
(* The argument: between the rounds frameProgress is at most one frame,    *)
(* and a frame exactly only where rounding has put off writing it; in the  *)
(* search for the next file it is one more.  A frame that is written takes *)
(* one from it.  Whatever number the search for files gives, what is       *)
(* opened is released in the mode it is opened for.  The search itself is  *)
(* a loop over the listed files: after every one of them its result is the *)
(* nearest of those seen.                                                  *)
(***************************************************************************)
EXTENDS XtrackLoop, FoldProofs

PhaseInv ==
    /\ phase \in {"start", "frame", "search", "key", "quit", "exited", "aborted"}
    /\ recordMode \in {"NORMAL", "RECORDING", "PLAYBACK"}
    /\ phase = "start" => recordMode = "NORMAL"
    /\ phase = "search" => recordMode = "PLAYBACK"

\* What playback has open, while it plays.
ReaderInv == reader.pos \in Nat

ReadInv ==
    /\ (recordMode = "NORMAL" \/ phase = "exited") => writer = Closed
    /\ (recordMode # "PLAYBACK" \/ phase = "exited") => reader = NoReader /\ lastPlayedFrame = Freed
    /\ (recordMode = "PLAYBACK" /\ phase # "exited") =>
          /\ cameraDisplay /\ writer = Closed
          /\ reader = [file |-> reader.file, pos |-> reader.pos]
          /\ phase = "search" => lastPlayedFrame = Freed
          /\ phase # "search" => lastPlayedFrame # Freed

\* A frame may be full and not be written yet, but no halving of the rate leaves one.
UpToFrame(progress, r) == progress \in 0 .. r[2] /\ (IsHalving(r) => progress < r[2])

ProgressInv ==
    /\ ratio \in Int \X (Nat \ {0}) /\ frameProgress \in Nat /\ offered \in Nat
    /\ phase \notin {"start", "exited"} => LegalRatio(ratio)
    /\ phase = "start" => frameProgress = 0
    /\ phase = "search" => frameProgress >= ratio[2] /\ UpToFrame(frameProgress - ratio[2], ratio)
    /\ phase \notin {"start", "exited", "search"} => UpToFrame(frameProgress, ratio)
    /\ writer # Closed =>
          /\ writer \in DOMAIN files /\ files[writer] \in Nat
          /\ files[writer] * ratio[2] + frameProgress = offered * ratio[1]

LoopInv == PhaseInv /\ ReaderInv /\ ReadInv /\ ProgressInv

-----------------------------------------------------------------------------
\* A frame that is shown is a picture of a file, never the released one.
LEMMA ReadIsNotFreed ==
    ASSUME NEW r, r = [file |-> r.file, pos |-> r.pos], r.pos \in Nat
    PROVE  /\ Read(r) = [file |-> r.file, pos |-> r.pos + 1]
           /\ Read(r).pos = r.pos + 1
           /\ Read(r) # Freed
BY DEF Read, Freed, Closed

LEMMA OneMore ==
    ASSUME NEW f \in Int, NEW d \in Int
    PROVE  (f + 1) * d = f * d + d /\ f * d \in Int
OBVIOUS

\* One frame more among those offered, and one among those written if it is due.
LEMMA FrameWritten ==
    ASSUME NEW f \in Int, NEW d \in Int, NEW p \in Int, NEW o \in Int, NEW n \in Int,
           f * d + p = o * n
    PROVE  (f + 1) * d + (p + n - d) = (o + 1) * n
<1> DEFINE a == f * d
           b == o * n
<1>1. (f + 1) * d = a + d /\ (o + 1) * n = b + n /\ a \in Int /\ b \in Int
  BY OneMore
<1>2. a + p = b
  OBVIOUS
<1> HIDE DEF a, b
<1>3. (a + d) + (p + n - d) = b + n
  BY <1>1, <1>2
<1> QED
  BY <1>1, <1>3

LEMMA FrameSkipped ==
    ASSUME NEW f \in Int, NEW d \in Int, NEW p \in Int, NEW o \in Int, NEW n \in Int,
           f * d + p = o * n
    PROVE  f * d + (p + n) = (o + 1) * n
<1> DEFINE a == f * d
           b == o * n
<1>1. (o + 1) * n = b + n /\ a \in Int /\ b \in Int
  BY OneMore
<1>2. a + p = b
  OBVIOUS
<1>3. a + (p + n) = b + n
  <2> HIDE DEF a, b
  <2> QED
    BY <1>1, <1>2
<1> QED
  BY <1>1, <1>3

\* What a call leaves in frameProgress, whether it takes a frame or not.
LEMMA ProgressKept ==
    ASSUME ratio \in Int \X (Nat \ {0}), LegalRatio(ratio), UpToFrame(frameProgress, ratio)
    PROVE  /\ Progress = frameProgress + ratio[1] /\ Progress \in Nat
           /\ FrameNotDue => UpToFrame(Progress, ratio)
           /\ FrameDue => /\ Progress >= ratio[2] /\ ProgressLeft(Progress) \in Nat
                          /\ ProgressLeft(Progress) = Progress - ratio[2]
                          /\ UpToFrame(ProgressLeft(Progress), ratio)
<1>1. ratio[1] \in Nat /\ ratio[1] > 0 /\ ratio[2] \in Nat /\ ratio[1] <= ratio[2]
  BY DEF LegalRatio
<1> QED
  BY <1>1 DEF Progress, ProgressLeft, FrameNotDue, FrameDue, UpToFrame

\* A recording or a playback begins without progress.
LEMMA NoProgress ==
    ASSUME ratio \in Int \X (Nat \ {0})
    PROVE  UpToFrame(0, ratio)
BY DEF UpToFrame

LEMMA InitLoopInv == Init => LoopInv
BY RecorderAssumption
   DEF Init, RecorderInit, LoopInv, PhaseInv, ReaderInv, ReadInv, ProgressInv, NoReader, Closed

-----------------------------------------------------------------------------
LEMMA StartStep ==
    ASSUME LoopInv, Start
    PROVE  LoopInv'
<1>1. CASE CameraFails
  BY <1>1 DEF CameraFails, recorderVars, LoopInv, PhaseInv, ReaderInv, ReadInv, ProgressInv
<1>2. CASE \E r \in Ratios : PreparationFails(r)
  BY <1>2 DEF PreparationFails, recorderVars, LoopInv, PhaseInv, ReaderInv, ReadInv, ProgressInv
<1>3. ASSUME NEW r \in Ratios, NEW d \in BOOLEAN, Prepare(r, d)
      PROVE  LoopInv'
  <2>1. r \in Int \X (Nat \ {0})
    BY RecorderAssumption
  <2>2. writer = Closed /\ recordMode = "NORMAL" /\ phase = "start"
    BY <1>3 DEF Prepare, LoopInv, PhaseInv, ReadInv
  <2>3. UpToFrame(0, r)
    BY <2>1 DEF UpToFrame
  <2> QED
    BY <1>3, <2>1, <2>2, <2>3 DEF Prepare, LoopInv, PhaseInv, ReaderInv, ReadInv, ProgressInv, LegalRatio
<1> QED
  BY <1>1, <1>2, <1>3 DEF Start

LEMMA RecordingStep ==
    ASSUME LoopInv, RecordingFrame
    PROVE  LoopInv'
<1> DEFINE n == ratio[1]
           d == ratio[2]
<1>1. /\ phase = "frame" /\ phase' = "key" /\ recordMode = "RECORDING"
      /\ WriteFrame \/ SkipFrame
      /\ UNCHANGED loopRest
  BY DEF RecordingFrame
<1>2. /\ n \in Nat /\ d \in Nat /\ frameProgress \in Nat /\ offered \in Nat
      /\ ratio \in Int \X (Nat \ {0}) /\ LegalRatio(ratio) /\ UpToFrame(frameProgress, ratio)
      /\ reader = NoReader /\ lastPlayedFrame = Freed
      /\ writer # Closed => /\ writer \in DOMAIN files /\ files[writer] \in Nat
                            /\ files[writer] * d + frameProgress = offered * n
  BY <1>1 DEF LoopInv, PhaseInv, ReadInv, ProgressInv, LegalRatio
<1>3. UNCHANGED <<ratio, writer, reader, lastPlayedFrame>> /\ offered' = offered + 1
  BY <1>1 DEF WriteFrame, SkipFrame
<1>4. frameProgress' \in Nat /\ UpToFrame(frameProgress', ratio) /\ offered' \in Nat
  BY <1>1, <1>2, <1>3, ProgressKept DEF WriteFrame, SkipFrame
<1>5. writer # Closed =>
        /\ writer \in DOMAIN files' /\ files'[writer] \in Nat
        /\ files'[writer] * d + frameProgress' = (offered + 1) * n
  <2> HAVE writer # Closed
  <2>1. /\ writer \in DOMAIN files /\ files[writer] \in Int /\ files[writer] \in Nat
        /\ files[writer] * d + frameProgress = offered * n
        /\ d \in Int /\ n \in Int /\ frameProgress \in Int /\ offered \in Int
    BY <1>2
  <2>2. PICK f \in Int, p \in Int, o \in Int, dd \in Int, nn \in Int :
           f = files[writer] /\ p = frameProgress /\ o = offered /\ dd = d /\ nn = n
    BY <2>1
  <2>3. f * dd + p = o * nn
    BY <2>1, <2>2
  <2>4. CASE WriteFrame
    <3>1. writer \in DOMAIN files' /\ files'[writer] = files[writer] + 1
      BY <2>1, <2>4 DEF WriteFrame
    <3>2. frameProgress' = frameProgress + n - d
      BY <2>1, <2>4 DEF WriteFrame, Progress, ProgressLeft
    <3>3. (f + 1) * dd + (p + nn - dd) = (o + 1) * nn
      BY <2>3, FrameWritten
    <3> QED
      BY <2>1, <2>2, <3>1, <3>2, <3>3
  <2>5. CASE SkipFrame
    <3>1. files' = files /\ frameProgress' = frameProgress + n
      BY <2>5 DEF SkipFrame, Progress
    <3>2. f * dd + (p + nn) = (o + 1) * nn
      BY <2>3, FrameSkipped
    <3> QED
      BY <2>1, <2>2, <3>1, <3>2
  <2> QED
    BY <1>1, <2>4, <2>5
<1>6. ProgressInv'
  <2>1. writer' = writer /\ ratio' = ratio /\ offered' = offered + 1
    BY <1>3
  <2>2. writer' # Closed =>
          /\ writer' \in DOMAIN files' /\ files'[writer'] \in Nat
          /\ files'[writer'] * ratio'[2] + frameProgress' = offered' * ratio'[1]
    BY <1>5, <2>1 DEF Closed
  <2>3. ratio \in Int \X (Nat \ {0}) /\ LegalRatio(ratio)
    BY <1>1 DEF LoopInv, ProgressInv
  <2> QED
    BY <1>1, <1>4, <2>1, <2>2, <2>3 DEF ProgressInv, LegalRatio
<1> QED
  BY <1>1, <1>2, <1>3, <1>6 DEF LoopInv, PhaseInv, ReaderInv, ReadInv, loopRest

LEMMA PlaybackStep ==
    ASSUME LoopInv, PlaybackFrame
    PROVE  LoopInv'
<1>1. /\ phase = "frame" /\ recordMode = "PLAYBACK"
      /\ UNCHANGED <<ratio, writer, offered, files, recordMode, cameraDisplay>>
  BY DEF PlaybackFrame, loopRest
<1>2. /\ cameraDisplay /\ writer = Closed /\ reader = [file |-> reader.file, pos |-> reader.pos]
      /\ lastPlayedFrame # Freed /\ reader.pos \in Nat
      /\ ratio \in Int \X (Nat \ {0}) /\ LegalRatio(ratio)
      /\ frameProgress \in Nat /\ UpToFrame(frameProgress, ratio) /\ offered \in Nat
  BY <1>1 DEF LoopInv, PhaseInv, ReaderInv, ReadInv, ProgressInv
<1>3. CASE RepeatFrame /\ phase' = "key"
  <2>1. frameProgress' \in Nat /\ UpToFrame(frameProgress', ratio)
    BY <1>2, <1>3, ProgressKept DEF RepeatFrame
  <2> QED
    BY <1>1, <1>2, <1>3, <2>1
       DEF RepeatFrame, LegalRatio, LoopInv, PhaseInv, ReaderInv, ReadInv, ProgressInv
<1>4. CASE NextFrame /\ phase' = "key"
  <2>1. /\ reader' = Read(reader) /\ lastPlayedFrame' = Read(reader)
        /\ frameProgress' = ProgressLeft(Progress) /\ FrameDue
    BY <1>4 DEF NextFrame, ShowFrame
  <2>2. /\ reader' = [file |-> reader'.file, pos |-> reader'.pos] /\ reader'.pos \in Nat
        /\ lastPlayedFrame' # Freed
    BY <1>2, <2>1, ReadIsNotFreed
  <2>3. frameProgress' \in Nat /\ UpToFrame(frameProgress', ratio)
    BY <1>2, <2>1, ProgressKept
  <2> QED
    BY <1>1, <1>2, <1>4, <2>2, <2>3 DEF LoopInv, PhaseInv, ReaderInv, ReadInv, ProgressInv, LegalRatio
<1>5. CASE EndOfFile /\ phase' = "search"
  <2>1. /\ lastPlayedFrame' = Freed /\ reader' = reader
        /\ frameProgress' = Progress /\ FrameDue
    BY <1>5 DEF EndOfFile
  <2>2. /\ frameProgress' \in Nat /\ frameProgress' >= ratio[2]
        /\ UpToFrame(frameProgress' - ratio[2], ratio)
    BY <1>2, <2>1, ProgressKept
  <2> QED
    BY <1>1, <1>2, <1>5, <2>1, <2>2 DEF LoopInv, PhaseInv, ReaderInv, ReadInv, ProgressInv, LegalRatio
<1> QED
  BY <1>3, <1>4, <1>5 DEF PlaybackFrame

LEMMA SearchStep ==
    ASSUME LoopInv, NEW found \in BOOLEAN, PlaybackSearch(found)
    PROVE  LoopInv'
<1>1. /\ phase = "search" /\ recordMode = "PLAYBACK"
      /\ UNCHANGED <<ratio, writer, offered, files, recordMode, cameraDisplay>>
      /\ TryNextFile(found) /\ phase' = IF found THEN "key" ELSE "search"
  BY DEF PlaybackSearch, loopRest, LoopInv, PhaseInv
<1>2. /\ cameraDisplay /\ writer = Closed /\ lastPlayedFrame = Freed
      /\ ratio \in Int \X (Nat \ {0}) /\ LegalRatio(ratio) /\ offered \in Nat
      /\ frameProgress \in Nat /\ frameProgress >= ratio[2]
      /\ UpToFrame(frameProgress - ratio[2], ratio)
  BY <1>1 DEF LoopInv, ReadInv, ProgressInv
<1>3. PICK file :
        LET opened == [file |-> file, pos |-> 0]
        IN  IF found THEN ShowFrame(opened, frameProgress)
            ELSE reader' = opened /\ UNCHANGED <<frameProgress, lastPlayedFrame>>
  BY <1>1 DEF TryNextFile
<1> DEFINE opened == [file |-> file, pos |-> 0]
<1>4. CASE found
  <2>1. /\ reader' = Read(opened) /\ lastPlayedFrame' = Read(opened)
        /\ frameProgress' = ProgressLeft(frameProgress)
    BY <1>3, <1>4 DEF ShowFrame
  <2>2. Read(opened) = [file |-> file, pos |-> 0 + 1] /\ Read(opened) # Freed
    BY ReadIsNotFreed
  <2>3. reader' = [file |-> reader'.file, pos |-> reader'.pos] /\ reader'.pos \in Nat
    BY <2>1, <2>2
  <2>4. frameProgress' \in Nat /\ UpToFrame(frameProgress', ratio)
    BY <1>2, <2>1 DEF ProgressLeft
  <2> QED
    BY <1>1, <1>2, <1>4, <2>1, <2>2, <2>3, <2>4
       DEF LoopInv, PhaseInv, ReaderInv, ReadInv, ProgressInv, LegalRatio
<1>5. CASE ~found
  <2>1. reader' = opened /\ UNCHANGED <<frameProgress, lastPlayedFrame>>
    BY <1>3, <1>5
  <2>2. reader' = [file |-> reader'.file, pos |-> reader'.pos] /\ reader'.pos \in Nat
    BY <2>1
  <2> QED
    BY <1>1, <1>2, <1>5, <2>1, <2>2 DEF LoopInv, PhaseInv, ReaderInv, ReadInv, ProgressInv, LegalRatio
<1> QED
  BY <1>4, <1>5

LEMMA OtherFrames ==
    ASSUME LoopInv, NoImage \/ NormalFrame \/ RecordingThrows
    PROVE  LoopInv'
BY DEF NoImage, NormalFrame, RecordingThrows, recorderVars, loopRest,
       LoopInv, PhaseInv, ReaderInv, ReadInv, ProgressInv

-----------------------------------------------------------------------------
\* What every key may rely on.
LEMMA AtKey ==
    ASSUME LoopInv, phase = "key"
    PROVE  /\ recordMode \in {"NORMAL", "RECORDING", "PLAYBACK"}
           /\ recordMode = "NORMAL" => writer = Closed
           /\ recordMode # "PLAYBACK" => reader = NoReader /\ lastPlayedFrame = Freed
           /\ recordMode = "PLAYBACK" =>
                 /\ cameraDisplay /\ writer = Closed /\ lastPlayedFrame # Freed
                 /\ reader = [file |-> reader.file, pos |-> reader.pos]
           /\ reader.pos \in Nat
           /\ ratio \in Int \X (Nat \ {0}) /\ LegalRatio(ratio)
           /\ frameProgress \in Nat /\ UpToFrame(frameProgress, ratio) /\ offered \in Nat
           /\ writer # Closed =>
                 /\ writer \in DOMAIN files /\ files[writer] \in Nat
                 /\ files[writer] * ratio[2] + frameProgress = offered * ratio[1]
BY DEF LoopInv, PhaseInv, ReaderInv, ReadInv, ProgressInv

LEMMA RoundPhase ==
    ASSUME NEW requested, Round(requested)
    PROVE  phase' \in {"quit", "frame"}
BY DEF Round

\* A key that leaves the recorder as it is.
LEMMA IdleKey ==
    ASSUME LoopInv, NoKey \/ KeyQuit
    PROVE  LoopInv'
<1>1. /\ phase = "key" /\ UNCHANGED <<recorderVars, recordMode, cameraDisplay>>
      /\ phase' \in {"quit", "frame"}
  BY RoundPhase DEF NoKey, KeyQuit
<1> QED
  BY <1>1 DEF recorderVars, LoopInv, PhaseInv, ReaderInv, ReadInv, ProgressInv

LEMMA RecordKey ==
    ASSUME LoopInv, NEW opened \in BOOLEAN, KeyRecord(opened)
    PROVE  LoopInv'
<1>1. /\ phase = "key" /\ recordMode = "NORMAL" /\ phase' \in {"quit", "frame"}
      /\ StartRecording(opened) /\ recordMode' = IF opened THEN "RECORDING" ELSE "NORMAL"
      /\ UNCHANGED <<ratio, reader, lastPlayedFrame, cameraDisplay>>
  BY RoundPhase DEF KeyRecord, StartRecording, recorderVars
<1>2. CASE opened
  <2> DEFINE num == GetLastFileNum + 1
  <2>1. /\ files' = [n \in DOMAIN files \cup {num} |-> IF n = num THEN 0 ELSE files[n]]
        /\ writer' = num /\ frameProgress' = 0 /\ offered' = 0
    BY <1>1, <1>2 DEF StartRecording
  <2> HIDE DEF num
  <2>2. writer' \in DOMAIN files' /\ files'[writer'] = 0
    BY <2>1
  <2>3. 0 * ratio[2] + 0 = 0 * ratio[1] /\ UpToFrame(0, ratio)
    BY <1>1, AtKey, NoProgress
  <2>4. files'[writer'] * ratio'[2] + frameProgress' = offered' * ratio'[1]
    BY <1>1, <2>1, <2>2, <2>3
  <2> QED
    BY <1>1, <1>2, <2>1, <2>2, <2>3, <2>4, AtKey
       DEF LoopInv, PhaseInv, ReaderInv, ReadInv, ProgressInv, LegalRatio
<1>3. CASE ~opened
  BY <1>1, <1>3 DEF StartRecording, recorderVars, LoopInv, PhaseInv, ReaderInv, ReadInv, ProgressInv
<1> QED
  BY <1>2, <1>3

\* What stopping leaves open, whichever mode is stopped.
LEMMA NothingOpen ==
    ASSUME LoopInv, phase \in {"key", "quit"}, StopMode
    PROVE  /\ writer' = Closed /\ reader' = NoReader /\ lastPlayedFrame' = Freed
           /\ ratio' = ratio /\ frameProgress' = frameProgress /\ offered' \in Nat
<1>1. /\ recordMode = "RECORDING" => writer' = Closed /\ offered' = 0
      /\ recordMode # "RECORDING" => writer' = writer /\ offered' = offered
      /\ recordMode = "PLAYBACK" =>
            reader' = NoReader /\ lastPlayedFrame' = Freed /\ frameProgress' = frameProgress
      /\ recordMode # "PLAYBACK" =>
            reader' = reader /\ lastPlayedFrame' = lastPlayedFrame /\ frameProgress' = frameProgress
      /\ ratio' = ratio
  BY DEF StopMode, StopRecording, StopPlayback, playbackVars
<1> QED
  BY <1>1 DEF LoopInv, PhaseInv, ReadInv, ProgressInv

LEMMA StopKey ==
    ASSUME LoopInv, KeyStop
    PROVE  LoopInv'
<1>1. phase = "key" /\ recordMode' = "NORMAL" /\ phase' \in {"quit", "frame"} /\ StopMode
  BY RoundPhase DEF KeyStop
<1>2. /\ writer' = Closed /\ reader' = NoReader /\ lastPlayedFrame' = Freed
      /\ ratio' = ratio /\ frameProgress' = frameProgress /\ offered' \in Nat
  BY <1>1, NothingOpen
<1>3. reader'.pos = 0
  BY <1>2 DEF NoReader
<1> QED
  BY <1>1, <1>2, <1>3, AtKey DEF LoopInv, PhaseInv, ReaderInv, ReadInv, ProgressInv, LegalRatio

LEMMA PlayKey ==
    ASSUME LoopInv, NEW opened \in BOOLEAN, KeyPlay(opened)
    PROVE  LoopInv'
<1>1. /\ phase = "key" /\ recordMode # "PLAYBACK" /\ phase' \in {"quit", "frame"}
      /\ recordMode' = IF opened THEN "PLAYBACK" ELSE recordMode
      /\ UNCHANGED <<files, ratio, cameraDisplay>>
  BY RoundPhase DEF KeyPlay
<1>2. /\ reader = NoReader /\ lastPlayedFrame = Freed
      /\ writer' = Closed /\ offered' \in Nat
  BY <1>1, AtKey DEF KeyPlay, StopRecording
<1>3. CASE opened
  <2>1. cameraDisplay /\ StartPlayback(opened)
    BY <1>3 DEF KeyPlay
  <2>2. PICK num : /\ reader' = [file |-> num, pos |-> 0] /\ frameProgress' = 0
                   /\ lastPlayedFrame' = Raw
    BY <1>3, <2>1 DEF StartPlayback
  <2>3. reader' = [file |-> reader'.file, pos |-> reader'.pos] /\ reader'.pos = 0
    BY <2>2
  <2>4. lastPlayedFrame' # Freed
    BY <2>2 DEF Raw, Freed, Closed
  <2>5. UpToFrame(0, ratio)
    BY <1>1, AtKey, NoProgress
  <2> QED
    BY <1>1, <1>2, <1>3, <2>1, <2>2, <2>3, <2>4, <2>5, AtKey
       DEF LoopInv, PhaseInv, ReaderInv, ReadInv, ProgressInv, LegalRatio
<1>4. CASE ~opened
  <2>1. reader' = NoReader /\ UNCHANGED <<frameProgress, lastPlayedFrame>>
    BY <1>2, <1>4 DEF KeyPlay, StartPlayback, playbackVars
  <2>2. reader'.pos = 0
    BY <2>1 DEF NoReader
  <2> QED
    BY <1>1, <1>2, <1>4, <2>1, <2>2, AtKey
       DEF LoopInv, PhaseInv, ReaderInv, ReadInv, ProgressInv, LegalRatio
<1> QED
  BY <1>3, <1>4

LEMMA QuitStep ==
    ASSUME LoopInv, Quit
    PROVE  LoopInv'
<1>1. phase = "quit" /\ phase' = "exited" /\ recordMode' = recordMode /\ StopMode
  BY DEF Quit
<1>2. /\ writer' = Closed /\ reader' = NoReader /\ lastPlayedFrame' = Freed
      /\ ratio' = ratio /\ frameProgress' = frameProgress /\ offered' \in Nat
  BY <1>1, NothingOpen
<1>3. reader'.pos = 0
  BY <1>2 DEF NoReader
<1> QED
  BY <1>1, <1>2, <1>3 DEF LoopInv, PhaseInv, ReaderInv, ReadInv, ProgressInv, LegalRatio

\* The user deletes another file than the one that is written.
LEMMA DeleteStep ==
    ASSUME LoopInv, UserDeletes
    PROVE  LoopInv'
<1>1. PICK num \in DOMAIN files \ {writer} :
         /\ files' = [n \in DOMAIN files \ {num} |-> files[n]]
         /\ UNCHANGED <<ratio, frameProgress, writer, reader, lastPlayedFrame, offered>>
         /\ UNCHANGED <<phase, recordMode, cameraDisplay>>
  BY DEF UserDeletes, DeleteFile, loopVars
<1>2. writer # Closed /\ writer \in DOMAIN files =>
         writer \in DOMAIN files' /\ files'[writer] = files[writer]
  BY <1>1
<1> QED
  BY <1>1, <1>2 DEF LoopInv, PhaseInv, ReaderInv, ReadInv, ProgressInv, LegalRatio

-----------------------------------------------------------------------------
LEMMA NextLoopInv == LoopInv /\ [Next]_vars => LoopInv'
<1> SUFFICES ASSUME LoopInv, [Next]_vars PROVE LoopInv'
  OBVIOUS
<1>1. CASE Start
  BY <1>1, StartStep
<1>2. CASE NoImage \/ Frame
  BY <1>2, OtherFrames, RecordingStep, PlaybackStep DEF Frame
<1>3. CASE Search
  BY <1>3, SearchStep DEF Search
<1>4. CASE Key
  BY <1>4, IdleKey, StopKey, RecordKey, PlayKey DEF Key
<1>5. CASE Quit
  BY <1>5, QuitStep
<1>6. CASE UserDeletes
  BY <1>6, DeleteStep
<1>7. CASE Signal \/ Ended \/ UNCHANGED vars
  BY <1>7 DEF Signal, Ended, vars, recorderVars, loopVars,
              LoopInv, PhaseInv, ReaderInv, ReadInv, ProgressInv
<1> QED
  BY <1>1, <1>2, <1>3, <1>4, <1>5, <1>6, <1>7 DEF Next

\* The strengthening: what is open agrees with the mode, with the progress of the rate.
THEOREM LoopInvariant == Spec => []LoopInv
BY InitLoopInv, NextLoopInv, PTL DEF Spec

\* Whatever is recorded, played, refused and deleted, the recorder has open what recordMode
\* says, and nothing once the program has ended (processKey and process of xtrack.cpp).
THEOREM LoopModeAgrees == Spec => []ModeAgrees
<1>1. LoopInv => ModeAgrees
  BY DEF LoopInv, PhaseInv, ReadInv, ModeAgrees
<1> QED
  BY <1>1, LoopInvariant, PTL

\* Of the frames offered to recordFrame the file has the share the ratio asks for, up to one frame
\* that rounding puts off; halvings of the rate, which doubles hold exactly, owe less than one.
THEOREM LoopRateKept == Spec => []RateKept
<1>1. ASSUME LoopInv, writer # Closed
      PROVE  LET owed == offered * ratio[1] - files[writer] * ratio[2]
             IN  owed \in 0 .. ratio[2] /\ (IsHalving(ratio) => owed < ratio[2])
  <2>1. phase \notin {"start", "exited", "search"}
    BY <1>1 DEF LoopInv, PhaseInv, ReadInv
  <2>2. /\ UpToFrame(frameProgress, ratio) /\ frameProgress \in Int
        /\ ratio[1] \in Int /\ ratio[2] \in Int /\ files[writer] \in Int /\ offered \in Int
        /\ files[writer] * ratio[2] + frameProgress = offered * ratio[1]
    BY <1>1, <2>1 DEF LoopInv, ProgressInv
  <2>3. PICK taken \in Int, share \in Int :
           taken = files[writer] * ratio[2] /\ share = offered * ratio[1]
    BY <2>2, OneMore
  <2>4. share - taken = frameProgress
    BY <2>2, <2>3
  <2> QED
    BY <2>2, <2>3, <2>4 DEF UpToFrame
<1>2. LoopInv => RateKept
  BY <1>1 DEF RateKept
<1> QED
  BY <1>2, LoopInvariant, PTL

-----------------------------------------------------------------------------
(***************************************************************************)
(* The search through the directory                                        *)
(***************************************************************************)
\* getNextFileNum, one file after the other.
LEMMA NextFileNumLoop ==
    ASSUME NEW current \in Int, NEW n \in Nat, NEW order \in [1 .. n -> Nat]
    PROVE  \E f \in [0 .. n -> Int] :
              /\ f[0] = -1
              /\ \A k \in 1 .. n :
                    f[k] = IF Nearer(current, f[k - 1], order[k]) THEN order[k] ELSE f[k - 1]
              /\ f[n] = FoldLeft(LAMBDA next, num : IF Nearer(current, next, num) THEN num ELSE next,
                                 -1, order)
<1> DEFINE Step(k, v) == IF Nearer(current, v, order[k]) THEN order[k] ELSE v
           Loop(i) == i = [s \in SUBSET (1 .. n) |->
                              IF s = {} THEN -1 ELSE Step(Max(s), i[s \ {Max(s)}])]
           iter == CHOOSE i : Loop(i)
           f == [k \in 0 .. n |-> iter[1 .. k]]
<1>1. \A k \in 1 .. n, v \in Int : Step(k, v) \in Int
  OBVIOUS
<1>2. DOMAIN order = 1 .. n
  OBVIOUS
<1>3. FoldLeft(LAMBDA next, num : IF Nearer(current, next, num) THEN num ELSE next, -1, order)
        = iter[1 .. n]
  BY <1>2 DEF FoldLeft, MapThenFoldSet
<1>4. \E i : Loop(i)
  <2> DEFINE g == [k \in 1 .. n |-> [v \in Int |-> Step(k, v)]]
  <2>1. \A k \in 1 .. n, v \in Int : g[k][v] = Step(k, v)
    OBVIOUS
  <2> HIDE DEF g, Step
  <2>2. g \in [1 .. n -> [Int -> Int]]
    BY <1>1 DEF g
  <2>3. -1 \in Int
    OBVIOUS
  <2>4. PICK i : Iterates(i, n, Int, -1, g)
    BY <2>2, <2>3, IterationExists
  <2>5. ASSUME NEW s \in SUBSET (1 .. n), s # {}
        PROVE  i[s] = Step(Max(s), i[s \ {Max(s)}])
    <3>1. Max(s) \in s /\ Max(s) \in 1 .. n /\ \A k \in s : Max(s) >= k
      BY <2>5, MaxOfPlaces
    <3>2. s \ {Max(s)} \in SUBSET (1 .. n)
      OBVIOUS
    <3>3. i[s] = g[Max(s)][i[s \ {Max(s)}]] /\ i[s \ {Max(s)}] \in Int
      BY <2>4, <3>1, <3>2 DEF Iterates
    <3> QED
      BY <2>1, <3>1, <3>3
  <2>6. Loop(i)
    BY <2>4, <2>5 DEF Iterates
  <2> QED
    BY <2>6
<1>5. Loop(iter)
  <2> HIDE DEF Loop
  <2> QED
    BY <1>4
<1> HIDE DEF iter
<1>6. f[0] = -1
  BY <1>5
<1>7. \A k \in 1 .. n : f[k] = Step(k, f[k - 1])
  <2> SUFFICES ASSUME NEW k \in 1 .. n PROVE f[k] = Step(k, f[k - 1])
    OBVIOUS
  <2> HIDE DEF Step
  <2>1. /\ 1 .. k \in SUBSET (1 .. n) /\ 1 .. k # {}
        /\ Max(1 .. k) = k /\ (1 .. k) \ {k} = 1 .. k - 1
    BY MaxOfFirstPlaces
  <2>2. iter[1 .. k] = Step(Max(1 .. k), iter[(1 .. k) \ {Max(1 .. k)}])
    BY <1>5, <2>1
  <2>3. iter[1 .. k] = Step(k, iter[1 .. k - 1])
    BY <2>1, <2>2
  <2> QED
    BY <2>3
<1>8. f \in [0 .. n -> Int]
  <2> DEFINE G == {k \in 0 .. n : f[k] \in Int}
  <2> HIDE DEF f, Step
  <2>1. 0 \in G
    BY <1>6
  <2>3. ASSUME NEW k \in 1 .. n, k - 1 \in G PROVE k \in G
    <3>1. f[k - 1] \in Int
      BY <2>3
    <3>2. f[k] = Step(k, f[k - 1]) /\ k \in 0 .. n
      BY <1>7
    <3> QED
      BY <1>1, <3>1, <3>2
  <2>2. \A k \in 0 .. n : k \in G
    <3> HIDE DEF G
    <3> QED
      BY <2>1, <2>3, Rounds
  <2> QED
    BY <2>2 DEF f
<1>9. f[n] = iter[1 .. n]
  OBVIOUS
<1> HIDE DEF f
<1> QED
  BY <1>3, <1>6, <1>7, <1>8, <1>9

\* Of two numbers, m is the one to be played after current.
Nearest(current, m, o) == IF m > current THEN o > current => m <= o ELSE o <= current /\ m <= o

LEMMA NearestIsSuccessor ==
    ASSUME NEW current \in Int, Listed \subseteq Nat, NEW m \in Listed,
           \A o \in Listed : Nearest(current, m, o)
    PROVE  m = Successor(current)
<1> DEFINE above == {o \in Listed : o > current}
<1>3. m \in Int /\ \A o \in Listed : o \in Int
  OBVIOUS
<1>1. CASE m > current
  <2>1. m \in above /\ above \subseteq Nat /\ \A o \in above : m <= o
    BY <1>1 DEF Nearest
  <2> HIDE DEF above
  <2>2. \A o \in above : (\A p \in above : o <= p) => o = m
    BY <2>1
  <2>3. m = Min(above)
    BY <2>1, <2>2 DEF Min
  <2> QED
    BY <2>1, <2>3 DEF Successor, above
<1>2. CASE ~(m > current)
  <2>1. above = {} /\ \A o \in Listed : m <= o
    <3>1. \A o \in Listed : o <= current /\ m <= o
      BY <1>2 DEF Nearest
    <3>2. \A o \in Listed : ~(o > current)
      BY <1>3, <3>1
    <3> QED
      BY <3>1, <3>2
  <2>3. \A o \in Listed : (\A p \in Listed : o <= p) => o = m
    BY <1>3, <2>1
  <2>2. m = Min(Listed)
    BY <2>1, <2>3 DEF Min
  <2> QED
    BY <2>1, <2>2 DEF Successor
<1> QED
  BY <1>1, <1>2

\* Whatever the order in which the directory is listed, getNextFileNum finds the successor.
LEMMA NextIsSuccessor ==
    ASSUME IsFiniteSet(Listed), Listed \subseteq Nat,
           NEW current \in Int, NEW next \in NextFileNums(current)
    PROVE  next = Successor(current)
<1> DEFINE n == Cardinality(Listed)
<1>1. n \in Nat
  BY FS_CardinalityType
<1>2. PICK order \in SetToSeqs(Listed) :
         next = FoldLeft(LAMBDA m, num : IF Nearer(current, m, num) THEN num ELSE m, -1, order)
  BY DEF NextFileNums
<1>3. order \in [1 .. n -> Listed] /\ \A i, j \in 1 .. n : i # j => order[i] # order[j]
  BY DEF SetToSeqs
<1>4. \A o \in Listed : \E k \in 1 .. n : order[k] = o
  <2>1. order \in Injection(1 .. n, Listed)
    BY <1>3 DEF Injection, IsInjective
  <2>2. IsFiniteSet(1 .. n) /\ Cardinality(1 .. n) = n
    BY <1>1, FS_Interval
  <2>3. order \in Surjection(1 .. n, Listed)
    BY <2>1, <2>2, FS_Injection
  <2> QED
    BY <2>3 DEF Surjection
<1>5. order \in [1 .. n -> Nat]
  BY <1>3
<1> HIDE DEF n
<1>6. PICK f \in [0 .. n -> Int] :
         /\ f[0] = -1
         /\ \A k \in 1 .. n :
               f[k] = IF Nearer(current, f[k - 1], order[k]) THEN order[k] ELSE f[k - 1]
         /\ f[n] = next
  BY <1>1, <1>2, <1>5, NextFileNumLoop
<1> DEFINE Good(k) == IF k = 0 THEN f[k] = -1
                      ELSE f[k] \in Listed /\ \A j \in 1 .. k : Nearest(current, f[k], order[j])
           G == {k \in 0 .. n : Good(k)}
<1>7. 0 \in G
  BY <1>1, <1>6
<1>8. ASSUME NEW k \in 1 .. n, k - 1 \in G PROVE k \in G
  <2> DEFINE old == f[k - 1]
             num == order[k]
             new == f[k]
  <2>1. new = IF Nearer(current, old, num) THEN num ELSE old
    BY <1>6
  <2>2. num \in Listed /\ num \in Nat /\ old \in Int /\ k \in Nat
    BY <1>1, <1>3, <1>5, <1>6
  <2>3. CASE k = 1
    <3>1. old = -1
      BY <1>8, <2>3
    <3>2. new = num
      BY <2>1, <3>1 DEF Nearer
    <3>3. Nearest(current, num, num)
      BY <2>2 DEF Nearest
    <3>4. \A j \in 1 .. k : order[j] = num
      BY <2>3
    <3> QED
      BY <2>2, <2>3, <3>2, <3>3, <3>4
  <2>4. CASE k # 1
    <3>1. old \in Listed /\ \A j \in 1 .. k - 1 : Nearest(current, old, order[j])
      BY <1>8, <2>4
    <3>2. new \in Listed
      BY <2>1, <2>2, <3>1
    <3>3. Nearest(current, new, num)
      BY <2>1, <2>2, <3>1 DEF Nearer, Nearest
    <3>4. ASSUME NEW j \in 1 .. k - 1 PROVE Nearest(current, new, order[j])
      <4>1. order[j] \in Nat /\ Nearest(current, old, order[j]) /\ old \in Nat
        BY <1>1, <1>5, <3>1
      <4> QED
        BY <2>1, <2>2, <4>1 DEF Nearer, Nearest
    <3>5. \A j \in 1 .. k : j = k \/ j \in 1 .. k - 1
      OBVIOUS
    <3> QED
      BY <2>4, <3>2, <3>3, <3>4, <3>5
  <2> QED
    BY <2>3, <2>4
<1>9. Good(n)
  <2> HIDE DEF Good
  <2>1. \A k \in 0 .. n : k \in G
    <3> HIDE DEF G
    <3> QED
      BY <1>1, <1>7, <1>8, Rounds
  <2> QED
    BY <1>1, <2>1
<1>10. CASE n = 0
  <2>1. Listed = {}
    BY <1>4, <1>10
  <2> QED
    BY <1>6, <1>9, <1>10, <2>1 DEF Successor
<1>11. CASE n # 0
  <2>1. next \in Listed /\ \A o \in Listed : Nearest(current, next, o)
    BY <1>4, <1>6, <1>9, <1>11
  <2> QED
    BY <2>1, NearestIsSuccessor
<1> QED
  BY <1>10, <1>11

\* The number that a new recording takes is not listed.
LEMMA NewNumber ==
    ASSUME Windows, IsFiniteSet(Listed), Listed \subseteq Nat
    PROVE  GetLastFileNum \in Nat /\ GetLastFileNum + 1 \notin DOMAIN files
<1> DEFINE S == Listed \cup {0}
<1>1. IsFiniteSet(S) /\ S \subseteq Nat /\ S # {}
  BY FS_AddElement
<1>2. GetLastFileNum = Max(S)
  BY DEF GetLastFileNum, LastFileNum
<1>3. DOMAIN files \subseteq S
  BY DEF Listed
<1> HIDE DEF S
<1>4. Max(S) \in S /\ \A o \in S : Max(S) >= o
  BY <1>1, FiniteHasMax
<1>5. PICK m \in Nat : m = Max(S)
  BY <1>1, <1>4
<1>6. \A o \in S : o \in Nat /\ m >= o
  BY <1>1, <1>4, <1>5
<1>7. m + 1 \notin S
  BY <1>6
<1> QED
  BY <1>2, <1>3, <1>5, <1>7

-----------------------------------------------------------------------------
(***************************************************************************)
(* The directory and the place in the file that is played                  *)
(***************************************************************************)
FilesInv ==
    /\ IsFiniteSet(DOMAIN files) /\ DOMAIN files \subseteq Nat
    /\ \A n \in DOMAIN files : files[n] \in Nat
    /\ lastPlayedFileNum \in Int

\* The file that is played is there, not read past its end, and its last frame is the one shown.
PositionInv ==
    recordMode = "PLAYBACK" /\ phase \in {"frame", "key", "quit"} =>
        /\ reader.file \in DOMAIN files /\ reader.pos <= files[reader.file]
        /\ reader.pos > 0 => lastPlayedFrame = reader

PlaceInv == FilesInv /\ PositionInv

LEMMA ListedType == FilesInv => IsFiniteSet(Listed) /\ Listed \subseteq Nat
BY RecorderAssumption, FS_Union DEF FilesInv, Listed

LEMMA NextFileNumType ==
    ASSUME FilesInv, NEW current \in Int, NEW next \in GetNextFileNums(current)
    PROVE  next \in Int /\ (Windows => next = Successor(current))
<1>1. IsFiniteSet(Listed) /\ Listed \subseteq Nat
  BY ListedType
<1>2. CASE Windows
  <2>1. next = Successor(current)
    BY <1>1, <1>2, NextIsSuccessor DEF GetNextFileNums
  <2> DEFINE above == {m \in Listed : m > current}
  <2>2. above \subseteq Nat
    BY <1>1
  <2>3. above # {} => Min(above) \in Int
    <3> HIDE DEF above
    <3>1. ASSUME above # {} PROVE Min(above) \in Nat
      BY <2>2, <3>1, MinIsMember, Zenon
    <3> QED
      BY <3>1
  <2>4. Listed # {} => Min(Listed) \in Int
    <3>1. ASSUME Listed # {} PROVE Min(Listed) \in Nat
      BY <1>1, <3>1, MinIsMember, Zenon
    <3> QED
      BY <3>1
  <2>5. Successor(current) = IF Listed = {} THEN -1 ELSE IF above = {} THEN Min(Listed) ELSE Min(above)
    BY DEF Successor
  <2> HIDE DEF above
  <2>6. Successor(current) \in Int
    <3>1. CASE Listed = {}
      BY <2>5, <3>1
    <3>2. CASE Listed # {} /\ above = {}
      <4>1. Successor(current) = Min(Listed)
        BY <2>5, <3>2
      <4> QED
        BY <1>1, <2>4, <3>2, <4>1
    <3>3. CASE Listed # {} /\ above # {}
      <4>1. Successor(current) = Min(above)
        BY <2>5, <3>3
      <4> QED
        BY <2>2, <2>3, <3>3, <4>1
    <3> QED
      BY <3>1, <3>2, <3>3
  <2> QED
    BY <2>1, <2>6
<1>3. CASE ~Windows
  BY <1>3 DEF GetNextFileNums, MacNextFileNums
<1> QED
  BY <1>2, <1>3

LEMMA InitPlaceInv == Init => PlaceInv
BY RecorderAssumption DEF Init, RecorderInit, PlaceInv, FilesInv, PositionInv

LEMMA RecordingPlace ==
    ASSUME LoopInv, PlaceInv, RecordingFrame
    PROVE  PlaceInv'
<1>1. /\ recordMode' = "RECORDING" /\ lastPlayedFileNum' = lastPlayedFileNum
      /\ files' = files \/ (writer # Closed /\ files' = [files EXCEPT ![writer] = @ + 1])
  BY DEF RecordingFrame, WriteFrame, SkipFrame, loopRest
<1>2. writer # Closed => writer \in DOMAIN files
  BY DEF LoopInv, ProgressInv
<1> QED
  BY <1>1, <1>2 DEF PlaceInv, FilesInv, PositionInv

LEMMA PlaybackPlace ==
    ASSUME LoopInv, PlaceInv, PlaybackFrame
    PROVE  PlaceInv'
<1>1. phase = "frame" /\ recordMode = "PLAYBACK" /\ files' = files /\ recordMode' = recordMode
  BY DEF PlaybackFrame, loopRest
<1>2. /\ reader = [file |-> reader.file, pos |-> reader.pos] /\ reader.pos \in Nat
      /\ reader.file \in DOMAIN files /\ reader.pos <= files[reader.file]
      /\ reader.pos > 0 => lastPlayedFrame = reader
  BY <1>1 DEF LoopInv, ReaderInv, ReadInv, PlaceInv, PositionInv
<1>3. CASE RepeatFrame /\ phase' = "key"
  BY <1>1, <1>2, <1>3 DEF RepeatFrame, PlaceInv, FilesInv, PositionInv
<1>4. CASE NextFrame /\ phase' = "key"
  <2>1. /\ reader' = Read(reader) /\ lastPlayedFrame' = Read(reader)
        /\ lastPlayedFileNum' = lastPlayedFileNum /\ reader.pos < files[reader.file]
    BY <1>4 DEF NextFrame, ShowFrame, HasFrame
  <2>2. Read(reader) = [file |-> reader.file, pos |-> reader.pos + 1]
    BY <1>2, ReadIsNotFreed
  <2>3. files[reader.file] \in Nat
    BY <1>2 DEF PlaceInv, FilesInv
  <2>4. reader'.file = reader.file /\ reader'.pos = reader.pos + 1 /\ lastPlayedFrame' = reader'
    BY <2>1, <2>2
  <2> QED
    BY <1>1, <1>2, <2>1, <2>3, <2>4 DEF PlaceInv, FilesInv, PositionInv
<1>5. CASE EndOfFile /\ phase' = "search"
  BY <1>1, <1>5 DEF EndOfFile, PlaceInv, FilesInv, PositionInv
<1> QED
  BY <1>3, <1>4, <1>5 DEF PlaybackFrame

\* What a round of the search for the next file does.
LEMMA SearchRound ==
    ASSUME LoopInv, PlaceInv, NEW found \in BOOLEAN, PlaybackSearch(found)
    PROVE  /\ phase = "search" /\ files' = files
           /\ lastPlayedFileNum' \in Int
           /\ Windows => lastPlayedFileNum' = Successor(lastPlayedFileNum)
           /\ IF found
              THEN /\ phase' = "key" /\ lastPlayedFrame' = reader' /\ reader'.pos = 1
                   /\ reader'.file \in DOMAIN files /\ reader'.pos <= files[reader'.file]
              ELSE phase' = "search" /\ lastPlayedFrame' = lastPlayedFrame
<1>1. phase = "search" /\ files' = files /\ TryNextFile(found)
  BY DEF PlaybackSearch
<1>2. PICK num \in GetNextFileNums(lastPlayedFileNum) :
        LET opened == [file |-> IF num \in DOMAIN files THEN num ELSE Closed, pos |-> 0]
        IN  /\ lastPlayedFileNum' = num
            /\ IF found THEN ShowFrame(opened, frameProgress)
                        ELSE reader' = opened /\ UNCHANGED lastPlayedFrame
  BY <1>1 DEF TryNextFile
<1>3. num \in Int /\ (Windows => num = Successor(lastPlayedFileNum))
  BY NextFileNumType DEF PlaceInv, FilesInv
<1>4. CASE found
  <2> DEFINE file == IF num \in DOMAIN files THEN num ELSE Closed
             opened == [file |-> file, pos |-> 0]
  <2>1. HasFrame(opened) /\ reader' = Read(opened) /\ lastPlayedFrame' = Read(opened)
    BY <1>2, <1>4 DEF ShowFrame
  <2>2. opened.file = file /\ opened.pos = 0
    OBVIOUS
  <2>3. file \in DOMAIN files /\ 0 < files[file]
    BY <2>1, <2>2 DEF HasFrame
  <2>4. Read(opened) = [file |-> file, pos |-> 1]
    <3> HIDE DEF file
    <3> QED
      BY DEF Read
  <2>5. files[file] \in Nat
    BY <2>3 DEF PlaceInv, FilesInv
  <2> HIDE DEF file
  <2>6. reader'.file = file /\ reader'.pos = 1
    BY <2>1, <2>4
  <2> QED
    BY <1>1, <1>2, <1>3, <1>4, <2>1, <2>3, <2>5, <2>6 DEF PlaybackSearch
<1>5. CASE ~found
  BY <1>1, <1>2, <1>3, <1>5 DEF PlaybackSearch
<1> QED
  BY <1>4, <1>5

\* Every round that begins at a key leaves the files and what is shown as they are.
LEMMA SameKey ==
    ASSUME LoopInv, PlaceInv, phase = "key", phase' \in {"frame", "quit"},
           recordMode' = recordMode,
           UNCHANGED <<files, reader, lastPlayedFrame, lastPlayedFileNum>>
    PROVE  PlaceInv'
BY DEF PlaceInv, FilesInv, PositionInv

\* Opening a file for writing adds it to the directory.
LEMMA RecordPlace ==
    ASSUME LoopInv, PlaceInv, NEW opened \in BOOLEAN, KeyRecord(opened)
    PROVE  PlaceInv'
<1> DEFINE num == GetLastFileNum + 1
<1>1. num \in Nat
  <2>1. CASE Windows
    BY <2>1, ListedType, NewNumber DEF PlaceInv
  <2>2. CASE ~Windows
    BY <2>2 DEF GetLastFileNum, MacLastFileNum
  <2> QED
    BY <2>1, <2>2
<1>2. phase = "key" /\ phase' \in {"frame", "quit"} /\ recordMode = "NORMAL"
  BY DEF KeyRecord, Round
<1> HIDE DEF num
<1>3. CASE opened
  <2>1. /\ files' = [n \in DOMAIN files \cup {num} |-> IF n = num THEN 0 ELSE files[n]]
        /\ lastPlayedFileNum' = num /\ recordMode' = "RECORDING"
    BY <1>3 DEF KeyRecord, StartRecording, num
  <2>2. IsFiniteSet(DOMAIN files \cup {num})
    BY FS_AddElement DEF PlaceInv, FilesInv
  <2>3. DOMAIN files' = DOMAIN files \cup {num}
    BY <2>1
  <2>4. \A n \in DOMAIN files' : files'[n] \in Nat
    BY <2>1 DEF PlaceInv, FilesInv
  <2> QED
    BY <1>1, <2>1, <2>2, <2>3, <2>4 DEF PlaceInv, FilesInv, PositionInv
<1>4. CASE ~opened
  BY <1>2, <1>4, SameKey DEF KeyRecord, StartRecording, recorderVars
<1> QED
  BY <1>3, <1>4

LEMMA PlayPlace ==
    ASSUME LoopInv, PlaceInv, NEW opened \in BOOLEAN, KeyPlay(opened)
    PROVE  PlaceInv'
<1>1. /\ phase = "key" /\ phase' \in {"frame", "quit"} /\ recordMode # "PLAYBACK"
      /\ files' = files /\ recordMode' = IF opened THEN "PLAYBACK" ELSE recordMode
  BY DEF KeyPlay, Round
<1>2. CASE opened
  <2>1. PICK num \in FirstPlayed :
          /\ Opens(num, opened)
          /\ reader' = [file |-> num, pos |-> 0] /\ lastPlayedFileNum' = num
    BY <1>2 DEF KeyPlay, StartPlayback
  <2>2. num \in DOMAIN files
    BY <1>2, <2>1 DEF Opens
  <2>3. num \in Nat /\ files[num] \in Nat
    BY <2>2 DEF PlaceInv, FilesInv
  <2>4. reader'.file = num /\ reader'.pos = 0
    BY <2>1
  <2> QED
    BY <1>1, <2>1, <2>2, <2>3, <2>4 DEF PlaceInv, FilesInv, PositionInv
<1>3. CASE ~opened
  <2>1. lastPlayedFileNum' = lastPlayedFileNum
    BY <1>3 DEF KeyPlay, StartPlayback, playbackVars
  <2> QED
    BY <1>1, <1>3, <2>1 DEF PlaceInv, FilesInv, PositionInv
<1> QED
  BY <1>2, <1>3

\* Nothing of the directory changes when a recording or a playback stops.
LEMMA StopPlace ==
    ASSUME LoopInv, PlaceInv, KeyStop \/ Quit
    PROVE  PlaceInv'
<1>1. files' = files /\ lastPlayedFileNum' = lastPlayedFileNum
  BY DEF KeyStop, Quit, StopMode, StopPlayback, playbackVars
<1>2. recordMode' = "NORMAL" \/ phase' = "exited"
  BY DEF KeyStop, Quit
<1> QED
  BY <1>1, <1>2 DEF PlaceInv, FilesInv, PositionInv

\* The user does not delete what is open.
LEMMA DeletePlace ==
    ASSUME LoopInv, PlaceInv, UserDeletes
    PROVE  PlaceInv'
<1>1. PICK num \in DOMAIN files :
        /\ num # reader.file
        /\ files' = [n \in DOMAIN files \ {num} |-> files[n]]
        /\ UNCHANGED <<reader, lastPlayedFileNum, lastPlayedFrame>>
        /\ phase' = phase /\ recordMode' = recordMode
  BY DEF UserDeletes, DeleteFile, loopVars
<1>2. IsFiniteSet(DOMAIN files \ {num})
  BY FS_Difference, FS_Singleton DEF PlaceInv, FilesInv
<1>3. DOMAIN files' = DOMAIN files \ {num}
  BY <1>1
<1>4. \A n \in DOMAIN files' : n \in DOMAIN files /\ files'[n] = files[n]
  BY <1>1, <1>3
<1>5. \A n \in DOMAIN files : n # num => n \in DOMAIN files' /\ files'[n] = files[n]
  BY <1>1, <1>3
<1> QED
  BY <1>1, <1>2, <1>3, <1>4, <1>5 DEF PlaceInv, FilesInv, PositionInv

LEMMA NextPlaceInv == LoopInv /\ PlaceInv /\ [Next]_vars => PlaceInv'
<1> SUFFICES ASSUME LoopInv, PlaceInv, [Next]_vars PROVE PlaceInv'
  OBVIOUS
<1>1. CASE Start
  <2>1. UNCHANGED <<files, lastPlayedFileNum>> /\ recordMode' = "NORMAL"
    BY <1>1 DEF Start, CameraFails, PreparationFails, Prepare, recorderVars, LoopInv, PhaseInv
  <2> QED
    BY <2>1 DEF PlaceInv, FilesInv, PositionInv
<1>2. CASE NoImage \/ NormalFrame \/ RecordingThrows
  BY <1>2 DEF NoImage, NormalFrame, RecordingThrows, recorderVars, loopRest,
              PlaceInv, FilesInv, PositionInv
<1>3. CASE Search
  <2>1. PICK found \in BOOLEAN : PlaybackSearch(found)
    BY <1>3 DEF Search
  <2>2. /\ phase = "search" /\ files' = files /\ lastPlayedFileNum' \in Int
        /\ IF found
           THEN /\ phase' = "key" /\ lastPlayedFrame' = reader' /\ reader'.pos = 1
                /\ reader'.file \in DOMAIN files /\ reader'.pos <= files[reader'.file]
           ELSE phase' = "search"
    BY <2>1, SearchRound
  <2> QED
    BY <2>2 DEF PlaceInv, FilesInv, PositionInv
<1>4. CASE NoKey \/ KeyQuit
  BY <1>4, SameKey DEF NoKey, KeyQuit, Round, recorderVars
<1>5. CASE Signal \/ Ended \/ UNCHANGED vars
  BY <1>5 DEF Signal, Ended, vars, recorderVars, loopVars, PlaceInv, FilesInv, PositionInv
<1> QED
  BY <1>1, <1>2, <1>3, <1>4, <1>5, RecordingPlace, PlaybackPlace, RecordPlace, PlayPlace,
     StopPlace, DeletePlace DEF Next, Frame, Key

THEOREM LoopPlaceInvariant == Spec => [](LoopInv /\ PlaceInv)
<1>1. LoopInv /\ PlaceInv /\ [Next]_vars => PlaceInv'
  BY NextPlaceInv
<1> QED
  BY <1>1, InitLoopInv, InitPlaceInv, NextLoopInv, PTL DEF Spec

-----------------------------------------------------------------------------
(***************************************************************************)
(* Recordings are new files, and the playback keeps the order              *)
(***************************************************************************)
\* The writer is closed in every step but one.
LEMMA WriterOpened ==
    ASSUME LoopInv, [Next]_vars, writer' \notin {writer, Closed}
    PROVE  writer' = GetLastFileNum + 1
<1>1. CASE Start
  BY <1>1 DEF Start, CameraFails, PreparationFails, Prepare, recorderVars
<1>2. CASE NoImage \/ Frame
  BY <1>2 DEF NoImage, Frame, NormalFrame, RecordingFrame, WriteFrame, SkipFrame, RecordingThrows,
              PlaybackFrame, recorderVars
<1>3. CASE Search
  BY <1>3 DEF Search, PlaybackSearch
<1>4. CASE Key
  <2>1. CASE NoKey \/ KeyQuit \/ KeyStop
    BY <2>1 DEF NoKey, KeyQuit, KeyStop, StopMode, StopRecording, recorderVars
  <2>2. ASSUME NEW opened \in BOOLEAN, KeyRecord(opened) PROVE writer' = GetLastFileNum + 1
    BY <2>2 DEF KeyRecord, StartRecording, recorderVars
  <2>3. ASSUME NEW opened \in BOOLEAN, KeyPlay(opened) PROVE FALSE
    BY <2>3 DEF KeyPlay, StopRecording
  <2> QED
    BY <1>4, <2>1, <2>2, <2>3 DEF Key
<1>5. CASE Quit \/ UserDeletes
  BY <1>5 DEF Quit, StopMode, StopRecording, UserDeletes, DeleteFile
<1>6. CASE Signal \/ Ended \/ UNCHANGED vars
  BY <1>6 DEF Signal, Ended, vars, recorderVars
<1> QED
  BY <1>1, <1>2, <1>3, <1>4, <1>5, <1>6 DEF Next

\* getLastFileNum looks at every file of the directory before a number is taken (record.cpp):
\* whatever was recorded, deleted or copied there, a new recording is a new file.  The Mac
\* variant has no search, and does overwrite.
THEOREM LoopNeverOverwrites ==
    ASSUME Windows
    PROVE  Spec => NeverOverwrites
<1>1. LoopInv /\ PlaceInv /\ [Next]_vars =>
         [writer' \notin {writer, Closed} => writer' \notin DOMAIN files]_vars
  <2> SUFFICES ASSUME LoopInv, PlaceInv, [Next]_vars, writer' \notin {writer, Closed}
               PROVE  writer' \notin DOMAIN files
    OBVIOUS
  <2> QED
    BY WriterOpened, ListedType, NewNumber DEF PlaceInv
<1> QED
  BY <1>1, LoopPlaceInvariant, PTL DEF Spec, NeverOverwrites

\* The search is left alone by every step but a round of it and a signal.
LEMMA SearchLeft ==
    ASSUME LoopInv, PlaceInv, [Next]_vars, phase = "search"
    PROVE  (\E found \in BOOLEAN : PlaybackSearch(found)) \/ Signal \/ UNCHANGED vars
BY DEF Next, Start, CameraFails, PreparationFails, Prepare, NoImage, Frame, NormalFrame,
       RecordingFrame, RecordingThrows, PlaybackFrame, Search, Key, NoKey, KeyQuit, KeyStop,
       KeyRecord, KeyPlay, Quit, UserDeletes, Ended

\* It is entered at the end of the file.
LEMMA SearchEntered ==
    ASSUME LoopInv, PlaceInv, [Next]_vars, phase = "frame", phase' = "search"
    PROVE  reader.pos = files[reader.file]
<1>1. PlaybackFrame /\ EndOfFile
  BY DEF Next, Start, CameraFails, PreparationFails, Prepare, NoImage, Frame, NormalFrame,
         RecordingFrame, RecordingThrows, PlaybackFrame, Search, PlaybackSearch, Key, NoKey,
         KeyQuit, KeyStop, KeyRecord, KeyPlay, Quit, UserDeletes, Signal, Ended, vars, loopVars
<1>2. recordMode = "PLAYBACK"
  BY <1>1 DEF PlaybackFrame
<1>3. reader.file \in DOMAIN files /\ reader.pos <= files[reader.file]
  BY <1>2 DEF PlaceInv, PositionInv
<1>4. ~(reader.pos < files[reader.file])
  BY <1>1, <1>3 DEF EndOfFile, HasFrame
<1>5. reader.pos \in Nat /\ files[reader.file] \in Nat
  BY <1>3 DEF LoopInv, ReaderInv, PlaceInv, FilesInv
<1> QED
  BY <1>3, <1>4, <1>5

\* What is shown changes to the next picture of the file, to a first one, or is no picture.
LEMMA NextPicture ==
    ASSUME LoopInv, PlaceInv, [Next]_vars, lastPlayedFrame' # lastPlayedFrame
    PROVE  \/ lastPlayedFrame' \in {Raw, Freed} \/ lastPlayedFrame'.pos = 1
           \/ lastPlayedFrame' = Read(lastPlayedFrame)
<1>1. CASE Start \/ NoImage
  BY <1>1 DEF Start, CameraFails, PreparationFails, Prepare, NoImage, recorderVars
<1>2. CASE NormalFrame \/ RecordingFrame \/ RecordingThrows
  BY <1>2 DEF NormalFrame, RecordingFrame, WriteFrame, SkipFrame, RecordingThrows, recorderVars
<1>3. CASE PlaybackFrame
  <2>1. phase = "frame" /\ recordMode = "PLAYBACK"
    BY <1>3 DEF PlaybackFrame
  <2>2. /\ reader = [file |-> reader.file, pos |-> reader.pos] /\ reader.pos \in Nat
        /\ reader.pos > 0 => lastPlayedFrame = reader
    BY <2>1 DEF LoopInv, ReaderInv, ReadInv, PlaceInv, PositionInv
  <2>3. CASE NextFrame
    <3>1. lastPlayedFrame' = Read(reader)
      BY <2>3 DEF NextFrame, ShowFrame
    <3>2. CASE reader.pos > 0
      BY <2>2, <3>1, <3>2
    <3>3. CASE ~(reader.pos > 0)
      <4>1. Read(reader).pos = reader.pos + 1 /\ reader.pos = 0
        BY <2>2, <3>3, ReadIsNotFreed
      <4> QED
        BY <3>1, <4>1
    <3> QED
      BY <3>2, <3>3
  <2>4. CASE RepeatFrame \/ EndOfFile
    BY <2>4 DEF RepeatFrame, EndOfFile
  <2> QED
    BY <1>3, <2>3, <2>4 DEF PlaybackFrame
<1>4. CASE Search
  <2>1. PICK found \in BOOLEAN : PlaybackSearch(found)
    BY <1>4 DEF Search
  <2>2. IF found THEN lastPlayedFrame' = reader' /\ reader'.pos = 1
                 ELSE lastPlayedFrame' = lastPlayedFrame
    BY <2>1, SearchRound
  <2> QED
    BY <2>2
<1>5. CASE Key
  <2>1. CASE NoKey \/ KeyQuit \/ KeyStop
    BY <2>1 DEF NoKey, KeyQuit, KeyStop, StopMode, StopPlayback, playbackVars, recorderVars
  <2>2. ASSUME NEW opened \in BOOLEAN, KeyRecord(opened) PROVE FALSE
    BY <2>2 DEF KeyRecord, StartRecording, recorderVars
  <2>3. ASSUME NEW opened \in BOOLEAN, KeyPlay(opened) PROVE lastPlayedFrame' = Raw
    BY <2>3 DEF KeyPlay, StartPlayback, playbackVars
  <2> QED
    BY <1>5, <2>1, <2>2, <2>3 DEF Key
<1>6. CASE Quit
  BY <1>6 DEF Quit, StopMode, StopPlayback, playbackVars
<1>7. CASE UserDeletes \/ Signal \/ Ended \/ UNCHANGED vars
  BY <1>7 DEF UserDeletes, DeleteFile, Signal, Ended, vars, recorderVars
<1> QED
  BY <1>1, <1>2, <1>3, <1>4, <1>5, <1>6, <1>7 DEF Next, Frame

\* playbackFrame and getNextFileNum (record.cpp): a file is left at its end only, the next one is
\* the successor in the directory however it is listed and whatever was deleted, and of a file
\* every frame is shown, one after the other.
THEOREM LoopPlaysInOrder ==
    ASSUME Windows
    PROVE  Spec => PlaysInOrder
<1> DEFINE Searched == phase = "search" /\ term_requested' = term_requested =>
                          lastPlayedFileNum' = Successor(lastPlayedFileNum)
           Left == phase = "frame" /\ phase' = "search" => reader.pos = files[reader.file]
           Shown == lastPlayedFrame'.pos > 1 =>
                       lastPlayedFrame' \in {lastPlayedFrame, Read(lastPlayedFrame)}
<1>1. ASSUME LoopInv, PlaceInv, [Next]_vars PROVE [Searched /\ Left /\ Shown]_vars
  <2> SUFFICES ASSUME ~UNCHANGED vars PROVE Searched /\ Left /\ Shown
    OBVIOUS
  <2>1. Searched
    <3> SUFFICES ASSUME phase = "search", term_requested' = term_requested
                 PROVE  lastPlayedFileNum' = Successor(lastPlayedFileNum)
      OBVIOUS
    <3>1. PICK found \in BOOLEAN : PlaybackSearch(found)
      BY <1>1, SearchLeft DEF Signal
    <3> QED
      BY <1>1, <3>1, SearchRound
  <2>2. Left
    BY <1>1, SearchEntered
  <2>3. Shown
    <3> SUFFICES ASSUME lastPlayedFrame'.pos > 1, lastPlayedFrame' # lastPlayedFrame
                 PROVE  lastPlayedFrame' = Read(lastPlayedFrame)
      OBVIOUS
    <3>1. Raw.pos = 0 /\ Freed.pos = -1
      BY DEF Raw, Freed, Closed
    <3> QED
      BY <1>1, <3>1, NextPicture
  <2> QED
    BY <2>1, <2>2, <2>3
<1>2. LoopInv /\ PlaceInv /\ [Next]_vars => [Searched /\ Left /\ Shown]_vars
  BY <1>1
<1> QED
  BY <1>2, LoopPlaceInvariant, PTL DEF Spec, PlaysInOrder
=============================================================================
