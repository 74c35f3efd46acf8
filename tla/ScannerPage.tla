----------------------------- MODULE ScannerPage -----------------------------
(***************************************************************************)
(* The guard's scanner page (scanner.js): one camera, the frames read from *)
(* it, and the look-up of the code found in a frame.                       *)
(*                                                                         *)
(* startQrCamera, a frame and a look-up each wait for the browser or the   *)
(* server and go on with whatever the shared variables hold by then; Stop, *)
(* another Start, another section or a logout may have come in between.    *)
(***************************************************************************)
EXTENDS Naturals, FiniteSets

CONSTANTS
  Badges,       \* codes EMP1. of employees
  Labels,       \* codes that are neither EMP1. nor a pass's own GP1.
  PassCodes,    \* codes GP1. and FRS|, which name their pass
  Loops,        \* bound: chains of frames at once
  MaxStarts     \* bound: cameras started

Codes == Badges \cup Labels \cup PassCodes
NoCode == "no code"

ASSUME ScannerAssumption == NoCode \notin Codes /\ Loops # {} /\ MaxStarts \in Nat \ {0}

VARIABLES
  signedIn,     \* a guard is signed in
  onScanner,    \* the section guardScan is visible
  capturing,    \* streams whose tracks run
  stream,       \* qrCameraStream; 0: null
  scanning,     \* qrCameraScanning
  startEnabled, \* the Start button is enabled, and Stop is not
  starting,     \* [Starts -> the calls of startQrCamera]
  switching,    \* a call of switchCameraDevice is under way
  loop,         \* [Loops -> the chains of scanQrCameraFrame]
  handle,       \* the chain whose frame qrCameraAnimationFrame names
  cooling       \* codes in qrClientCooldowns

scannerVars == <<signedIn, onScanner, capturing, stream, scanning, startEnabled, starting,
                 switching, loop, handle, cooling>>

\* Each start asks for a stream of its own: number k gets stream k.
Starts == 1 .. MaxStarts
NoLoop == [at |-> "none", code |-> NoCode]
Frame == [at |-> "frame", code |-> NoCode]
LookingUp == {l \in Loops : loop[l].at \in {"employee", "queue", "history"}}

ScannerInit ==
  /\ signedIn = TRUE /\ onScanner = TRUE
  /\ capturing = {} /\ stream = 0 /\ scanning = FALSE /\ startEnabled = TRUE
  /\ starting = [k \in Starts |-> "unused"] /\ switching = FALSE
  /\ loop = [l \in Loops |-> NoLoop] /\ handle = {}
  /\ cooling = {}
-----------------------------------------------------------------------------
(* The camera.                                                              *)

\* stopQrCamera: only the frame asked for last is cancelled, only the stream
\* known last is stopped.
StopCamera(loops) ==
  /\ scanning' = FALSE
  /\ startEnabled' = TRUE
  /\ capturing' = capturing \ {stream}
  /\ stream' = 0
  /\ handle' = {}
  /\ loop' = [l \in Loops |-> IF l \in handle /\ loops[l].at = "frame" THEN NoLoop ELSE loops[l]]

\* startQrCamera up to its first await.
BeginStart ==
  /\ \E k \in Starts :
       /\ starting[k] = "unused" /\ \A j \in Starts : j < k => starting[j] # "unused"
       /\ starting' = [starting EXCEPT ![k] = "asking"]
  /\ StopCamera(loop)

PressStart ==
  /\ signedIn /\ onScanner /\ startEnabled
  /\ BeginStart
  /\ UNCHANGED <<signedIn, onScanner, switching, cooling>>

PressStop ==
  /\ signedIn /\ onScanner /\ ~startEnabled
  /\ StopCamera(loop)
  /\ UNCHANGED <<signedIn, onScanner, starting, switching, cooling>>

\* switchCameraDevice lists the devices, then starts again if frames are read.
PressSwitch ==
  /\ signedIn /\ onScanner /\ ~switching
  /\ switching' = TRUE
  /\ UNCHANGED <<signedIn, onScanner, capturing, stream, scanning, startEnabled, starting,
                 loop, handle, cooling>>

TakeDevices ==
  /\ switching
  /\ switching' = FALSE
  /\ \/ scanning /\ BeginStart
     \/ /\ ~scanning
        /\ UNCHANGED <<capturing, stream, scanning, startEnabled, starting, loop, handle>>
  /\ UNCHANGED <<signedIn, onScanner, cooling>>

FailStart(k) ==
  /\ starting' = [starting EXCEPT ![k] = "done"]
  /\ StopCamera(loop)
  /\ UNCHANGED <<signedIn, onScanner, switching, cooling>>

\* getUserMedia answers; a stream that is there already is forgotten.
TakeStream(k) ==
  /\ starting[k] = "asking"
  /\ \/ /\ stream' = k
        /\ capturing' = capturing \cup {k}
        /\ starting' = [starting EXCEPT ![k] = "playing"]
        /\ UNCHANGED <<signedIn, onScanner, scanning, startEnabled, switching, loop, handle, cooling>>
     \/ FailStart(k)

\* video.play() answers; it fails when the video was given another source, or none.
TakePlay(k) ==
  /\ starting[k] = "playing"
  /\ \/ /\ stream = k
        /\ scanning' = TRUE
        /\ startEnabled' = FALSE
        /\ starting' = [starting EXCEPT ![k] = "listing"]
        /\ UNCHANGED <<signedIn, onScanner, capturing, stream, switching, loop, handle, cooling>>
     \/ FailStart(k)

\* A new chain of frames; a chain finds out about scanning at its next frame.
BeginLoop == \E l \in Loops : /\ loop[l] = NoLoop
                              /\ loop' = [loop EXCEPT ![l] = Frame]
                              /\ handle' = {l}

\* initializeQrCameras is through (it catches its errors): reading begins.
TakeList(k) ==
  /\ starting[k] = "listing"
  /\ starting' = [starting EXCEPT ![k] = "done"]
  /\ \/ scanning /\ BeginLoop
     \/ ~scanning /\ UNCHANGED <<loop, handle>>
  /\ UNCHANGED <<signedIn, onScanner, capturing, stream, scanning, startEnabled, switching, cooling>>
-----------------------------------------------------------------------------
(* Frames.                                                                  *)

SetLoop(l, c) == loop' = [loop EXCEPT ![l] = c]

\* scanQrCameraFrame up to the await of the detector.
ReadFrame(l) ==
  /\ loop[l].at = "frame"
  /\ SetLoop(l, IF scanning THEN [Frame EXCEPT !.at = "detecting"] ELSE NoLoop)
  /\ handle' = handle \ {l}
  /\ UNCHANGED <<signedIn, onScanner, capturing, stream, scanning, startEnabled, starting,
                 switching, cooling>>

\* Mutant: the code is looked up whenever one is seen.
AlwaysTaken(c) == scanning

\* A code is taken when frames are still read and it does not cool down.
Taken(c) == scanning /\ c \notin cooling

FirstCall(c) == IF c \in PassCodes THEN "open" ELSE "employee"

\* The detector answers: nothing, or nothing to take, and the next frame is
\* asked for; or a code.  Without a user simulateQrScan throws before it calls
\* anything; the frame's catch goes on with the next frame.
TakeFrame(l) ==
  /\ loop[l].at = "detecting"
  /\ \/ \E c \in Codes :
          /\ Taken(c)
          /\ cooling' = cooling \cup {c}
          /\ scanning' = FALSE
          /\ IF signedIn
             THEN SetLoop(l, [at |-> FirstCall(c), code |-> c]) /\ UNCHANGED handle
             ELSE SetLoop(l, Frame) /\ handle' = {l}
     \/ SetLoop(l, Frame) /\ handle' = {l} /\ UNCHANGED <<scanning, cooling>>
  /\ UNCHANGED <<signedIn, onScanner, capturing, stream, startEnabled, starting, switching>>
-----------------------------------------------------------------------------
(* simulateQrScan for a code of the camera.                                 *)

\* The look-up found a pass or a list of them: the camera is stopped.
Found(l) ==
  /\ StopCamera([loop EXCEPT ![l] = NoLoop])
  /\ UNCHANGED cooling

\* Mutant: frames are read again without a look at the camera.
ResumeBlindly(l) ==
  /\ cooling' = cooling \ {loop[l].code}
  /\ scanning' = TRUE
  /\ SetLoop(l, Frame) /\ handle' = {l}
  /\ UNCHANGED <<capturing, stream, startEnabled>>

\* Mutant: an error shows its message and leaves it at that.
GiveUp(l) ==
  /\ cooling' = cooling \ {loop[l].code}
  /\ SetLoop(l, NoLoop)
  /\ UNCHANGED <<capturing, stream, startEnabled, scanning, handle>>

\* It found nothing, or failed: the code may come again and resumeQrScanning
\* goes on if there is a camera and nobody reads its frames.
NotFound(l) ==
  /\ cooling' = cooling \ {loop[l].code}
  /\ \/ /\ stream # 0 /\ ~scanning
        /\ scanning' = TRUE
        /\ SetLoop(l, Frame) /\ handle' = {l}
     \/ /\ stream = 0 \/ scanning
        /\ SetLoop(l, NoLoop)
        /\ UNCHANGED <<scanning, handle>>
  /\ UNCHANGED <<capturing, stream, startEnabled>>

Call(l, at) ==
  /\ SetLoop(l, [loop[l] EXCEPT !.at = at])
  /\ UNCHANGED <<capturing, stream, scanning, startEnabled, handle, cooling>>

LookupRest == UNCHANGED <<signedIn, onScanner, starting, switching>>

\* The pass a code names is opened without a call.
OpenPass(l) == loop[l].at = "open" /\ Found(l) /\ LookupRest

\* handleGlobalQrScan and the manual path: the employee's passes; the queue if
\* that call fails.
TakeEmployee(l) ==
  /\ loop[l].at = "employee"
  /\ Found(l) \/ NotFound(l) \/ Call(l, "queue")
  /\ LookupRest

\* The fallback of a badge ends here; handleManualEntryLookup asks for the
\* history when the queue does not hold the pass.
TakeQueue(l) ==
  /\ loop[l].at = "queue"
  /\ Found(l) \/ NotFound(l) \/ (loop[l].code \in Labels /\ Call(l, "history"))
  /\ LookupRest

TakeHistory(l) ==
  /\ loop[l].at = "history"
  /\ Found(l) \/ NotFound(l)
  /\ LookupRest

Lookup(l) == OpenPass(l) \/ TakeEmployee(l) \/ TakeQueue(l) \/ TakeHistory(l)
-----------------------------------------------------------------------------
(* What happens around the scanner.                                         *)

\* The 30 seconds of a code are over; a look-up is answered before that.
CoolDown(c) ==
  /\ c \in cooling
  /\ \A l \in LookingUp : loop[l].code # c
  /\ cooling' = cooling \ {c}
  /\ UNCHANGED <<signedIn, onScanner, capturing, stream, scanning, startEnabled, starting,
                 switching, loop, handle>>

\* switchSection stops the camera unless it leads to the scanner itself.
SwitchSection ==
  /\ signedIn
  /\ \/ onScanner' = FALSE /\ StopCamera(loop)
     \/ onScanner' = TRUE /\ UNCHANGED <<capturing, stream, scanning, startEnabled, loop, handle>>
  /\ UNCHANGED <<signedIn, starting, switching, cooling>>

\* Logging out leaves the camera as it is.
GuardLogout ==
  /\ signedIn
  /\ signedIn' = FALSE
  /\ UNCHANGED <<onScanner, capturing, stream, scanning, startEnabled, starting, switching,
                 loop, handle, cooling>>

ScannerNext ==
  \/ PressStart \/ PressStop \/ PressSwitch \/ TakeDevices
  \/ \E k \in Starts : TakeStream(k) \/ TakePlay(k) \/ TakeList(k)
  \/ \E l \in Loops : ReadFrame(l) \/ TakeFrame(l) \/ Lookup(l)
  \/ \E c \in Codes : CoolDown(c)
  \/ SwitchSection \/ GuardLogout

ScannerSpec == ScannerInit /\ [][ScannerNext]_scannerVars

\* The video plays or fails, and every look-up is answered.
ScannerFairness ==
  /\ \A k \in Starts : WF_scannerVars(TakePlay(k)) /\ WF_scannerVars(TakeList(k))
  /\ \A l \in Loops : WF_scannerVars(Lookup(l))
-----------------------------------------------------------------------------
ScannerTypeOK ==
  /\ {signedIn, onScanner, scanning, startEnabled, switching} \subseteq BOOLEAN
  /\ capturing \subseteq Starts /\ stream \in {0} \cup Starts
  /\ starting \in [Starts -> {"unused", "asking", "playing", "listing", "done"}]
  /\ loop \in [Loops -> [at : {"none", "frame", "detecting", "open", "employee", "queue", "history"},
                         code : Codes \cup {NoCode}]]
  /\ handle \subseteq Loops /\ cooling \subseteq Codes

\* "Camera active. Hold QR in frame.": whenever the page claims to scan there is
\* a running camera behind it and a chain of frames reads it, whatever Stop,
\* Start, another camera or a late look-up did in between.
ActiveMeansReading ==
  scanning =>
    /\ stream \in capturing
    /\ \/ \E l \in Loops : loop[l].at \in {"frame", "detecting"}
       \/ \E k \in Starts : starting[k] = "listing"

\* Two chains of frames that see the same badge do not look it up side by side
\* (the 30 seconds of qrClientCooldowns).
OneLookupPerCode ==
  \A l, m \in LookingUp : loop[l].code = loop[m].code => l = m

\* A guard is never left with a camera that runs and is not read: a code that
\* leads nowhere, and a start that fails half-way, end in scanning or in Start.
ScannerGoesOn == (signedIn /\ stream # 0 /\ ~scanning) ~> (scanning \/ stream = 0 \/ ~signedIn)
=============================================================================
