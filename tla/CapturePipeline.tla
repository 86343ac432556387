-------------------------- MODULE CapturePipeline --------------------------
(***************************************************************************)
(* The capture pipeline of the C++ client: Start and Stop, the grab loop   *)
(* and the two frame filters it consults (capture_pipeline.cpp,            *)
(* scene_change_detector.cpp, adaptive_frame_filter.cpp), with the mode    *)
(* calls of PipelineMode racing with the loop.                             *)
(*                                                                         *)
(* A frame is the scene it shows.  What OpenCV computes of a scene, its    *)
(* DCT, its scaled grey image, its histogram's distance to another and its *)
(* sharpness, are parameters; what the filters make of them is modelled.   *)
(* Times are ages: how many ticks ago something happened, up to the        *)
(* interval it is compared with; "never" (a zero time_point) counts as     *)
(* that long ago.                                                          *)
(***************************************************************************)
EXTENDS Integers, FiniteSets

CONSTANTS
  Notifiers, Rtc,  \* the threads of PipelineMode
  Scenes,
  None,            \* no frame
  Coeffs, Dct,     \* the coefficients of the top-left DCT block (0 is DC)
  HistFar,         \* the pairs of scenes with bhatt > hist_threshold
  PhashThreshold,  \* cfg_.phash_threshold
  Pixels, Gray,    \* the pixels of the scaled grey image
  DiffThreshold,   \* cfg_.diff_threshold
  MinDiffPixels,   \* cfg_.min_diff_ratio, in pixels
  Blurry,          \* the scenes with Sharpness < sharpness_floor
  ForcedInterval,  \* 1 / kForcedFps, in ticks
  MinInterval      \* 1 / cfg_.max_fps, in ticks

ASSUME SceneAssumption ==
  /\ None \notin Scenes
  /\ Dct \in [Scenes -> [Coeffs -> Int]] /\ 0 \in Coeffs
  /\ Gray \in [Scenes -> [Pixels -> 0..255]] /\ DiffThreshold \in Nat
  /\ HistFar \subseteq Scenes \X Scenes
  /\ \A s \in Scenes : <<s, s>> \notin HistFar
  /\ {PhashThreshold, MinDiffPixels} \subseteq Nat \ {0}
  /\ Blurry \subseteq Scenes

ASSUME IntervalAssumption == {ForcedInterval, MinInterval} \subseteq Nat

VARIABLES
  mode, call,      \* mode_, and the mode calls in progress
  asked,           \* a query was begun and its done response is to come
  scdPrev,         \* prev_hist_ and prev_phash_, None for ~has_prev_
  affPrev,         \* prev_gray_small_
  emitAge,         \* the age of last_emit_
  forcedAge,       \* the age of last_forced_emit
  gpc,             \* where the grab loop is
  gmode, frame,    \* its copy of mode_ and the frame it holds
  screen,
  shown,           \* a frame was sent and the screen has not changed since
  link,            \* "up" when IsConnected(), "closed" after Close
  running,         \* running_
  mpc              \* where the main thread is

callVars   == <<mode, call, asked>>
filterVars == <<scdPrev, affPrev, emitAge>>
loopVars   == <<gpc, gmode, frame, forcedAge>>
screenVars == <<screen, shown>>
mainVars   == <<running, mpc>>
vars == <<callVars, filterVars, loopVars, screenVars, link, mainVars>>

(* What PipelineMode keeps of the filters.                                 *)
Primed == {f \in {"scd", "aff"} : IF f = "scd" THEN scdPrev # None
                                               ELSE affPrev # None}

Mode == INSTANCE PipelineMode WITH primed <- Primed

Frames == Scenes \cup {None}

TypeOK ==
  /\ Mode!ModeTypeOK
  /\ asked \in BOOLEAN
  /\ {scdPrev, affPrev, frame} \subseteq Frames
  /\ emitAge \in 0..MinInterval
  /\ forcedAge \in 0..ForcedInterval
  /\ gpc \in {"off", "top", "forced", "scd", "aff", "emit", "send",
              "exited"}
  /\ gmode \in Mode!CaptureMode
  /\ gpc \in {"forced", "scd", "aff", "emit", "send"} => frame \in Scenes
  /\ screen \in Scenes
  /\ shown \in BOOLEAN
  /\ link \in {"up", "down", "closed"}
  /\ running \in BOOLEAN
  /\ mpc \in {"new", "failed", "serving", "joining", "stopped"}

Init ==
  /\ mode = "idle"
  /\ call = [t \in Mode!Threads |-> "none"]
  /\ asked = FALSE
  /\ scdPrev = None /\ affPrev = None
  /\ emitAge = MinInterval
  /\ forcedAge = ForcedInterval
  /\ gpc = "off" /\ gmode = "idle"
  /\ frame = None
  /\ screen \in Scenes
  /\ shown = FALSE
  /\ link = "down"
  /\ running = FALSE /\ mpc = "new"

-----------------------------------------------------------------------------
(* The main thread.  Start fails when the display cannot be opened, and    *)
(* goes on when the server cannot be reached.                              *)
Start ==
  /\ mpc = "new"
  /\ \/ mpc' = "failed" /\ UNCHANGED <<running, gpc, link>>
     \/ /\ mpc' = "serving"
        /\ running' = TRUE
        /\ link' \in {"up", "down"}
        /\ gpc' = "top"
  /\ UNCHANGED <<callVars, filterVars, gmode, frame, forcedAge, screenVars>>

(* Stop: clear running_, join the loop's thread, then close the channels.  *)
Stop ==
  /\ mpc = "serving"
  /\ running' = FALSE
  /\ mpc' = "joining"
  /\ UNCHANGED <<callVars, filterVars, loopVars, screenVars, link>>

JoinAndClose ==
  /\ mpc = "joining"
  /\ gpc = "exited"
  /\ link' = "closed"
  /\ mpc' = "stopped"
  /\ UNCHANGED <<callVars, filterVars, loopVars, screenVars, running>>

-----------------------------------------------------------------------------
(* The calls that change the mode, while the gRPC server runs, and         *)
(* EndQuery for the done response of a query.                              *)
NotifyTyping(n) ==
  /\ mpc = "serving"
  /\ UNCHANGED <<asked, filterVars, loopVars, screenVars, link, mainVars>>
  /\ \E typing \in BOOLEAN : Mode!SetTyping(n, typing)

SubmitQuery ==
  /\ mpc = "serving"
  /\ ~asked
  /\ asked' = TRUE
  /\ UNCHANGED <<filterVars, loopVars, screenVars, link, mainVars>>
  /\ Mode!BeginQuery

OnVlmResponse ==
  /\ asked
  /\ asked' = FALSE
  /\ UNCHANGED <<filterVars, loopVars, screenVars, link, mainVars>>
  /\ Mode!EndQuery(Rtc)

StoreMode(t) ==
  /\ UNCHANGED <<asked, filterVars, loopVars, screenVars, link, mainVars>>
  /\ Mode!StoreTyping(t) \/ Mode!StoreIdle(t)

(* Mutant: SceneChangeDetector::Reset does not clear has_prev_.            *)
AfterResetKept == scdPrev

AfterReset == None

(* SceneChangeDetector::Reset and AdaptiveFrameFilter::Reset.              *)
ResetScd(t) ==
  /\ call[t] = "resetScd"
  /\ scdPrev' = AfterReset
  /\ call' = [call EXCEPT ![t] = "resetAff"]
  /\ UNCHANGED <<mode, asked, affPrev, emitAge, loopVars, screenVars, link, mainVars>>

ResetAff(t) ==
  /\ call[t] = "resetAff"
  /\ affPrev' = None
  /\ emitAge' = MinInterval
  /\ call' = [call EXCEPT ![t] = "none"]
  /\ UNCHANGED <<mode, asked, scdPrev, loopVars, screenVars, link, mainVars>>

-----------------------------------------------------------------------------
(* The grab loop.                                                          *)

(* The end of an iteration.  sleep_until(next_tick) returns at once when   *)
(* the loop is late; the next iteration overwrites frame and mode.         *)
NextIteration == gpc' = "top" /\ frame' = None /\ gmode' = "idle"

(* Mutant: an empty frame is not recognised.                               *)
GrabbedOrEmpty == {screen, None}

(* The frame of a successful grab.  (One that fails is an iteration that   *)
(* changes nothing.)                                                       *)
Grabbed == {screen}

(* Mutant: running_ is looked at in idle mode only.                        *)
LoopingWhileForced == running \/ mode # "idle"

Looping == running

(* The loop's condition, the grab, and the one load of mode_.              *)
Grab ==
  /\ gpc = "top"
  /\ \/ /\ ~Looping
        /\ gpc' = "exited"
        /\ UNCHANGED <<frame, gmode>>
     \/ /\ Looping
        /\ frame' \in Grabbed
        /\ gmode' = mode
        /\ gpc' = IF mode = "idle" THEN "scd" ELSE "forced"
  /\ UNCHANGED <<callVars, filterVars, forcedAge, screenVars, link, mainVars>>

(* Mutant: only the time of the forced frame is recorded.                  *)
EvaluateForcedTime == UNCHANGED affPrev /\ emitAge' = 0

(* The forced frame becomes the frame filter's baseline.                   *)
EvaluateForced == affPrev' = frame /\ emitAge' = 0

(* Mutant: last_forced_emit is set in every iteration.                     *)
ForcedAgeRestarted == 0

(* last_forced_emit after an iteration that was too early.                 *)
ForcedAgeKept == forcedAge

(* Forced 1 FPS.                                                           *)
Forced ==
  /\ gpc = "forced"
  /\ IF forcedAge = ForcedInterval
     THEN /\ forcedAge' = 0
          /\ EvaluateForced
          /\ gpc' = "emit"
          /\ UNCHANGED <<gmode, frame>>
     ELSE /\ NextIteration
          /\ forcedAge' = ForcedAgeKept
          /\ UNCHANGED <<affPrev, emitAge>>
  /\ UNCHANGED <<callVars, scdPrev, screenVars, link, mainVars>>

(* ComputePHash: one bit for each coefficient above the median, for which  *)
(* DC does not count; its own bit is part of the hash.                     *)
Median(s) ==
  LET vals  == Coeffs \ {0}
      mid   == Cardinality(vals) \div 2
      Below(c) == Cardinality({d \in vals : Dct[s][d] < Dct[s][c]})
      Upto(c)  == Cardinality({d \in vals : Dct[s][d] <= Dct[s][c]})
  IN  Dct[s][CHOOSE c \in vals : Below(c) <= mid /\ mid < Upto(c)]

PHash == [s \in Scenes |-> {c \in Coeffs : Dct[s][c] > Median(s)}]

Hamming(s, t) == Cardinality((PHash[s] \ PHash[t]) \cup (PHash[t] \ PHash[s]))

Changed == {p \in Scenes \X Scenes : p \in HistFar
                                       \/ Hamming(p[1], p[2]) >= PhashThreshold}

(* Mutant: the first frame stays the baseline.                             *)
BaselineOfFirst == IF scdPrev = None THEN frame ELSE scdPrev

(* A change becomes the detector's baseline at once, whatever the frame    *)
(* filter decides afterwards.                                              *)
BaselineOfChange == frame

IsSceneChange ==
  /\ gpc = "scd"
  /\ IF scdPrev = None \/ <<scdPrev, frame>> \in Changed
     THEN scdPrev' = BaselineOfChange /\ gpc' = "aff" /\ UNCHANGED <<gmode, frame>>
     ELSE NextIteration /\ UNCHANGED scdPrev
  /\ UNCHANGED <<callVars, affPrev, emitAge, forcedAge, screenVars, link, mainVars>>

(* DiffRatio: how many pixels differ by more than the threshold.           *)
Moved ==
  LET Far(p) == {x \in Pixels : \/ Gray[p[1]][x] - Gray[p[2]][x] > DiffThreshold
                                \/ Gray[p[2]][x] - Gray[p[1]][x] > DiffThreshold}
  IN  {p \in Scenes \X Scenes : Cardinality(Far(p)) >= MinDiffPixels}

(* Evaluate: too soon (kDropRate), or compared with the baseline, which    *)
(* the frame replaces, and then dropped (kDropSimilar, kDropBlurry) or     *)
(* accepted.                                                               *)
Differs == affPrev = None \/ <<affPrev, frame>> \in Moved

Evaluate ==
  /\ gpc = "aff"
  /\ \/ /\ emitAge < MinInterval
        /\ NextIteration
        /\ UNCHANGED <<affPrev, emitAge>>
     \/ /\ emitAge = MinInterval
        /\ affPrev' = frame
        /\ IF Differs /\ frame \notin Blurry
           THEN gpc' = "emit" /\ emitAge' = 0 /\ UNCHANGED <<gmode, frame>>
           ELSE NextIteration /\ UNCHANGED emitAge
  /\ UNCHANGED <<callVars, scdPrev, forcedAge, screenVars, link, mainVars>>

(* Lazy reconnect: when it fails the accepted frame is lost.               *)
Reconnect ==
  /\ gpc = "emit"
  /\ link = "down"
  /\ \/ gpc' = "send" /\ link' = "up" /\ UNCHANGED <<gmode, frame>>
     \/ NextIteration /\ UNCHANGED link
  /\ UNCHANGED <<callVars, filterVars, forcedAge, screenVars, mainVars>>

(* SendFrame, which fails when the channel is not open yet or any more.    *)
SendFrame ==
  /\ gpc = "send" \/ (gpc = "emit" /\ link = "up")
  /\ \/ link = "up" /\ shown' = (frame = screen)
     \/ UNCHANGED shown
  /\ NextIteration
  /\ UNCHANGED <<callVars, filterVars, forcedAge, screen, link, mainVars>>

-----------------------------------------------------------------------------
(* The surroundings: time, the screen and the connection.                  *)
Tick ==
  /\ emitAge < MinInterval \/ forcedAge < ForcedInterval
  /\ emitAge' = IF emitAge < MinInterval THEN emitAge + 1 ELSE emitAge
  /\ forcedAge' = IF forcedAge < ForcedInterval THEN forcedAge + 1 ELSE forcedAge
  /\ UNCHANGED <<callVars, scdPrev, affPrev, gpc, gmode, frame, screenVars, link,
                 mainVars>>

ScreenChanges ==
  /\ screen' \in Scenes \ {screen}
  /\ shown' = FALSE
  /\ UNCHANGED <<callVars, filterVars, loopVars, link, mainVars>>

ConnectionLost ==
  /\ link = "up"
  /\ link' = "down"
  /\ UNCHANGED <<callVars, filterVars, loopVars, screenVars, mainVars>>

-----------------------------------------------------------------------------
LoopStep == \/ Grab \/ Forced \/ IsSceneChange \/ Evaluate
            \/ Reconnect \/ SendFrame

CallStep(t) == StoreMode(t) \/ ResetScd(t) \/ ResetAff(t)

Next ==
  \/ Start \/ Stop \/ JoinAndClose
  \/ \E n \in Notifiers : NotifyTyping(n)
  \/ SubmitQuery \/ OnVlmResponse
  \/ \E t \in Mode!Threads : CallStep(t)
  \/ LoopStep
  \/ Tick \/ ScreenChanges \/ ConnectionLost

Spec == Init /\ [][Next]_vars

(* Fairness: the loop's thread, the main thread and those of the mode      *)
(* calls run, the display can be read, a Connect comes to an end (which    *)
(* needs a signalling server that answers or closes), and time passes.     *)
FairSpec ==
  /\ Spec
  /\ WF_vars(LoopStep) /\ WF_vars(JoinAndClose) /\ WF_vars(Tick)
  /\ \A t \in Mode!Threads : WF_vars(CallStep(t))

-----------------------------------------------------------------------------
(* The pipeline implements PipelineMode: whatever the grab loop and the    *)
(* resets do to the filters in detail, PromptAppService's view of them is  *)
(* sound.                                                                  *)
ImplementsPipelineMode == Mode!ModeSpec

(* Stop completes: the loop sees running_ whatever branch it is in, also   *)
(* with the connection down and the display unreadable.                    *)
StopCompletes == mpc = "joining" ~> mpc = "stopped"

(* "Forced 1 FPS" (capture_pipeline.cpp:124): while the client stays in    *)
(* typing or query mode the loop gets to emit frames again and again,      *)
(* however its iterations fall between the seconds.                        *)
ForcedKeepsEmitting ==
  <>[](mode # "idle" /\ running) => []<>(gpc = "emit")

(* "webrtc connect failed; will keep retrying in grab loop"                *)
(* (capture_pipeline.cpp:30): while it is down the connection is tried     *)
(* again.                                                                  *)
KeepsRetrying ==
  link = "down" /\ running ~> link # "down" \/ ~running \/ gpc = "emit"

(* "returning to idle mode after typing would see a stale comparison frame *)
(* and emit a spurious scene change" (test_adaptive_frame_filter.cpp:127)  *)
(* is what the forced baseline update is there to prevent: in idle mode no *)
(* frame is emitted of a screen that has not changed since the last one.   *)
NoSpuriousSceneChange == gpc = "emit" /\ gmode = "idle" => ~shown

(* What the forced baseline does achieve: the frame filter lets a screen   *)
(* through that was already shown, in whatever mode, only when it has no   *)
(* baseline, that is, as its first frame after a Reset.                    *)
RepeatedOnlyAfterReset ==
  [][gpc = "aff" /\ gpc' = "emit" /\ shown => affPrev = None]_vars

(* The detector repeats itself because of the mode calls alone: in a       *)
(* client that stays idle, once a frame of the screen has been sent no     *)
(* change is reported until the screen changes, also when frames of        *)
(* earlier scenes were dropped by the frame filter or lost.                *)
ReportsOnce ==
  [](mode = "idle") => [](gpc \in {"aff", "emit", "send"} => ~shown)
=============================================================================
