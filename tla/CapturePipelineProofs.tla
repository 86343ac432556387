----------------------- MODULE CapturePipelineProofs -----------------------
(***************************************************************************)
(* Proofs about CapturePipeline, for any scenes, any settings of the two   *)
(* filters, any intervals and any number of threads calling SetTyping:     *)
(* type correctness, that the pipeline implements PipelineMode, and that a *)
(* frame equal to a filter's baseline is never taken for a change.         *)
(***************************************************************************)
EXTENDS CapturePipeline, FiniteSetTheorems, TLAPS

(* The parts of the actions that have a name of their own.                 *)
USE DEF callVars, filterVars, loopVars, screenVars, mainVars,
        Mode!Threads, Mode!CaptureMode, Mode!CallPoints, Mode!Filters

(* The parts of TypeOK.                                                    *)
CallType == /\ mode \in Mode!CaptureMode
            /\ call \in [Mode!Threads -> Mode!CallPoints]
            /\ asked \in BOOLEAN

AgeType == emitAge \in 0..MinInterval /\ forcedAge \in 0..ForcedInterval

FrameType ==
  /\ {scdPrev, affPrev, frame} \subseteq Frames
  /\ screen \in Scenes
  /\ gmode \in Mode!CaptureMode
  /\ gpc \in {"off", "top", "forced", "scd", "aff", "emit", "send", "exited"}
  /\ gpc \in {"forced", "scd", "aff", "emit", "send"} => frame \in Scenes

MainType ==
  /\ shown \in BOOLEAN
  /\ link \in {"up", "down", "closed"}
  /\ running \in BOOLEAN
  /\ mpc \in {"new", "failed", "serving", "joining", "stopped"}

(* The filters that Primed names are always two of the two.                *)
LEMMA TypeParts == TypeOK <=> CallType /\ AgeType /\ FrameType /\ MainType
  <1>1. Primed \in SUBSET Mode!Filters
    BY DEF Primed
  <1> QED
    BY <1>1 DEF TypeOK, Mode!ModeTypeOK, CallType, AgeType, FrameType, MainType

-----------------------------------------------------------------------------
(* The mode calls change mode_, their own positions and nothing else.      *)
LEMMA CallTypeStep == TypeOK /\ [Next]_vars => CallType'
  <1> SUFFICES ASSUME CallType, [Next]_vars PROVE CallType'
    BY TypeParts
  <1> USE DEF CallType
  <1>1. ASSUME NEW n \in Notifiers, NotifyTyping(n) PROVE CallType'
    BY <1>1 DEF NotifyTyping, Mode!SetTyping
  <1>2. CASE SubmitQuery
    BY <1>2 DEF SubmitQuery, Mode!BeginQuery
  <1>3. CASE OnVlmResponse
    BY <1>3 DEF OnVlmResponse, Mode!EndQuery, Mode!ModeAfterQuery
  <1>4. ASSUME NEW t \in Mode!Threads, CallStep(t) PROVE CallType'
    BY <1>4 DEF CallStep, StoreMode, Mode!StoreTyping, Mode!StoreIdle,
                ResetScd, ResetAff
  <1>5. CASE UNCHANGED callVars
    BY <1>5
  <1>6. CASE Start \/ Stop \/ JoinAndClose \/ LoopStep \/ Tick
               \/ ScreenChanges \/ ConnectionLost \/ UNCHANGED vars
    BY <1>5, <1>6 DEF Start, Stop, JoinAndClose, LoopStep, Grab, Forced,
         IsSceneChange, Evaluate, Reconnect, SendFrame, Tick, ScreenChanges,
         ConnectionLost, vars
  <1> QED
    BY <1>1, <1>2, <1>3, <1>4, <1>6 DEF Next

(* The ages stay within their intervals.                                   *)
LEMMA AgeTypeStep == TypeOK /\ [Next]_vars => AgeType'
  <1> SUFFICES ASSUME AgeType, [Next]_vars PROVE AgeType'
    BY TypeParts
  <1> USE IntervalAssumption DEF AgeType
  <1>1. CASE Forced
    BY <1>1 DEF Forced, EvaluateForced, ForcedAgeKept
  <1>2. CASE Evaluate
    BY <1>2 DEF Evaluate
  <1>3. CASE Tick
    BY <1>3 DEF Tick
  <1>4. ASSUME NEW t \in Mode!Threads, CallStep(t) PROVE AgeType'
    BY <1>4 DEF CallStep, StoreMode, ResetScd, ResetAff
  <1>5. CASE UNCHANGED <<emitAge, forcedAge>>
    BY <1>5
  <1>6. CASE Start \/ Stop \/ JoinAndClose \/ SubmitQuery \/ OnVlmResponse
               \/ (\E n \in Notifiers : NotifyTyping(n)) \/ ScreenChanges
               \/ ConnectionLost \/ UNCHANGED vars
    BY <1>5, <1>6 DEF Start, Stop, JoinAndClose, SubmitQuery, OnVlmResponse,
         NotifyTyping, ScreenChanges, ConnectionLost, vars
  <1>7. CASE Grab \/ IsSceneChange \/ Reconnect \/ SendFrame
    BY <1>5, <1>7 DEF Grab, IsSceneChange, Reconnect, SendFrame
  <1> QED
    BY <1>1, <1>2, <1>3, <1>4, <1>6, <1>7 DEF Next, LoopStep

(* The loop holds a frame wherever it uses one, and only frames become     *)
(* baselines.                                                              *)
LEMMA FrameTypeStep == TypeOK /\ [Next]_vars => FrameType'
  <1> SUFFICES ASSUME FrameType, CallType, [Next]_vars PROVE FrameType'
    BY TypeParts
  <1> USE DEF FrameType, Frames
  <1>1. CASE Start
    BY <1>1 DEF Start
  <1>2. CASE Grab
    BY <1>2 DEF Grab, Grabbed, CallType
  <1>3. CASE Forced
    BY <1>3 DEF Forced, EvaluateForced, NextIteration
  <1>4. CASE IsSceneChange
    BY <1>4 DEF IsSceneChange, BaselineOfChange, NextIteration
  <1>5. CASE Evaluate
    BY <1>5 DEF Evaluate, NextIteration
  <1>6. CASE Reconnect
    BY <1>6 DEF Reconnect, NextIteration
  <1>7. CASE SendFrame
    BY <1>7 DEF SendFrame, NextIteration
  <1>8. ASSUME NEW t \in Mode!Threads, CallStep(t) PROVE FrameType'
    BY <1>8 DEF CallStep, StoreMode, ResetScd, ResetAff, AfterReset
  <1>9. CASE ScreenChanges
    BY <1>9 DEF ScreenChanges
  <1>10. CASE UNCHANGED <<scdPrev, affPrev, gpc, gmode, frame, screen>>
    BY <1>10
  <1>11. CASE Stop \/ JoinAndClose \/ SubmitQuery \/ OnVlmResponse
                \/ (\E n \in Notifiers : NotifyTyping(n)) \/ Tick
                \/ ConnectionLost \/ UNCHANGED vars
    BY <1>10, <1>11 DEF Stop, JoinAndClose, SubmitQuery, OnVlmResponse,
         NotifyTyping, Tick, ConnectionLost, vars
  <1> QED
    BY <1>1, <1>2, <1>3, <1>4, <1>5, <1>6, <1>7, <1>8, <1>9, <1>11
       DEF Next, LoopStep

LEMMA MainTypeStep == TypeOK /\ [Next]_vars => MainType'
  <1> SUFFICES ASSUME MainType, [Next]_vars PROVE MainType'
    BY TypeParts
  <1> USE DEF MainType
  <1>1. CASE Start \/ Stop \/ JoinAndClose
    BY <1>1 DEF Start, Stop, JoinAndClose
  <1>2. CASE Reconnect
    BY <1>2 DEF Reconnect
  <1>3. CASE SendFrame
    BY <1>3 DEF SendFrame
  <1>4. CASE ScreenChanges \/ ConnectionLost
    BY <1>4 DEF ScreenChanges, ConnectionLost
  <1>5. CASE UNCHANGED <<shown, link, running, mpc>>
    BY <1>5
  <1>6. CASE SubmitQuery \/ OnVlmResponse
               \/ (\E n \in Notifiers : NotifyTyping(n))
               \/ (\E t \in Mode!Threads : CallStep(t)) \/ Tick \/ UNCHANGED vars
    BY <1>5, <1>6 DEF SubmitQuery, OnVlmResponse, NotifyTyping, CallStep,
         StoreMode, ResetScd, ResetAff, Tick, vars
  <1>7. CASE Grab \/ Forced \/ IsSceneChange \/ Evaluate
    BY <1>5, <1>7 DEF Grab, Forced, IsSceneChange, Evaluate
  <1> QED
    BY <1>1, <1>2, <1>3, <1>4, <1>6, <1>7 DEF Next, LoopStep

(* Every variable keeps its type; in particular the grab loop holds a      *)
(* frame of the display at each of its positions after the grab, so        *)
(* neither filter is ever given an empty frame or keeps one.               *)
THEOREM TypeCorrect == Spec => []TypeOK
  <1>1. Init => TypeOK
    <2> SUFFICES ASSUME Init PROVE CallType /\ AgeType /\ FrameType /\ MainType
      BY TypeParts
    <2>1. CallType
      BY DEF Init, CallType
    <2>2. AgeType
      BY IntervalAssumption DEF Init, AgeType
    <2>3. FrameType
      BY DEF Init, FrameType, Frames
    <2>4. MainType
      BY DEF Init, MainType
    <2> QED
      BY <2>1, <2>2, <2>3, <2>4
  <1>2. TypeOK /\ [Next]_vars => TypeOK'
    <2>1. TypeOK' <=> CallType' /\ AgeType' /\ FrameType' /\ MainType'
      BY TypeParts, PTL
    <2> QED
      BY <2>1, CallTypeStep, AgeTypeStep, FrameTypeStep, MainTypeStep
  <1> QED
    BY <1>1, <1>2, PTL DEF Spec
-----------------------------------------------------------------------------
(* The refinement.  A filter is primed when it holds a frame, so a step    *)
(* changes Primed exactly by what it does to the two baselines.            *)
LEMMA PrimedKept ==
  ASSUME UNCHANGED <<scdPrev, affPrev>>
  PROVE  UNCHANGED Primed
  BY DEF Primed

(* A step that gives the detector or the frame filter a frame is           *)
(* PipelineMode's GrabPrimes, or no step of it when the filter already had *)
(* one.                                                                    *)
LEMMA BaselinePrimes ==
  ASSUME UNCHANGED <<mode, call>>,
         \/ scdPrev' \in Scenes /\ UNCHANGED affPrev
         \/ affPrev' \in Scenes /\ UNCHANGED scdPrev
  PROVE  [Mode!ModeNext]_Mode!modeVars
  <1>1. CASE scdPrev' \in Scenes /\ UNCHANGED affPrev
    <2>1. Primed' = Primed \cup {"scd"}
      BY <1>1, SceneAssumption DEF Primed
    <2>2. CASE "scd" \in Primed
      BY <2>1, <2>2 DEF Mode!modeVars
    <2>3. CASE "scd" \notin Primed
      BY <2>1, <2>3 DEF Mode!ModeNext, Mode!GrabPrimes
    <2> QED
      BY <2>2, <2>3
  <1>2. CASE affPrev' \in Scenes /\ UNCHANGED scdPrev
    <2>1. Primed' = Primed \cup {"aff"}
      BY <1>2, SceneAssumption DEF Primed
    <2>2. CASE "aff" \in Primed
      BY <2>1, <2>2 DEF Mode!modeVars
    <2>3. CASE "aff" \notin Primed
      BY <2>1, <2>3 DEF Mode!ModeNext, Mode!GrabPrimes
    <2> QED
      BY <2>2, <2>3
  <1> QED
    BY <1>1, <1>2

(* The resets of the pipeline are PipelineMode's.                          *)
LEMMA ResetRefines ==
  ASSUME NEW t \in Mode!Threads, ResetScd(t) \/ ResetAff(t)
  PROVE  Mode!ResetScd(t) \/ Mode!ResetAff(t)
  <1>1. CASE ResetScd(t)
    <2>1. Primed' = Primed \ {"scd"}
      BY <1>1 DEF ResetScd, AfterReset, Primed
    <2> QED
      BY <1>1, <2>1 DEF ResetScd, Mode!ResetScd
  <1>2. CASE ResetAff(t)
    <2>1. Primed' = Primed \ {"aff"}
      BY <1>2 DEF ResetAff, Primed
    <2> QED
      BY <1>2, <2>1 DEF ResetAff, Mode!ResetAff
  <1> QED
    BY <1>1, <1>2

LEMMA ModeStep == TypeOK /\ [Next]_vars => [Mode!ModeNext]_Mode!modeVars
  <1> SUFFICES ASSUME FrameType, [Next]_vars
               PROVE  [Mode!ModeNext]_Mode!modeVars
    BY TypeParts
  <1>1. ASSUME NEW n \in Notifiers, NotifyTyping(n) PROVE Mode!ModeNext
    BY <1>1 DEF NotifyTyping, Mode!ModeNext
  <1>2. CASE SubmitQuery
    BY <1>2 DEF SubmitQuery, Mode!ModeNext
  <1>3. CASE OnVlmResponse
    BY <1>3 DEF OnVlmResponse, Mode!ModeNext
  <1>4. ASSUME NEW t \in Mode!Threads, CallStep(t) PROVE Mode!ModeNext
    <2>1. CASE StoreMode(t)
      BY <2>1 DEF StoreMode, Mode!ModeNext, Mode!CallStep
    <2>2. CASE ResetScd(t) \/ ResetAff(t)
      BY <2>2, ResetRefines DEF Mode!ModeNext, Mode!CallStep
    <2> QED
      BY <1>4, <2>1, <2>2 DEF CallStep
  <1>5. CASE UNCHANGED <<mode, call, scdPrev, affPrev>>
    BY <1>5, PrimedKept DEF Mode!modeVars
  <1>6. CASE Forced
    <2>1. CASE forcedAge = ForcedInterval
      BY <1>6, <2>1, BaselinePrimes DEF Forced, EvaluateForced, FrameType
    <2>2. CASE forcedAge # ForcedInterval
      BY <1>5, <1>6, <2>2 DEF Forced
    <2> QED
      BY <2>1, <2>2
  <1>7. CASE IsSceneChange
    <2>1. CASE scdPrev = None \/ <<scdPrev, frame>> \in Changed
      BY <1>7, <2>1, BaselinePrimes DEF IsSceneChange, BaselineOfChange, FrameType
    <2>2. CASE ~(scdPrev = None \/ <<scdPrev, frame>> \in Changed)
      BY <1>5, <1>7, <2>2 DEF IsSceneChange
    <2> QED
      BY <2>1, <2>2
  <1>8. CASE Evaluate
    BY <1>5, <1>8, BaselinePrimes DEF Evaluate, FrameType
  <1>9. CASE Grab \/ Reconnect \/ SendFrame
    BY <1>5, <1>9 DEF Grab, Reconnect, SendFrame
  <1>10. CASE Start \/ Stop \/ JoinAndClose \/ Tick \/ ScreenChanges
                \/ ConnectionLost \/ UNCHANGED vars
    BY <1>5, <1>10 DEF Start, Stop, JoinAndClose, Tick, ScreenChanges,
         ConnectionLost, vars
  <1> QED
    BY <1>1, <1>2, <1>3, <1>4, <1>6, <1>7, <1>8, <1>9, <1>10
       DEF Next, LoopStep

(* The capture pipeline implements PipelineMode: whatever the grab loop    *)
(* and the resets do to the filters, in whatever order with the mode       *)
(* calls, is what the service's model assumes of them.                     *)
THEOREM Implements == Spec => ImplementsPipelineMode
  <1>1. Init => Mode!ModeInit
    BY DEF Init, Mode!ModeInit, Primed
  <1> QED
    BY <1>1, ModeStep, TypeCorrect, PTL
       DEF Spec, ImplementsPipelineMode, Mode!ModeSpec
-----------------------------------------------------------------------------
(* Comparing a frame with itself: no bit of the hash and no pixel of the   *)
(* scaled image differs, and the thresholds are at least 1.                *)
LEMMA SameSceneUnchanged ==
  ASSUME NEW s \in Scenes
  PROVE  <<s, s>> \notin Changed /\ <<s, s>> \notin Moved
  <1>1. Cardinality({}) = 0
    BY FS_EmptySet
  <1>2. Hamming(s, s) = 0
    <2>1. (PHash[s] \ PHash[s]) \cup (PHash[s] \ PHash[s]) = {}
      OBVIOUS
    <2> QED
      BY <1>1, <2>1 DEF Hamming
  <1>3. <<s, s>> \notin Changed
    BY <1>2, SceneAssumption DEF Changed
  <1>4. \A x \in Pixels : Gray[s][x] - Gray[s][x] = 0
    <2> TAKE x \in Pixels
    <2>1. Gray[s] \in [Pixels -> 0..255]
      BY SceneAssumption
    <2>2. Gray[s][x] \in 0..255
      BY <2>1
    <2> QED
      BY <2>2
  <1>5. <<s, s>> \notin Moved
    <2> DEFINE p == <<s, s>>
               Far == {x \in Pixels :
                         \/ Gray[p[1]][x] - Gray[p[2]][x] > DiffThreshold
                         \/ Gray[p[2]][x] - Gray[p[1]][x] > DiffThreshold}
    <2>1. Far = {}
      BY <1>4, SceneAssumption
    <2>2. p \in Moved => Cardinality(Far) >= MinDiffPixels
      BY DEF Moved
    <2> HIDE DEF Far
    <2>3. Cardinality(Far) = 0
      BY <1>1, <2>1
    <2> QED
      BY <2>2, <2>3, SceneAssumption
  <1> QED
    BY <1>3, <1>5

(* The frame filter, in any mode.  If it has a baseline at all, that is    *)
(* the frame on its way out, and the frame that was sent and is still on   *)
(* the screen; the loop then holds no other.                               *)
FilterInv ==
  /\ gpc \in {"emit", "send"} => affPrev \in {frame, None}
  /\ shown => affPrev \in {screen, None}
  /\ shown /\ gpc \in {"forced", "scd", "aff"} => frame = screen

LEMMA FilterInvStep ==
  ASSUME TypeOK, FilterInv, [Next]_vars
  PROVE  FilterInv'
  <1> FrameType /\ MainType
    BY TypeParts
  <1> USE DEF FilterInv
  <1>1. CASE Start
    BY <1>1 DEF Start
  <1>2. CASE Grab
    BY <1>2 DEF Grab, Grabbed
  <1>3. CASE Forced
    BY <1>3 DEF Forced, EvaluateForced, NextIteration
  <1>4. CASE IsSceneChange
    BY <1>4 DEF IsSceneChange, NextIteration
  <1>5. CASE Evaluate
    BY <1>5 DEF Evaluate, NextIteration
  <1>6. CASE Reconnect
    BY <1>6 DEF Reconnect, NextIteration
  <1>7. CASE SendFrame
    <2>1. affPrev \in {frame, None}
      BY <1>7 DEF SendFrame
    <2>2. shown' => affPrev' \in {screen', None}
      BY <1>7, <2>1 DEF SendFrame
    <2> QED
      BY <1>7, <2>2 DEF SendFrame, NextIteration
  <1>8. ASSUME NEW t \in Mode!Threads, CallStep(t) PROVE FilterInv'
    BY <1>8 DEF CallStep, StoreMode, ResetScd, ResetAff
  <1>9. CASE ScreenChanges
    BY <1>9 DEF ScreenChanges
  <1>10. CASE UNCHANGED <<affPrev, gpc, gmode, frame, screen, shown>>
    BY <1>10
  <1>11. CASE Stop \/ JoinAndClose \/ SubmitQuery \/ OnVlmResponse
                \/ (\E n \in Notifiers : NotifyTyping(n)) \/ Tick
                \/ ConnectionLost \/ UNCHANGED vars
    BY <1>10, <1>11 DEF Stop, JoinAndClose, SubmitQuery, OnVlmResponse,
         NotifyTyping, Tick, ConnectionLost, vars
  <1> QED
    BY <1>1, <1>2, <1>3, <1>4, <1>5, <1>6, <1>7, <1>8, <1>9, <1>11
       DEF Next, LoopStep

(* The frame filter lets a screen that was already shown through only as   *)
(* its first frame after a Reset: EvaluateForced does what it is for, and  *)
(* the spurious scene change comes from the Reset that follows it.         *)
THEOREM RepeatedAfterReset == Spec => RepeatedOnlyAfterReset
  <1>1. Init => FilterInv
    BY DEF Init, FilterInv
  <1>2. TypeOK /\ FilterInv /\ [Next]_vars => FilterInv'
    BY FilterInvStep
  <1>3. TypeOK /\ FilterInv /\ [Next]_vars
          => [gpc = "aff" /\ gpc' = "emit" /\ shown => affPrev = None]_vars
    <2> SUFFICES ASSUME TypeOK, FilterInv, [Next]_vars,
                        gpc = "aff", gpc' = "emit", shown, affPrev # None
                 PROVE  FALSE
      OBVIOUS
    <2>1. Evaluate
      BY DEF Next, Start, Stop, JoinAndClose, NotifyTyping, SubmitQuery,
             OnVlmResponse, CallStep, StoreMode, ResetScd, ResetAff, LoopStep,
             Grab, Forced, IsSceneChange, Reconnect, SendFrame, Tick,
             ScreenChanges, ConnectionLost, vars
    <2>2. affPrev = frame /\ frame \in Scenes
      BY TypeParts DEF FilterInv, FrameType
    <2>3. ~Differs
      BY <2>2, SameSceneUnchanged, SceneAssumption DEF Differs
    <2> QED
      BY <2>1, <2>3 DEF Evaluate, NextIteration
  <1> QED
    BY <1>1, <1>2, <1>3, TypeCorrect, PTL DEF Spec, RepeatedOnlyAfterReset

(* A client that has been idle all the time.  No mode call has got as far  *)
(* as a reset; past the detector the loop holds the detector's baseline,   *)
(* and a frame that was sent and is still on the screen is that baseline.  *)
IdleCalls ==
  /\ ~asked
  /\ \A t \in Mode!Threads : call[t] \in {"none", "storeTyping"}

IdleLoop ==
  /\ gmode = "idle" /\ gpc # "forced"
  /\ gpc \in {"aff", "emit", "send"} => scdPrev = frame /\ ~shown
  /\ shown => scdPrev = screen
  /\ shown /\ gpc = "scd" => frame = screen

LEMMA IdleCallsStep ==
  ASSUME TypeOK, IdleCalls, mode = "idle", mode' = "idle", [Next]_vars
  PROVE  IdleCalls'
  <1> CallType
    BY TypeParts
  <1> USE DEF CallType, IdleCalls
  <1>1. ASSUME NEW n \in Notifiers, NotifyTyping(n) PROVE IdleCalls'
    BY <1>1 DEF NotifyTyping, Mode!SetTyping
  <1>2. CASE SubmitQuery
    BY <1>2 DEF SubmitQuery, Mode!BeginQuery
  <1>3. CASE OnVlmResponse
    BY <1>3 DEF OnVlmResponse
  <1>4. ASSUME NEW t \in Mode!Threads, CallStep(t) PROVE IdleCalls'
    BY <1>4 DEF CallStep, StoreMode, Mode!StoreTyping, Mode!StoreIdle,
                ResetScd, ResetAff
  <1>5. CASE UNCHANGED callVars
    BY <1>5
  <1>6. CASE Start \/ Stop \/ JoinAndClose \/ LoopStep \/ Tick
               \/ ScreenChanges \/ ConnectionLost \/ UNCHANGED vars
    BY <1>5, <1>6 DEF Start, Stop, JoinAndClose, LoopStep, Grab, Forced,
         IsSceneChange, Evaluate, Reconnect, SendFrame, Tick, ScreenChanges,
         ConnectionLost, vars
  <1> QED
    BY <1>1, <1>2, <1>3, <1>4, <1>6 DEF Next

LEMMA IdleLoopStep ==
  ASSUME TypeOK, IdleCalls, IdleLoop, mode = "idle", [Next]_vars
  PROVE  IdleLoop'
  <1> FrameType /\ MainType
    BY TypeParts
  <1> USE DEF IdleLoop
  <1>1. CASE Start
    BY <1>1 DEF Start
  <1>2. CASE Grab
    BY <1>2 DEF Grab, Grabbed
  <1>3. CASE IsSceneChange
    <2>1. CASE shown
      <3>1. scdPrev = frame /\ frame \in Scenes
        BY <1>3, <2>1 DEF IsSceneChange, FrameType
      <3>2. ~(scdPrev = None \/ <<scdPrev, frame>> \in Changed)
        BY <3>1, SameSceneUnchanged, SceneAssumption
      <3> QED
        BY <1>3, <2>1, <3>2 DEF IsSceneChange, NextIteration
    <2>2. CASE ~shown
      BY <1>3, <2>2 DEF IsSceneChange, BaselineOfChange, NextIteration
    <2> QED
      BY <2>1, <2>2
  <1>4. CASE Evaluate
    BY <1>4 DEF Evaluate, NextIteration
  <1>5. CASE Reconnect
    BY <1>5 DEF Reconnect, NextIteration
  <1>6. CASE SendFrame
    <2>1. scdPrev = frame /\ ~shown
      BY <1>6 DEF SendFrame
    <2>2. shown' => scdPrev' = screen'
      BY <1>6, <2>1 DEF SendFrame
    <2> QED
      BY <1>6, <2>2 DEF SendFrame, NextIteration
  <1>7. CASE Forced
    BY <1>7 DEF Forced
  <1>8. ASSUME NEW t \in Mode!Threads, CallStep(t) PROVE IdleLoop'
    BY <1>8 DEF CallStep, StoreMode, ResetScd, ResetAff, IdleCalls
  <1>9. CASE ScreenChanges
    BY <1>9 DEF ScreenChanges
  <1>10. CASE UNCHANGED <<scdPrev, gpc, gmode, frame, screen, shown>>
    BY <1>10
  <1>11. CASE Stop \/ JoinAndClose \/ SubmitQuery \/ OnVlmResponse
                \/ (\E n \in Notifiers : NotifyTyping(n)) \/ Tick
                \/ ConnectionLost \/ UNCHANGED vars
    BY <1>10, <1>11 DEF Stop, JoinAndClose, SubmitQuery, OnVlmResponse,
         NotifyTyping, Tick, ConnectionLost, vars
  <1> QED
    BY <1>1, <1>2, <1>3, <1>4, <1>5, <1>6, <1>7, <1>8, <1>9, <1>11
       DEF Next, LoopStep

(* While the client stays idle the detector does not report the screen     *)
(* that the last frame sent shows, so the spurious scene change that the   *)
(* code does emit is due to the resets of the mode calls and to nothing    *)
(* else in the loop.                                                       *)
THEOREM SceneReportedOnce == Spec => ReportsOnce
  <1>1. Init => IdleCalls /\ IdleLoop
    BY DEF Init, IdleCalls, IdleLoop
  <1>2. /\ TypeOK /\ mode = "idle" /\ (mode = "idle")'
        /\ IdleCalls /\ IdleLoop /\ [Next]_vars
        => IdleCalls' /\ IdleLoop'
    BY IdleCallsStep, IdleLoopStep
  <1>3. IdleLoop => (gpc \in {"aff", "emit", "send"} => ~shown)
    BY DEF IdleLoop
  <1> QED
    BY <1>1, <1>2, <1>3, TypeCorrect, PTL DEF Spec, ReportsOnce
=============================================================================
