---------------------------- MODULE PipelineMode ----------------------------
(***************************************************************************)
(* The capture mode of the C++ client and the calls that change it         *)
(* (client/src/pipeline/capture_pipeline.cpp).  mode_ is one atomic, but   *)
(* SetTyping loads it and stores it in two accesses, and leaving a forced  *)
(* mode is a store followed by two Reset calls, so every call is split at  *)
(* its accesses to shared state and call[t] is thread t's position inside  *)
(* the call it is making.                                                  *)
(*                                                                         *)
(* Of the two frame filters this module keeps only what Reset changes:     *)
(* primed says which of them hold a reference frame.                       *)
(***************************************************************************)
CONSTANTS
  Notifiers,            \* the gRPC threads serving NotifyTyping
  Rtc                   \* the WebRTC callback thread, which calls EndQuery

VARIABLES
  mode,                 \* mode_
  primed,               \* the filters, of {"scd", "aff"}, with a baseline
  call                  \* call[t]: where t is inside SetTyping or EndQuery

Threads == Notifiers \cup {Rtc}

modeVars == <<mode, primed, call>>

CaptureMode == {"idle", "typing", "query"}
Filters     == {"scd", "aff"}
CallPoints  == {"none", "storeTyping", "storeIdle", "resetScd", "resetAff"}

ModeTypeOK ==
  /\ mode \in CaptureMode
  /\ primed \in SUBSET Filters
  /\ call \in [Threads -> CallPoints]

ModeInit ==
  /\ mode = "idle"
  /\ primed = {}
  /\ call = [t \in Threads |-> "none"]

-----------------------------------------------------------------------------
(* SetTyping(typing), up to the load of mode_ and the decision taken on    *)
(* it.  When the decision is to do nothing the call returns at once and    *)
(* changes nothing, so only the two deciding branches are steps.           *)
SetTyping(t, typing) ==
  /\ call[t] = "none"
  /\ \/ /\ typing
        /\ mode # "query"
        /\ call' = [call EXCEPT ![t] = "storeTyping"]
     \/ /\ ~typing
        /\ mode = "typing"
        /\ call' = [call EXCEPT ![t] = "storeIdle"]
  /\ UNCHANGED <<mode, primed>>

(* The store SetTyping decided on, possibly long after its load.           *)
StoreTyping(t) ==
  /\ call[t] = "storeTyping"
  /\ mode' = "typing"
  /\ call' = [call EXCEPT ![t] = "none"]
  /\ UNCHANGED primed

StoreIdle(t) ==
  /\ call[t] = "storeIdle"
  /\ mode' = "idle"
  /\ call' = [call EXCEPT ![t] = "resetScd"]
  /\ UNCHANGED primed

BeginQuery ==
  /\ mode' = "query"
  /\ UNCHANGED <<primed, call>>

(* Mutant: EndQuery resets the filters but leaves mode_ as it is.          *)
ModeKept == mode

ModeAfterQuery == "idle"

(* EndQuery takes the session id and ignores it.                           *)
EndQuery(t) ==
  /\ call[t] = "none"
  /\ mode' = ModeAfterQuery
  /\ call' = [call EXCEPT ![t] = "resetScd"]
  /\ UNCHANGED primed

(* The two Reset calls that end StoreIdle and EndQuery, in their order.    *)
ResetScd(t) ==
  /\ call[t] = "resetScd"
  /\ primed' = primed \ {"scd"}
  /\ call' = [call EXCEPT ![t] = "resetAff"]
  /\ UNCHANGED mode

ResetAff(t) ==
  /\ call[t] = "resetAff"
  /\ primed' = primed \ {"aff"}
  /\ call' = [call EXCEPT ![t] = "none"]
  /\ UNCHANGED mode

(* GrabLoop gives filter f a baseline: IsSceneChange the detector,         *)
(* Evaluate and EvaluateForced the frame filter.  The loop took its copy   *)
(* of mode_ earlier, so this can happen in any mode.                       *)
GrabPrimes(f) ==
  /\ f \notin primed
  /\ primed' = primed \cup {f}
  /\ UNCHANGED <<mode, call>>

(* The steps of the calls in progress.                                     *)
CallStep(t) == StoreTyping(t) \/ StoreIdle(t) \/ ResetScd(t) \/ ResetAff(t)

(* The mode by itself, with its callers and the grab loop unconstrained.   *)
ModeNext ==
  \/ \E t \in Notifiers, typing \in BOOLEAN : SetTyping(t, typing)
  \/ BeginQuery
  \/ EndQuery(Rtc)
  \/ \E t \in Threads : CallStep(t)
  \/ \E f \in Filters : GrabPrimes(f)

ModeSpec == ModeInit /\ [][ModeNext]_modeVars
=============================================================================
