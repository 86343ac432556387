--------------------------- MODULE ClientProcess ---------------------------
(***************************************************************************)
(* The C++ client as a process (client/src/main.cpp): starting the capture *)
(* pipeline and the gRPC service, running until a signal, and stopping     *)
(* both, composed with the screen grabber, the peer connection and the     *)
(* server's registry.                                                      *)
(*                                                                         *)
(* Threads: main; the grab thread; a gRPC thread with one SubmitQuery call *)
(* at a time; the thread on which libdatachannel delivers messages.  Modes *)
(* and filters (CapturePipeline) are reduced to whether a grabbed frame is *)
(* emitted, and the answer to a query (PromptAppService) to its done       *)
(* response.                                                               *)
(***************************************************************************)
CONSTANTS Peers, NoPeer

(* Two names are enough for a new peer connection beside an old session.   *)
ASSUME PeerAssumption ==
  NoPeer \notin Peers /\ \A p \in Peers : Peers \ {p} # {}

VARIABLES
  held, useShm, open,                              \* ScreenCapture
  peer, pc, copen, connected, cpc, sock, sess,     \* WebRtcClient
  mpc,            \* where main is
  stop,           \* g_stop
  running,        \* running_
  gpc,            \* where the grab thread is
  hpc,            \* where the SubmitQuery call is
  asked,          \* a query is with the server, and its channel open
  rpc,            \* where the callback thread is
  cbs,            \* the callbacks installed
  alive           \* the objects of main that exist

captureVars == <<held, useShm, open>>
clientVars  == <<peer, pc, copen, connected, cpc, sock>>
webrtcVars  == <<clientVars, sess>>
mainVars    == <<mpc, stop, running, alive>>
queryVars   == <<hpc, asked, rpc>>
worldVars   == <<captureVars, webrtcVars, queryVars>>
hostVars    == <<captureVars, webrtcVars, mainVars, gpc, cbs>>
vars == <<worldVars, mainVars, gpc, cbs>>

Capture == INSTANCE ScreenCapture
Webrtc  == INSTANCE WebRtcClient

TypeOK ==
  /\ Capture!CaptureTypeOK
  /\ Webrtc!WebRtcTypeOK
  /\ mpc \in {"start", "connect", "thread", "grpc", "serving", "shutdown",
              "stop", "join", "closeCapture", "return", "freeService",
              "exited", "killed"}
  /\ {stop, running, asked} \subseteq BOOLEAN
  /\ gpc \in {"none", "top", "grabbed", "emit", "connect", "send", "exited"}
  /\ hpc \in {"none", "check", "send", "wait"}
  /\ rpc \in {"idle", "pipeline", "service"}
  /\ cbs \subseteq {"response", "subscriber"}
  /\ alive \subseteq {"pipeline", "service"}

Init ==
  /\ Capture!CaptureInit
  /\ Webrtc!WebRtcInit
  /\ mpc = "start" /\ stop = FALSE /\ running = FALSE /\ alive = {"pipeline"}
  /\ gpc = "none"
  /\ hpc = "none" /\ asked = FALSE /\ rpc = "idle"
  /\ cbs = {}

(* An answer still to come is lost with its channel.                       *)
AnswerKept == asked' = (asked /\ copen') /\ UNCHANGED <<hpc, rpc>>

-----------------------------------------------------------------------------
(* CapturePipeline::Start: the display, the first Connect, whatever its    *)
(* result, and then the callback and the grab thread.                      *)
StartPipeline ==
  /\ mpc = "start"
  /\ \/ /\ mpc' = "connect" /\ running' = TRUE /\ cpc' = "new"
        /\ Capture!Open
     \/ mpc' = "killed" /\ Capture!OpenKilled /\ UNCHANGED <<running, cpc>>
     \/ mpc' = "return" /\ UNCHANGED <<captureVars, running, cpc>>
  /\ UNCHANGED <<peer, pc, copen, connected, sock, sess, stop, alive, gpc,
                 queryVars, cbs>>

FirstConnected ==
  /\ mpc = "connect" /\ cpc \in {"ok", "failed"}
  /\ mpc' = "thread" /\ cpc' = "idle"
  /\ cbs' = cbs \cup {"response"}
  /\ UNCHANGED <<captureVars, peer, pc, copen, connected, sock, sess, stop,
                 running, alive, gpc, queryVars>>

StartThread ==
  /\ mpc = "thread" /\ mpc' = "grpc"
  /\ gpc' = "top"
  /\ UNCHANGED <<worldVars, stop, running, alive, cbs>>

(* PromptAppService::Start: the service subscribes to the responses, and   *)
(* the server binds its address or not.                                    *)
StartService ==
  /\ mpc = "grpc" /\ mpc' \in {"serving", "stop"}
  /\ cbs' = cbs \cup {"subscriber"}
  /\ alive' = alive \cup {"service"}
  /\ UNCHANGED <<worldVars, stop, running, gpc>>

OnSignal ==
  /\ ~stop /\ mpc \notin {"exited", "killed"}
  /\ stop' = TRUE
  /\ UNCHANGED <<worldVars, mpc, running, alive, gpc, cbs>>

(* main leaves its loop; PromptAppService::Stop shuts the server down,     *)
(* which cancels the calls still open after 200 ms and waits for them.     *)
StopServing ==
  /\ mpc = "serving" /\ stop /\ mpc' = "shutdown"
  /\ UNCHANGED <<worldVars, stop, running, alive, gpc, cbs>>

ServerStopped ==
  /\ mpc = "shutdown" /\ hpc = "none" /\ mpc' = "stop"
  /\ UNCHANGED <<worldVars, stop, running, alive, gpc, cbs>>

(* CapturePipeline::Stop.                                                  *)
StopPipeline ==
  /\ mpc = "stop" /\ mpc' = "join"
  /\ running' = FALSE
  /\ UNCHANGED <<worldVars, stop, alive, gpc, cbs>>

(* Mutant: the connection is closed without joining the thread.            *)
MayCloseAtOnce == rpc = "idle"

(* The grab thread was joined.  Closing a channel waits for a callback     *)
(* that is running on it.                                                  *)
MayClose == gpc = "exited" /\ rpc = "idle"

CloseWebRtc ==
  /\ mpc = "join" /\ MayClose /\ mpc' = "closeCapture"
  /\ Webrtc!Close /\ AnswerKept
  /\ UNCHANGED <<captureVars, stop, running, alive, gpc, cbs>>

CloseCapture ==
  /\ mpc = "closeCapture" /\ mpc' = "return"
  /\ Capture!Close
  /\ UNCHANGED <<webrtcVars, queryVars, stop, running, alive, gpc, cbs>>

(* main returns: its objects are destroyed, the service first.             *)
FreeService ==
  /\ mpc = "return" /\ mpc' = "freeService"
  /\ alive' = alive \ {"service"}
  /\ UNCHANGED <<worldVars, stop, running, gpc, cbs>>

FreePipeline ==
  /\ mpc = "freeService" /\ mpc' = "exited"
  /\ Webrtc!Close
  /\ Capture!Teardown
  /\ alive' = {}
  /\ UNCHANGED <<useShm, open, queryVars, stop, running, gpc, cbs>>

MainStep ==
  \/ StartPipeline \/ FirstConnected \/ StartThread \/ StartService
  \/ StopServing \/ ServerStopped \/ StopPipeline \/ CloseWebRtc
  \/ CloseCapture \/ FreeService \/ FreePipeline

-----------------------------------------------------------------------------
(* Mutant: the loop does not look at running_.                             *)
LoopsForEver == TRUE

Looping == running

(* The grab loop: its condition and the grab, which may fail; the decision *)
(* to emit; the lazy reconnect, which drops the frame when it fails; the   *)
(* send.                                                                   *)
Grab ==
  /\ gpc = "top"
  /\ \/ ~Looping /\ gpc' = "exited" /\ UNCHANGED captureVars
     \/ Looping /\ gpc' = "grabbed" /\ Capture!GrabImage
  /\ UNCHANGED <<webrtcVars, mainVars, queryVars, cbs>>

Filter ==
  /\ gpc = "grabbed" /\ gpc' \in {"top", "emit"}
  /\ Capture!ConvertImage
  /\ UNCHANGED <<webrtcVars, mainVars, queryVars, cbs>>

IsConnected ==
  /\ gpc = "emit"
  /\ IF connected THEN gpc' = "send" /\ UNCHANGED cpc
                  ELSE gpc' = "connect" /\ cpc' = "new"
  /\ UNCHANGED <<captureVars, peer, pc, copen, connected, sock, sess, mainVars,
                 queryVars, cbs>>

Reconnected ==
  /\ gpc = "connect" /\ cpc \in {"ok", "failed"}
  /\ gpc' = IF cpc = "ok" THEN "send" ELSE "top"
  /\ cpc' = "idle"
  /\ UNCHANGED <<captureVars, peer, pc, copen, connected, sock, sess, mainVars,
                 queryVars, cbs>>

SendFrame ==
  /\ gpc = "send" /\ gpc' = "top"
  /\ UNCHANGED <<worldVars, mainVars, cbs>>

GrabStep == Grab \/ Filter \/ IsConnected \/ Reconnected \/ SendFrame

(* Connect, on the main thread or the grab thread.                         *)
Connect ==
  /\ Webrtc!ConnectStep /\ AnswerKept
  /\ UNCHANGED <<captureVars, mainVars, gpc, cbs>>

-----------------------------------------------------------------------------
(* A SubmitQuery call.  SendQuery tests control_dc_ and then sends on what *)
(* control_dc_ is by then: when Connect has replaced it in between, send   *)
(* throws and the call ends.  (Bound: one query with the server at a time.) *)
SubmitQuery ==
  /\ mpc = "serving"
  /\ hpc = "none" /\ ~asked
  /\ hpc' = "check"
  /\ UNCHANGED <<hostVars, asked, rpc>>

SendQuery ==
  /\ \/ /\ hpc = "check"
        /\ hpc' = IF copen THEN "send" ELSE "none"
        /\ UNCHANGED asked
     \/ /\ hpc = "send"
        /\ hpc' = IF copen THEN "wait" ELSE "none"
        /\ asked' = copen
  /\ UNCHANGED <<hostVars, rpc>>

(* The call has its answer, or its deadline passed, or the gRPC server     *)
(* shuts down.                                                             *)
ReturnQuery ==
  /\ hpc = "wait" /\ hpc' = "none"
  /\ UNCHANGED <<hostVars, asked, rpc>>

(* The last response arrives (OnControlMessage), goes to the pipeline if   *)
(* it has a callback there and on to the service if that has subscribed.   *)
OnControlMessage ==
  /\ rpc = "idle" /\ asked
  /\ rpc' = IF "response" \in cbs THEN "pipeline" ELSE "idle"
  /\ asked' = FALSE
  /\ UNCHANGED <<hostVars, hpc>>

OnVlmResponse ==
  /\ rpc = "pipeline"
  /\ rpc' = IF "subscriber" \in cbs THEN "service" ELSE "idle"
  /\ UNCHANGED <<hostVars, hpc, asked>>

DispatchChunk ==
  /\ rpc = "service" /\ rpc' = "idle"
  /\ UNCHANGED <<hostVars, hpc, asked>>

QueryStep == SendQuery \/ ReturnQuery
RtcStep   == OnControlMessage \/ OnVlmResponse \/ DispatchChunk

-----------------------------------------------------------------------------
(* The server and libdatachannel.                                          *)
Remote(A) ==
  A /\ UNCHANGED <<captureVars, clientVars, mainVars, gpc, queryVars, cbs>>

ServeOffer(p)  == Remote(Webrtc!OfferStep(p))
EndSession(p)  == Remote(Webrtc!EndSession(p))
ServerShutdown == Remote(Webrtc!Shutdown)

Library ==
  /\ Webrtc!LibraryStep /\ AnswerKept
  /\ UNCHANGED <<captureVars, mainVars, gpc, cbs>>

Next ==
  \/ MainStep \/ OnSignal \/ GrabStep \/ Connect
  \/ SubmitQuery \/ QueryStep \/ RtcStep
  \/ \E p \in Peers : ServeOffer(p) \/ EndSession(p)
  \/ ServerShutdown \/ Library

Spec == Init /\ [][Next]_vars

(* Fairness: the threads run, a gathering or a poll ends (by its time-out  *)
(* if need be), the signalling server answers a request it has accepted or *)
(* closes it, a session the client has left is found out, and a call       *)
(* returns by its deadline of 120 s (prompt_app/app.py:147).  No           *)
(* connection has to be established and no frame to be emitted.            *)
FairSpec ==
  /\ Spec
  /\ WF_vars(MainStep) /\ WF_vars(GrabStep) /\ WF_vars(Connect)
  /\ WF_vars(QueryStep) /\ WF_vars(RtcStep)
  /\ \A p \in Peers : WF_vars(ServeOffer(p)) /\ WF_vars(EndSession(p))

-----------------------------------------------------------------------------
(* connected_ is about the current peer connection: whatever attempt is    *)
(* given up, replaced or late, the flag is only up while *pc_ is.  The     *)
(* lazy reconnect of the grab loop tests nothing else.                     *)
ConnectedIsCurrent == connected => pc = "connected"

(* No thread uses what main has closed or destroyed: the grab thread finds *)
(* the display and the shared image while it converts and the peer         *)
(* connection while it connects or sends; calls and callbacks find the     *)
(* service and the pipeline.                                               *)
UsesAreAlive ==
  /\ gpc = "grabbed" => /\ "display" \in held
                        /\ useShm => {"ximage", "mapping"} \subseteq held
  /\ gpc \in {"emit", "connect", "send"} => pc # "null"
  /\ hpc # "none" => "service" \in alive /\ pc # "null"
  /\ rpc # "idle" => "pipeline" \in alive
  /\ rpc = "service" => "service" \in alive

(* Nothing is left behind: outside Connect no socket is open, between      *)
(* grabs no image, and when main has returned the display is closed and    *)
(* the shared memory removed, unless XShmAttach had failed.                *)
NothingLeftBehind ==
  /\ cpc = "idle" => ~sock
  /\ gpc = "top" => "frame" \notin held
  /\ mpc = "exited" => held \subseteq IF useShm THEN {} ELSE {"segment", "mapping"}

(* "remote-vlm client running; ctrl-c to exit" (main.cpp:80): after a      *)
(* signal main returns, wherever the grab thread, a call or a callback is, *)
(* provided the signalling server does not leave a request hanging.        *)
CtrlCExits == stop ~> mpc \in {"exited", "killed"}

(* A session whose offer was answered leaves the server's registry once    *)
(* the client has given its peer connection up, connected or not.          *)
SessionsEnd ==
  \A p \in Peers : sess[p] \in {"answered", "up"} /\ p # peer ~> sess[p] = "none"
=============================================================================
