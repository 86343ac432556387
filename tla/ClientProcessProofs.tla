------------------------ MODULE ClientProcessProofs ------------------------
(***************************************************************************)
(* Proofs about ClientProcess, for any set of peer connections: its type   *)
(* invariant, that connected_ is about the current peer connection, that   *)
(* no thread uses what was closed or destroyed, and that nothing is left   *)
(* behind.                                                                 *)
(***************************************************************************)
EXTENDS ClientProcess, TLAPS

USE DEF captureVars, clientVars, webrtcVars, mainVars, queryVars, worldVars,
        hostVars

-----------------------------------------------------------------------------
(* The inductive invariant.  Where main is while the grab thread may run,  *)
(* and while the service exists as well.                                   *)
Running == {"grpc", "serving", "shutdown", "stop", "join"}
Served  == Running \ {"grpc"}

(* The other threads are where main's progress allows: a grab thread only  *)
(* between its start and its join, one Connect at a time, calls only while *)
(* the server runs, callbacks only until the channel is closed.            *)
ThreadInv ==
  /\ gpc = "none" => mpc \in {"start", "connect", "thread", "return",
                              "freeService", "exited", "killed"}
  /\ gpc \notin {"none", "exited"} => mpc \in Running
  /\ mpc \in {"start", "connect", "thread"} => gpc = "none"
  /\ cpc # "idle" => mpc = "connect" \/ gpc = "connect"
  /\ hpc # "none" => mpc \in {"serving", "shutdown"}
  /\ rpc # "idle" => mpc \in Served
  /\ asked => mpc \in Served
  /\ mpc \in Served => "service" \in alive
  /\ mpc # "exited" => "pipeline" \in alive

(* The peer connection exists once the first Connect has been tried; until *)
(* an answer was read it is new; and the socket is open in HttpPost only.  *)
PeerInv ==
  /\ mpc \in Running \cup {"thread"} => pc # "null"
  /\ cpc \in {"gather", "exchange", "post", "recv"} => pc = "new"
  /\ cpc \in {"poll", "ok", "failed"} => pc # "null"
  /\ sock => cpc \in {"post", "recv"}

(* What the grabber holds: with shared memory all of it or nothing.        *)
CaptureInv ==
  /\ mpc = "start" => ~useShm
  /\ mpc \in Running \cup {"connect", "thread", "closeCapture"} =>
       open /\ "display" \in held
  /\ useShm => held \in {{}, {"display"} \cup Capture!Shm}
  /\ ~useShm => held \subseteq {"display", "segment", "mapping", "frame"}
  /\ "frame" \in held => gpc = "grabbed"
  /\ mpc = "exited" =>
       held \subseteq IF useShm THEN {} ELSE {"segment", "mapping"}

-----------------------------------------------------------------------------
(* The type invariant, in four parts.                                      *)
PlaceType ==
  /\ mpc \in {"start", "connect", "thread", "grpc", "serving", "shutdown",
              "stop", "join", "closeCapture", "return", "freeService",
              "exited", "killed"}
  /\ gpc \in {"none", "top", "grabbed", "emit", "connect", "send", "exited"}
  /\ hpc \in {"none", "check", "send", "wait"}
  /\ rpc \in {"idle", "pipeline", "service"}
  /\ cbs \subseteq {"response", "subscriber"}
  /\ alive \subseteq {"pipeline", "service"}

FlagType == {stop, running, asked, copen, connected, sock} \subseteq BOOLEAN

PeerType ==
  /\ peer \in Peers \cup {NoPeer}
  /\ pc \in {"null", "new", "connecting", "connected", "disconnected", "failed"}
  /\ peer = NoPeer <=> pc = "null"
  /\ cpc \in {"idle", "new", "gather", "exchange", "post", "recv", "poll",
              "ok", "failed"}

SessType == sess \in [Peers -> Webrtc!Server!SessionStates]

(* Every thread stays within its places, and the sets of objects and       *)
(* callbacks within theirs.                                                *)
LEMMA PlaceTypeStep == TypeOK /\ [Next]_vars => PlaceType'
  <1> SUFFICES ASSUME TypeOK, [Next]_vars PROVE PlaceType'
    OBVIOUS
  <1> USE DEF TypeOK, PlaceType
  <1>1. CASE MainStep
    BY <1>1 DEF MainStep, StartPipeline, Capture!Open, Capture!OpenKilled,
       FirstConnected, StartThread, StartService, StopServing,
       ServerStopped, StopPipeline, CloseWebRtc, MayClose, Webrtc!Close,
       Webrtc!ClosePeer, AnswerKept, CloseCapture, Capture!Close,
       Capture!Teardown, Capture!Released, FreeService, FreePipeline
  <1>2. CASE OnSignal
    BY <1>2 DEF OnSignal
  <1>3. CASE GrabStep
    BY <1>3 DEF GrabStep, Grab, Looping, Capture!GrabImage, Filter,
       Capture!ConvertImage, IsConnected, Reconnected, SendFrame
  <1>4. CASE Connect
    BY <1>4 DEF Webrtc!ConnectStep, Connect, AnswerKept, Webrtc!NewPeer,
       Webrtc!ConnectedAfter, Webrtc!Gather, Webrtc!TcpConnect, Webrtc!Post,
       Webrtc!ReceiveAnswer, Webrtc!Poll
  <1>5. CASE SubmitQuery \/ QueryStep \/ RtcStep
    BY <1>5 DEF QueryStep, RtcStep, SubmitQuery, SendQuery, ReturnQuery,
       OnControlMessage, OnVlmResponse, DispatchChunk
  <1>6. ASSUME NEW p \in Peers, ServeOffer(p) \/ EndSession(p)
         PROVE PlaceType'
    BY <1>6 DEF ServeOffer, EndSession, Remote, Webrtc!OfferStep,
       Webrtc!EndSession,
       Webrtc!Server!offer, Webrtc!Server!answer, Webrtc!Server!on_state_change
  <1>7. CASE ServerShutdown
    BY <1>7 DEF ServerShutdown, Remote, Webrtc!Shutdown, Webrtc!Server!shutdown
  <1>8. CASE Library
    BY <1>8 DEF Webrtc!LibraryStep, Library, AnswerKept, Webrtc!PeerConnected,
       Webrtc!StateChange, Webrtc!ConnectedAfter, Webrtc!PeerDisconnected,
       Webrtc!PeerRecovered, Webrtc!PeerFailed, Webrtc!ChannelOpens
  <1>9. CASE UNCHANGED vars
    BY <1>9 DEF vars
  <1> QED
    BY <1>1, <1>2, <1>3, <1>4, <1>5, <1>6, <1>7, <1>8, <1>9 DEF Next

(* The flags stay Boolean.                                                 *)
LEMMA FlagTypeStep == TypeOK /\ [Next]_vars => FlagType'
  <1> SUFFICES ASSUME TypeOK, [Next]_vars PROVE FlagType'
    OBVIOUS
  <1> USE DEF TypeOK, FlagType, Webrtc!WebRtcTypeOK
  <1>1. CASE MainStep
    BY <1>1 DEF MainStep, StartPipeline, Capture!Open, Capture!OpenKilled,
       FirstConnected, StartThread, StartService, StopServing,
       ServerStopped, StopPipeline, CloseWebRtc, MayClose, Webrtc!Close,
       Webrtc!ClosePeer, AnswerKept, CloseCapture, Capture!Close,
       Capture!Teardown, Capture!Released, FreeService, FreePipeline
  <1>2. CASE OnSignal
    BY <1>2 DEF OnSignal
  <1>3. CASE GrabStep
    BY <1>3 DEF GrabStep, Grab, Looping, Capture!GrabImage, Filter,
       Capture!ConvertImage, IsConnected, Reconnected, SendFrame
  <1>4. CASE Connect
    BY <1>4 DEF Webrtc!ConnectStep, Connect, AnswerKept, Webrtc!NewPeer,
       Webrtc!ConnectedAfter, Webrtc!Gather, Webrtc!TcpConnect, Webrtc!Post,
       Webrtc!ReceiveAnswer, Webrtc!Poll
  <1>5. CASE SubmitQuery \/ QueryStep \/ RtcStep
    BY <1>5 DEF QueryStep, RtcStep, SubmitQuery, SendQuery, ReturnQuery,
       OnControlMessage, OnVlmResponse, DispatchChunk
  <1>6. ASSUME NEW p \in Peers, ServeOffer(p) \/ EndSession(p)
         PROVE FlagType'
    BY <1>6 DEF ServeOffer, EndSession, Remote, Webrtc!OfferStep,
       Webrtc!EndSession,
       Webrtc!Server!offer, Webrtc!Server!answer, Webrtc!Server!on_state_change
  <1>7. CASE ServerShutdown
    BY <1>7 DEF ServerShutdown, Remote, Webrtc!Shutdown, Webrtc!Server!shutdown
  <1>8. CASE Library
    BY <1>8 DEF Webrtc!LibraryStep, Library, AnswerKept, Webrtc!PeerConnected,
       Webrtc!StateChange, Webrtc!ConnectedAfter, Webrtc!PeerDisconnected,
       Webrtc!PeerRecovered, Webrtc!PeerFailed, Webrtc!ChannelOpens
  <1>9. CASE UNCHANGED vars
    BY <1>9 DEF vars
  <1> QED
    BY <1>1, <1>2, <1>3, <1>4, <1>5, <1>6, <1>7, <1>8, <1>9 DEF Next

(* pc_ is null exactly when there is no peer; the answer of the server is  *)
(* only applied to one that is there.                                      *)
LEMMA PeerTypeStep == TypeOK /\ PeerInv /\ [Next]_vars => PeerType'
  <1> SUFFICES ASSUME TypeOK, PeerInv, [Next]_vars PROVE PeerType'
    OBVIOUS
  <1> USE PeerAssumption DEF TypeOK, PeerType, Webrtc!WebRtcTypeOK
  <1>1. CASE MainStep
    BY <1>1 DEF MainStep, StartPipeline, Capture!Open, Capture!OpenKilled,
       FirstConnected, StartThread, StartService, StopServing,
       ServerStopped, StopPipeline, CloseWebRtc, MayClose, Webrtc!Close,
       Webrtc!ClosePeer, AnswerKept, CloseCapture, Capture!Close,
       Capture!Teardown, Capture!Released, FreeService, FreePipeline
  <1>2. CASE OnSignal
    BY <1>2 DEF OnSignal
  <1>3. CASE GrabStep
    BY <1>3 DEF GrabStep, Grab, Looping, Capture!GrabImage, Filter,
       Capture!ConvertImage, IsConnected, Reconnected, SendFrame
  <1>4. CASE Connect
    <2>1. CASE Webrtc!NewPeer
      BY <1>4, <2>1 DEF Connect, AnswerKept, Webrtc!NewPeer
    <2>2. CASE Webrtc!Gather
      BY <1>4, <2>2 DEF Connect, AnswerKept, Webrtc!Gather
    <2>3. CASE Webrtc!TcpConnect
      BY <1>4, <2>3 DEF Connect, AnswerKept, Webrtc!TcpConnect
    <2>4. CASE Webrtc!Post
      BY <1>4, <2>4 DEF Connect, AnswerKept, Webrtc!Post
    <2>5. CASE Webrtc!ReceiveAnswer
      BY <1>4, <2>5 DEF PeerInv, Connect, AnswerKept, Webrtc!ReceiveAnswer
    <2>6. CASE Webrtc!Poll
      BY <1>4, <2>6 DEF Connect, AnswerKept, Webrtc!Poll
    <2> QED
      BY <1>4, <2>1, <2>2, <2>3, <2>4, <2>5, <2>6 DEF Connect,
         Webrtc!ConnectStep
  <1>5. CASE SubmitQuery \/ QueryStep \/ RtcStep
    BY <1>5 DEF QueryStep, RtcStep, SubmitQuery, SendQuery, ReturnQuery,
       OnControlMessage, OnVlmResponse, DispatchChunk
  <1>6. ASSUME NEW p \in Peers, ServeOffer(p) \/ EndSession(p)
         PROVE PeerType'
    BY <1>6 DEF ServeOffer, EndSession, Remote, Webrtc!OfferStep,
       Webrtc!EndSession,
       Webrtc!Server!offer, Webrtc!Server!answer, Webrtc!Server!on_state_change
  <1>7. CASE ServerShutdown
    BY <1>7 DEF ServerShutdown, Remote, Webrtc!Shutdown, Webrtc!Server!shutdown
  <1>8. CASE Library
    BY <1>8 DEF Webrtc!LibraryStep, Library, AnswerKept, Webrtc!PeerConnected,
       Webrtc!StateChange, Webrtc!ConnectedAfter, Webrtc!PeerDisconnected,
       Webrtc!PeerRecovered, Webrtc!PeerFailed, Webrtc!ChannelOpens
  <1>9. CASE UNCHANGED vars
    BY <1>9 DEF vars
  <1> QED
    BY <1>1, <1>2, <1>3, <1>4, <1>5, <1>6, <1>7, <1>8, <1>9 DEF Next

(* The registry stays a function on the peers.                             *)
LEMMA SessTypeStep == TypeOK /\ [Next]_vars => SessType'
  <1> SUFFICES ASSUME TypeOK, [Next]_vars PROVE SessType'
    OBVIOUS
  <1> USE PeerAssumption DEF TypeOK, SessType, Webrtc!WebRtcTypeOK, Webrtc!Server!SessionStates
  <1>1. CASE MainStep
    BY <1>1 DEF MainStep, StartPipeline, Capture!Open, Capture!OpenKilled,
       FirstConnected, StartThread, StartService, StopServing,
       ServerStopped, StopPipeline, CloseWebRtc, MayClose, Webrtc!Close,
       Webrtc!ClosePeer, AnswerKept, CloseCapture, Capture!Close,
       Capture!Teardown, Capture!Released, FreeService, FreePipeline
  <1>2. CASE OnSignal
    BY <1>2 DEF OnSignal
  <1>3. CASE GrabStep
    BY <1>3 DEF GrabStep, Grab, Looping, Capture!GrabImage, Filter,
       Capture!ConvertImage, IsConnected, Reconnected, SendFrame
  <1>4. CASE Connect
    BY <1>4 DEF Webrtc!ConnectStep, Connect, AnswerKept, Webrtc!NewPeer,
       Webrtc!ConnectedAfter, Webrtc!Gather, Webrtc!TcpConnect, Webrtc!Post,
       Webrtc!ReceiveAnswer, Webrtc!Poll
  <1>5. CASE SubmitQuery \/ QueryStep \/ RtcStep
    BY <1>5 DEF QueryStep, RtcStep, SubmitQuery, SendQuery, ReturnQuery,
       OnControlMessage, OnVlmResponse, DispatchChunk
  <1>6. ASSUME NEW p \in Peers, ServeOffer(p) \/ EndSession(p)
         PROVE SessType'
    BY <1>6 DEF ServeOffer, EndSession, Remote, Webrtc!OfferStep,
       Webrtc!EndSession,
       Webrtc!Server!offer, Webrtc!Server!answer, Webrtc!Server!on_state_change
  <1>7. CASE ServerShutdown
    BY <1>7 DEF ServerShutdown, Remote, Webrtc!Shutdown, Webrtc!Server!shutdown
  <1>8. CASE Library
    BY <1>8 DEF Webrtc!LibraryStep, Library, AnswerKept, Webrtc!PeerConnected,
       Webrtc!StateChange, Webrtc!ConnectedAfter, Webrtc!PeerDisconnected,
       Webrtc!PeerRecovered, Webrtc!PeerFailed, Webrtc!ChannelOpens
  <1>9. CASE UNCHANGED vars
    BY <1>9 DEF vars
  <1> QED
    BY <1>1, <1>2, <1>3, <1>4, <1>5, <1>6, <1>7, <1>8, <1>9 DEF Next

(* The grabber's resources keep their type.                                *)
LEMMA CaptureTypeStep == TypeOK /\ [Next]_vars => Capture!CaptureTypeOK'
  <1> SUFFICES ASSUME TypeOK, [Next]_vars PROVE Capture!CaptureTypeOK'
    OBVIOUS
  <1> USE DEF TypeOK, Capture!CaptureTypeOK, Capture!Resources, Capture!Shm
  <1>1. CASE MainStep
    BY <1>1 DEF MainStep, StartPipeline, Capture!Open, Capture!OpenKilled,
       FirstConnected, StartThread, StartService, StopServing,
       ServerStopped, StopPipeline, CloseWebRtc, MayClose, Webrtc!Close,
       Webrtc!ClosePeer, AnswerKept, CloseCapture, Capture!Close,
       Capture!Teardown, Capture!Released, FreeService, FreePipeline
  <1>2. CASE OnSignal
    BY <1>2 DEF OnSignal
  <1>3. CASE GrabStep
    BY <1>3 DEF GrabStep, Grab, Looping, Capture!GrabImage, Filter,
       Capture!ConvertImage, IsConnected, Reconnected, SendFrame
  <1>4. CASE Connect
    BY <1>4 DEF Webrtc!ConnectStep, Connect, AnswerKept, Webrtc!NewPeer,
       Webrtc!ConnectedAfter, Webrtc!Gather, Webrtc!TcpConnect, Webrtc!Post,
       Webrtc!ReceiveAnswer, Webrtc!Poll
  <1>5. CASE SubmitQuery \/ QueryStep \/ RtcStep
    BY <1>5 DEF QueryStep, RtcStep, SubmitQuery, SendQuery, ReturnQuery,
       OnControlMessage, OnVlmResponse, DispatchChunk
  <1>6. ASSUME NEW p \in Peers, ServeOffer(p) \/ EndSession(p)
         PROVE Capture!CaptureTypeOK'
    BY <1>6 DEF ServeOffer, EndSession, Remote, Webrtc!OfferStep,
       Webrtc!EndSession,
       Webrtc!Server!offer, Webrtc!Server!answer, Webrtc!Server!on_state_change
  <1>7. CASE ServerShutdown
    BY <1>7 DEF ServerShutdown, Remote, Webrtc!Shutdown, Webrtc!Server!shutdown
  <1>8. CASE Library
    BY <1>8 DEF Webrtc!LibraryStep, Library, AnswerKept, Webrtc!PeerConnected,
       Webrtc!StateChange, Webrtc!ConnectedAfter, Webrtc!PeerDisconnected,
       Webrtc!PeerRecovered, Webrtc!PeerFailed, Webrtc!ChannelOpens
  <1>9. CASE UNCHANGED vars
    BY <1>9 DEF vars
  <1> QED
    BY <1>1, <1>2, <1>3, <1>4, <1>5, <1>6, <1>7, <1>8, <1>9 DEF Next

(* Every step keeps the type invariant, given that a peer connection is    *)
(* there while Connect waits for the answer.                               *)
LEMMA TypeStep == TypeOK /\ PeerInv /\ [Next]_vars => TypeOK'
  <1>1. TypeOK' <=> /\ PlaceType' /\ FlagType' /\ PeerType' /\ SessType'
                    /\ Capture!CaptureTypeOK'
    BY DEF TypeOK, Webrtc!WebRtcTypeOK, PlaceType, FlagType, PeerType, SessType
  <1> QED
    BY <1>1, PlaceTypeStep, FlagTypeStep, PeerTypeStep, SessTypeStep,
       CaptureTypeStep

-----------------------------------------------------------------------------
(* Every step keeps the threads in their places.                           *)
LEMMA ThreadStep == TypeOK /\ ThreadInv /\ [Next]_vars => ThreadInv'
  <1> SUFFICES ASSUME TypeOK, ThreadInv, [Next]_vars PROVE ThreadInv'
    OBVIOUS
  <1> USE DEF ThreadInv, Running, Served, TypeOK
  <1>1. CASE StartPipeline
    BY <1>1 DEF StartPipeline, Capture!Open, Capture!OpenKilled
  <1>2. CASE FirstConnected
    BY <1>2 DEF FirstConnected
  <1>3. CASE StartThread \/ StartService \/ OnSignal \/ StopServing
    BY <1>3 DEF StartThread, StartService, OnSignal, StopServing
  <1>4. CASE ServerStopped \/ StopPipeline \/ FreeService
    BY <1>4 DEF ServerStopped, StopPipeline, FreeService
  <1>5. CASE CloseWebRtc
    BY <1>5 DEF CloseWebRtc, MayClose, Webrtc!Close, Webrtc!ClosePeer,
       AnswerKept
  <1>6. CASE CloseCapture
    BY <1>6 DEF CloseCapture, Capture!Close, Capture!Teardown, Capture!Released
  <1>7. CASE FreePipeline
    BY <1>7 DEF FreePipeline, Webrtc!Close, Webrtc!ClosePeer,
       Capture!Teardown, Capture!Released
  <1>8. CASE Grab
    BY <1>8 DEF Grab, Looping, Capture!GrabImage
  <1>9. CASE Filter
    BY <1>9 DEF Filter, Capture!ConvertImage
  <1>10. CASE IsConnected \/ Reconnected \/ SendFrame
    BY <1>10 DEF IsConnected, Reconnected, SendFrame
  <1>11. CASE Connect /\ Webrtc!NewPeer
    BY <1>11 DEF Connect, AnswerKept, Webrtc!NewPeer, Webrtc!ConnectedAfter
  <1>12. CASE Connect /\ Webrtc!Gather
    BY <1>12 DEF Connect, AnswerKept, Webrtc!Gather
  <1>13. CASE Connect /\ Webrtc!TcpConnect
    BY <1>13 DEF Connect, AnswerKept, Webrtc!TcpConnect
  <1>14. CASE Connect /\ Webrtc!Post
    BY <1>14 DEF Connect, AnswerKept, Webrtc!Post
  <1>15. CASE Connect /\ Webrtc!ReceiveAnswer
    BY <1>15 DEF Connect, AnswerKept, Webrtc!ReceiveAnswer
  <1>16. CASE Connect /\ Webrtc!Poll
    BY <1>16 DEF Connect, AnswerKept, Webrtc!Poll
  <1>17. CASE SubmitQuery \/ SendQuery \/ ReturnQuery
    BY <1>17 DEF SubmitQuery, SendQuery, ReturnQuery
  <1>18. CASE OnControlMessage \/ OnVlmResponse \/ DispatchChunk
    BY <1>18 DEF OnControlMessage, OnVlmResponse, DispatchChunk
  <1>19. ASSUME NEW p \in Peers, ServeOffer(p) \/ EndSession(p)
         PROVE ThreadInv'
    BY <1>19 DEF ServeOffer, EndSession, Remote, Webrtc!OfferStep,
       Webrtc!EndSession,
       Webrtc!Server!offer, Webrtc!Server!answer, Webrtc!Server!on_state_change
  <1>20. CASE ServerShutdown
    BY <1>20 DEF ServerShutdown, Remote, Webrtc!Shutdown,
       Webrtc!Server!shutdown
  <1>21. CASE Library /\ Webrtc!PeerConnected
    BY <1>21 DEF Library, AnswerKept, Webrtc!PeerConnected,
       Webrtc!StateChange, Webrtc!ConnectedAfter
  <1>22. CASE Library /\ Webrtc!PeerDisconnected
    BY <1>22 DEF Library, AnswerKept, Webrtc!PeerDisconnected,
       Webrtc!StateChange, Webrtc!ConnectedAfter
  <1>23. CASE Library /\ Webrtc!PeerRecovered
    BY <1>23 DEF Library, AnswerKept, Webrtc!PeerRecovered,
       Webrtc!StateChange, Webrtc!ConnectedAfter
  <1>24. CASE Library /\ Webrtc!PeerFailed
    BY <1>24 DEF Library, AnswerKept, Webrtc!PeerFailed, Webrtc!StateChange,
       Webrtc!ConnectedAfter
  <1>25. CASE Library /\ Webrtc!ChannelOpens
    BY <1>25 DEF Library, AnswerKept, Webrtc!ChannelOpens
  <1>26. CASE UNCHANGED vars
    BY <1>26 DEF vars
  <1> QED
    BY <1>1, <1>2, <1>3, <1>4, <1>5, <1>6, <1>7, <1>8, <1>9, <1>10, <1>11,
       <1>12, <1>13, <1>14, <1>15, <1>16, <1>17, <1>18, <1>19, <1>20,
       <1>21, <1>22, <1>23, <1>24, <1>25, <1>26
       DEF Next, MainStep, GrabStep, QueryStep, RtcStep, Connect, Library,
           Webrtc!ConnectStep, Webrtc!LibraryStep

(* Every step keeps PeerInv.                                               *)
LEMMA PeerStep == TypeOK /\ ThreadInv /\ PeerInv /\ [Next]_vars => PeerInv'
  <1> SUFFICES ASSUME TypeOK, ThreadInv, PeerInv, [Next]_vars PROVE PeerInv'
    OBVIOUS
  <1> USE DEF PeerInv, ThreadInv, Running, Served, TypeOK
  <1>1. CASE StartPipeline
    BY <1>1 DEF StartPipeline, Capture!Open, Capture!OpenKilled
  <1>2. CASE FirstConnected
    BY <1>2 DEF FirstConnected
  <1>3. CASE StartThread \/ StartService \/ OnSignal \/ StopServing
    BY <1>3 DEF StartThread, StartService, OnSignal, StopServing
  <1>4. CASE ServerStopped \/ StopPipeline \/ FreeService
    BY <1>4 DEF ServerStopped, StopPipeline, FreeService
  <1>5. CASE CloseWebRtc
    BY <1>5 DEF CloseWebRtc, MayClose, Webrtc!Close, Webrtc!ClosePeer,
       AnswerKept
  <1>6. CASE CloseCapture
    BY <1>6 DEF CloseCapture, Capture!Close, Capture!Teardown, Capture!Released
  <1>7. CASE FreePipeline
    BY <1>7 DEF FreePipeline, Webrtc!Close, Webrtc!ClosePeer,
       Capture!Teardown, Capture!Released
  <1>8. CASE Grab
    BY <1>8 DEF Grab, Looping, Capture!GrabImage
  <1>9. CASE Filter
    BY <1>9 DEF Filter, Capture!ConvertImage
  <1>10. CASE IsConnected \/ Reconnected \/ SendFrame
    BY <1>10 DEF IsConnected, Reconnected, SendFrame
  <1>11. CASE Connect /\ Webrtc!NewPeer
    BY <1>11 DEF Connect, AnswerKept, Webrtc!NewPeer, Webrtc!ConnectedAfter
  <1>12. CASE Connect /\ Webrtc!Gather
    BY <1>12 DEF Connect, AnswerKept, Webrtc!Gather
  <1>13. CASE Connect /\ Webrtc!TcpConnect
    BY <1>13 DEF Connect, AnswerKept, Webrtc!TcpConnect
  <1>14. CASE Connect /\ Webrtc!Post
    BY <1>14 DEF Connect, AnswerKept, Webrtc!Post
  <1>15. CASE Connect /\ Webrtc!ReceiveAnswer
    BY <1>15 DEF Connect, AnswerKept, Webrtc!ReceiveAnswer
  <1>16. CASE Connect /\ Webrtc!Poll
    BY <1>16 DEF Connect, AnswerKept, Webrtc!Poll
  <1>17. CASE SubmitQuery \/ SendQuery \/ ReturnQuery
    BY <1>17 DEF SubmitQuery, SendQuery, ReturnQuery
  <1>18. CASE OnControlMessage \/ OnVlmResponse \/ DispatchChunk
    BY <1>18 DEF OnControlMessage, OnVlmResponse, DispatchChunk
  <1>19. ASSUME NEW p \in Peers, ServeOffer(p) \/ EndSession(p)
         PROVE PeerInv'
    BY <1>19 DEF ServeOffer, EndSession, Remote, Webrtc!OfferStep,
       Webrtc!EndSession,
       Webrtc!Server!offer, Webrtc!Server!answer, Webrtc!Server!on_state_change
  <1>20. CASE ServerShutdown
    BY <1>20 DEF ServerShutdown, Remote, Webrtc!Shutdown,
       Webrtc!Server!shutdown
  <1>21. CASE Library /\ Webrtc!PeerConnected
    BY <1>21 DEF Library, AnswerKept, Webrtc!PeerConnected,
       Webrtc!StateChange, Webrtc!ConnectedAfter
  <1>22. CASE Library /\ Webrtc!PeerDisconnected
    BY <1>22 DEF Library, AnswerKept, Webrtc!PeerDisconnected,
       Webrtc!StateChange, Webrtc!ConnectedAfter
  <1>23. CASE Library /\ Webrtc!PeerRecovered
    BY <1>23 DEF Library, AnswerKept, Webrtc!PeerRecovered,
       Webrtc!StateChange, Webrtc!ConnectedAfter
  <1>24. CASE Library /\ Webrtc!PeerFailed
    BY <1>24 DEF Library, AnswerKept, Webrtc!PeerFailed, Webrtc!StateChange,
       Webrtc!ConnectedAfter
  <1>25. CASE Library /\ Webrtc!ChannelOpens
    BY <1>25 DEF Library, AnswerKept, Webrtc!ChannelOpens
  <1>26. CASE UNCHANGED vars
    BY <1>26 DEF vars
  <1> QED
    BY <1>1, <1>2, <1>3, <1>4, <1>5, <1>6, <1>7, <1>8, <1>9, <1>10, <1>11,
       <1>12, <1>13, <1>14, <1>15, <1>16, <1>17, <1>18, <1>19, <1>20,
       <1>21, <1>22, <1>23, <1>24, <1>25, <1>26
       DEF Next, MainStep, GrabStep, QueryStep, RtcStep, Connect, Library,
           Webrtc!ConnectStep, Webrtc!LibraryStep

(* Every step keeps CaptureInv.                                            *)
LEMMA CaptureStep ==
  TypeOK /\ ThreadInv /\ CaptureInv /\ [Next]_vars => CaptureInv'
  <1> SUFFICES ASSUME TypeOK, ThreadInv, CaptureInv, [Next]_vars PROVE CaptureInv'
    OBVIOUS
  <1> USE DEF CaptureInv, ThreadInv, Running, Served, TypeOK, Capture!Shm
  <1>1. CASE StartPipeline
    BY <1>1 DEF StartPipeline, Capture!Open, Capture!OpenKilled
  <1>2. CASE FirstConnected
    BY <1>2 DEF FirstConnected
  <1>3. CASE StartThread \/ StartService \/ OnSignal \/ StopServing
    BY <1>3 DEF StartThread, StartService, OnSignal, StopServing
  <1>4. CASE ServerStopped \/ StopPipeline \/ FreeService
    BY <1>4 DEF ServerStopped, StopPipeline, FreeService
  <1>5. CASE CloseWebRtc
    BY <1>5 DEF CloseWebRtc, MayClose, Webrtc!Close, Webrtc!ClosePeer,
       AnswerKept
  <1>6. CASE CloseCapture
    BY <1>6 DEF CloseCapture, Capture!Close, Capture!Teardown, Capture!Released
  <1>7. CASE FreePipeline
    BY <1>7 DEF FreePipeline, Webrtc!Close, Webrtc!ClosePeer,
       Capture!Teardown, Capture!Released
  <1>8. CASE Grab
    BY <1>8 DEF Grab, Looping, Capture!GrabImage
  <1>9. CASE Filter
    BY <1>9 DEF Filter, Capture!ConvertImage
  <1>10. CASE IsConnected \/ Reconnected \/ SendFrame
    BY <1>10 DEF IsConnected, Reconnected, SendFrame
  <1>11. CASE Connect /\ Webrtc!NewPeer
    BY <1>11 DEF Connect, AnswerKept, Webrtc!NewPeer, Webrtc!ConnectedAfter
  <1>12. CASE Connect /\ Webrtc!Gather
    BY <1>12 DEF Connect, AnswerKept, Webrtc!Gather
  <1>13. CASE Connect /\ Webrtc!TcpConnect
    BY <1>13 DEF Connect, AnswerKept, Webrtc!TcpConnect
  <1>14. CASE Connect /\ Webrtc!Post
    BY <1>14 DEF Connect, AnswerKept, Webrtc!Post
  <1>15. CASE Connect /\ Webrtc!ReceiveAnswer
    BY <1>15 DEF Connect, AnswerKept, Webrtc!ReceiveAnswer
  <1>16. CASE Connect /\ Webrtc!Poll
    BY <1>16 DEF Connect, AnswerKept, Webrtc!Poll
  <1>17. CASE SubmitQuery \/ SendQuery \/ ReturnQuery
    BY <1>17 DEF SubmitQuery, SendQuery, ReturnQuery
  <1>18. CASE OnControlMessage \/ OnVlmResponse \/ DispatchChunk
    BY <1>18 DEF OnControlMessage, OnVlmResponse, DispatchChunk
  <1>19. ASSUME NEW p \in Peers, ServeOffer(p) \/ EndSession(p)
         PROVE CaptureInv'
    BY <1>19 DEF ServeOffer, EndSession, Remote, Webrtc!OfferStep,
       Webrtc!EndSession,
       Webrtc!Server!offer, Webrtc!Server!answer, Webrtc!Server!on_state_change
  <1>20. CASE ServerShutdown
    BY <1>20 DEF ServerShutdown, Remote, Webrtc!Shutdown,
       Webrtc!Server!shutdown
  <1>21. CASE Library /\ Webrtc!PeerConnected
    BY <1>21 DEF Library, AnswerKept, Webrtc!PeerConnected,
       Webrtc!StateChange, Webrtc!ConnectedAfter
  <1>22. CASE Library /\ Webrtc!PeerDisconnected
    BY <1>22 DEF Library, AnswerKept, Webrtc!PeerDisconnected,
       Webrtc!StateChange, Webrtc!ConnectedAfter
  <1>23. CASE Library /\ Webrtc!PeerRecovered
    BY <1>23 DEF Library, AnswerKept, Webrtc!PeerRecovered,
       Webrtc!StateChange, Webrtc!ConnectedAfter
  <1>24. CASE Library /\ Webrtc!PeerFailed
    BY <1>24 DEF Library, AnswerKept, Webrtc!PeerFailed, Webrtc!StateChange,
       Webrtc!ConnectedAfter
  <1>25. CASE Library /\ Webrtc!ChannelOpens
    BY <1>25 DEF Library, AnswerKept, Webrtc!ChannelOpens
  <1>26. CASE UNCHANGED vars
    BY <1>26 DEF vars
  <1> QED
    BY <1>1, <1>2, <1>3, <1>4, <1>5, <1>6, <1>7, <1>8, <1>9, <1>10, <1>11,
       <1>12, <1>13, <1>14, <1>15, <1>16, <1>17, <1>18, <1>19, <1>20,
       <1>21, <1>22, <1>23, <1>24, <1>25, <1>26
       DEF Next, MainStep, GrabStep, QueryStep, RtcStep, Connect, Library,
           Webrtc!ConnectStep, Webrtc!LibraryStep

(* Every step keeps ConnectedIsCurrent: a peer connection is only replaced *)
(* after it reported Closed, and one that is connecting was never up.      *)
LEMMA ConnectedStep ==
  TypeOK /\ ThreadInv /\ PeerInv /\ ConnectedIsCurrent /\ [Next]_vars => ConnectedIsCurrent'
  <1> SUFFICES ASSUME TypeOK, ThreadInv, PeerInv, ConnectedIsCurrent, [Next]_vars PROVE ConnectedIsCurrent'
    OBVIOUS
  <1> USE DEF ConnectedIsCurrent, PeerInv, ThreadInv, TypeOK
  <1>1. CASE StartPipeline
    BY <1>1 DEF StartPipeline, Capture!Open, Capture!OpenKilled
  <1>2. CASE FirstConnected
    BY <1>2 DEF FirstConnected
  <1>3. CASE StartThread \/ StartService \/ OnSignal \/ StopServing
    BY <1>3 DEF StartThread, StartService, OnSignal, StopServing
  <1>4. CASE ServerStopped \/ StopPipeline \/ FreeService
    BY <1>4 DEF ServerStopped, StopPipeline, FreeService
  <1>5. CASE CloseWebRtc
    BY <1>5 DEF CloseWebRtc, MayClose, Webrtc!Close, Webrtc!ClosePeer,
       AnswerKept
  <1>6. CASE CloseCapture
    BY <1>6 DEF CloseCapture, Capture!Close, Capture!Teardown, Capture!Released
  <1>7. CASE FreePipeline
    BY <1>7 DEF FreePipeline, Webrtc!Close, Webrtc!ClosePeer,
       Capture!Teardown, Capture!Released
  <1>8. CASE Grab
    BY <1>8 DEF Grab, Looping, Capture!GrabImage
  <1>9. CASE Filter
    BY <1>9 DEF Filter, Capture!ConvertImage
  <1>10. CASE IsConnected \/ Reconnected \/ SendFrame
    BY <1>10 DEF IsConnected, Reconnected, SendFrame
  <1>11. CASE Connect /\ Webrtc!NewPeer
    BY <1>11 DEF Connect, AnswerKept, Webrtc!NewPeer, Webrtc!ConnectedAfter
  <1>12. CASE Connect /\ Webrtc!Gather
    BY <1>12 DEF Connect, AnswerKept, Webrtc!Gather
  <1>13. CASE Connect /\ Webrtc!TcpConnect
    BY <1>13 DEF Connect, AnswerKept, Webrtc!TcpConnect
  <1>14. CASE Connect /\ Webrtc!Post
    BY <1>14 DEF Connect, AnswerKept, Webrtc!Post
  <1>15. CASE Connect /\ Webrtc!ReceiveAnswer
    BY <1>15 DEF Connect, AnswerKept, Webrtc!ReceiveAnswer
  <1>16. CASE Connect /\ Webrtc!Poll
    BY <1>16 DEF Connect, AnswerKept, Webrtc!Poll
  <1>17. CASE SubmitQuery \/ SendQuery \/ ReturnQuery
    BY <1>17 DEF SubmitQuery, SendQuery, ReturnQuery
  <1>18. CASE OnControlMessage \/ OnVlmResponse \/ DispatchChunk
    BY <1>18 DEF OnControlMessage, OnVlmResponse, DispatchChunk
  <1>19. ASSUME NEW p \in Peers, ServeOffer(p) \/ EndSession(p)
         PROVE ConnectedIsCurrent'
    BY <1>19 DEF ServeOffer, EndSession, Remote, Webrtc!OfferStep,
       Webrtc!EndSession,
       Webrtc!Server!offer, Webrtc!Server!answer, Webrtc!Server!on_state_change
  <1>20. CASE ServerShutdown
    BY <1>20 DEF ServerShutdown, Remote, Webrtc!Shutdown,
       Webrtc!Server!shutdown
  <1>21. CASE Library /\ Webrtc!PeerConnected
    BY <1>21 DEF Library, AnswerKept, Webrtc!PeerConnected,
       Webrtc!StateChange, Webrtc!ConnectedAfter
  <1>22. CASE Library /\ Webrtc!PeerDisconnected
    BY <1>22 DEF Library, AnswerKept, Webrtc!PeerDisconnected,
       Webrtc!StateChange, Webrtc!ConnectedAfter
  <1>23. CASE Library /\ Webrtc!PeerRecovered
    BY <1>23 DEF Library, AnswerKept, Webrtc!PeerRecovered,
       Webrtc!StateChange, Webrtc!ConnectedAfter
  <1>24. CASE Library /\ Webrtc!PeerFailed
    BY <1>24 DEF Library, AnswerKept, Webrtc!PeerFailed, Webrtc!StateChange,
       Webrtc!ConnectedAfter
  <1>25. CASE Library /\ Webrtc!ChannelOpens
    BY <1>25 DEF Library, AnswerKept, Webrtc!ChannelOpens
  <1>26. CASE UNCHANGED vars
    BY <1>26 DEF vars
  <1> QED
    BY <1>1, <1>2, <1>3, <1>4, <1>5, <1>6, <1>7, <1>8, <1>9, <1>10, <1>11,
       <1>12, <1>13, <1>14, <1>15, <1>16, <1>17, <1>18, <1>19, <1>20,
       <1>21, <1>22, <1>23, <1>24, <1>25, <1>26
       DEF Next, MainStep, GrabStep, QueryStep, RtcStep, Connect, Library,
           Webrtc!ConnectStep, Webrtc!LibraryStep

-----------------------------------------------------------------------------
(* The parts hold together in every reachable state.                       *)
LEMMA Invariance == Spec => [](TypeOK /\ ThreadInv /\ PeerInv /\ CaptureInv)
  <1>1. Init => TypeOK
    BY PeerAssumption DEF Init, TypeOK, Capture!CaptureInit,
       Capture!CaptureTypeOK,
       Webrtc!WebRtcInit, Webrtc!WebRtcTypeOK, Webrtc!Server!RegistryInit,
       Webrtc!Server!SessionStates
  <1>2. Init => ThreadInv /\ PeerInv /\ CaptureInv
    BY DEF Init, ThreadInv, PeerInv, CaptureInv, Running, Served,
       Capture!CaptureInit, Webrtc!WebRtcInit
  <1> QED
    BY <1>1, <1>2, TypeStep, ThreadStep, PeerStep, CaptureStep, PTL DEF Spec

(* TypeOK holds of every reachable state; with it that pc_ is null exactly *)
(* when there is no peer connection (webrtc_client.cpp).                   *)
THEOREM TypeCorrect == Spec => []TypeOK
  BY Invariance, PTL

(* connected_, one flag for all peer connections in turn, is up only while *)
(* the current one is connected (webrtc_client.cpp, the onStateChange      *)
(* callback, Connect and Close).                                           *)
THEOREM ConnectedCurrent == Spec => []ConnectedIsCurrent
  <1>1. Init => ConnectedIsCurrent
    BY DEF Init, Webrtc!WebRtcInit, ConnectedIsCurrent
  <1> QED
    BY <1>1, Invariance, ConnectedStep, PTL DEF Spec

(* The order in which Stop and the end of main join, close and destroy     *)
(* leaves no thread with something that is gone (capture_pipeline.cpp,     *)
(* Stop; main.cpp).                                                        *)
THEOREM UsesAlive == Spec => []UsesAreAlive
  <1>1. ThreadInv /\ PeerInv /\ CaptureInv => UsesAreAlive
    BY DEF ThreadInv, PeerInv, CaptureInv, UsesAreAlive, Running, Served,
       Capture!Shm
  <1> QED
    BY <1>1, Invariance, PTL

(* Every way out of Connect, Grab and main frees what it acquired, but for *)
(* the segment of a failed XShmAttach (screen_capture.cpp, HttpPost).      *)
THEOREM NothingLeft == Spec => []NothingLeftBehind
  <1>1. TypeOK /\ ThreadInv /\ PeerInv /\ CaptureInv => NothingLeftBehind
    BY DEF TypeOK, PeerInv, CaptureInv, NothingLeftBehind
  <1> QED
    BY <1>1, Invariance, PTL
=============================================================================
