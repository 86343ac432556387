---------------------------- MODULE WebRtcClient ----------------------------
(***************************************************************************)
(* The peer connection of the C++ client (client/src/webrtc): Connect step *)
(* by step, with the HTTP exchange inside it, Close, and libdatachannel's  *)
(* callbacks, which run on its own threads.                                *)
(*                                                                         *)
(* Of libdatachannel the model assumes: a peer connection that is closed   *)
(* or destroyed reports Closed before the call returns and nothing after   *)
(* it; a channel that was closed or destroyed is not open any more; one    *)
(* that is merely disconnected still says it is open.                      *)
(***************************************************************************)
CONSTANTS
  Peers,          \* bound: the peer connections with a session at a time
  NoPeer          \* a null pc_

VARIABLES
  peer,           \* pc_
  pc,             \* the state of *pc_
  copen,          \* control_dc_ is open
  connected,      \* connected_
  cpc,            \* where Connect is; its result until the caller took it
  sock,           \* the socket of HttpPost is open
  sess            \* the server's sessions

Server == INSTANCE WebRtcServer

WebRtcTypeOK ==
  /\ peer \in Peers \cup {NoPeer}
  /\ pc \in {"null", "new", "connecting", "connected", "disconnected", "failed"}
  /\ peer = NoPeer <=> pc = "null"
  /\ {copen, connected, sock} \subseteq BOOLEAN
  /\ cpc \in {"idle", "new", "gather", "exchange", "post", "recv", "poll",
              "ok", "failed"}
  /\ sess \in [Peers -> Server!SessionStates]

WebRtcInit ==
  /\ peer = NoPeer /\ pc = "null"
  /\ copen = FALSE /\ connected = FALSE /\ sock = FALSE
  /\ cpc = "idle"
  /\ Server!RegistryInit

-----------------------------------------------------------------------------
(* Mutant: Disconnected is not handled.                                    *)
ConnectedUnlessEnded(s) ==
  IF s = "connected" THEN TRUE ELSE connected /\ s \notin {"failed", "closed"}

(* connected_ after onStateChange was called with state s.                 *)
ConnectedAfter(s) ==
  IF s = "connected" THEN TRUE
  ELSE connected /\ s \notin {"disconnected", "failed", "closed"}

(* Connect creates the peer connection and its channels; the old one, if   *)
(* any, is destroyed by the assignment to pc_.                             *)
NewPeer ==
  /\ cpc = "new"
  /\ \E p \in Peers \ {peer} : sess[p] = "none" /\ peer' = p
  /\ pc' = "new" /\ copen' = FALSE
  /\ connected' = IF pc = "null" THEN connected ELSE ConnectedAfter("closed")
  /\ cpc' = "gather"
  /\ UNCHANGED <<sock, sess>>

(* Candidates are gathered in time, or not, or there is no description.    *)
Gather ==
  /\ cpc = "gather"
  /\ cpc' \in {"exchange", "failed"}
  /\ UNCHANGED <<peer, pc, copen, connected, sock, sess>>

(* HttpPost.  Its URL or host may be no good or nobody may listen there;   *)
(* sending may fail, and then the socket is closed.                        *)
TcpConnect ==
  /\ cpc = "exchange"
  /\ \/ cpc' = "post" /\ sock' = TRUE
     \/ cpc' = "failed" /\ UNCHANGED sock
  /\ UNCHANGED <<peer, pc, copen, connected, sess>>

Post ==
  /\ cpc = "post"
  /\ \/ cpc' = "failed" /\ sock' = FALSE /\ UNCHANGED sess
     \/ /\ cpc' = "recv"
        /\ sess' = [sess EXCEPT ![peer] = "offered"]
        /\ UNCHANGED sock
  /\ UNCHANGED <<peer, pc, copen, connected>>

(* The response is read until the server closes.  One without a header,    *)
(* without JSON or without an sdp (a 500, a connection cut) fails.  There  *)
(* is no time-out.  (A session that is gone may have been answered first.  *)
(* One whose offer raised is forgotten here: nothing refers to it again.)  *)
Replied == sess[peer] \notin {"offered", "registered"}

ReceiveAnswer ==
  /\ cpc = "recv"
  /\ Replied
  /\ sock' = FALSE
  /\ \/ /\ sess[peer] \in {"answered", "none"}
        /\ pc' = "connecting" /\ cpc' = "poll"
     \/ cpc' = "failed" /\ UNCHANGED pc
  /\ sess' = [sess EXCEPT ![peer] = IF @ = "raised" THEN "none" ELSE @]
  /\ UNCHANGED <<peer, copen, connected>>

(* The wait for connected_, a hundred times 50 ms, and its last load.      *)
Poll ==
  /\ cpc = "poll"
  /\ cpc' = IF connected THEN "ok" ELSE "failed"
  /\ UNCHANGED <<peer, pc, copen, connected, sock, sess>>

ConnectStep == NewPeer \/ Gather \/ TcpConnect \/ Post \/ ReceiveAnswer \/ Poll

(* Mutant: pc_ is closed and not reset.                                    *)
ClosedPeerKept == pc' = "closed" /\ UNCHANGED peer

(* Close closes and drops frame_dc_, control_dc_ and pc_.                  *)
ClosePeer == peer' = NoPeer /\ pc' = "null"

Close ==
  /\ ClosePeer
  /\ copen' = FALSE
  /\ connected' = FALSE
  /\ UNCHANGED <<cpc, sock, sess>>

-----------------------------------------------------------------------------
(* libdatachannel and the network: the peer connection changes its state,  *)
(* also after Connect has given up waiting for it, and its channels open.  *)
StateChange(from, to) ==
  /\ pc \in from
  /\ pc' = to
  /\ connected' = ConnectedAfter(to)
  /\ UNCHANGED <<peer, cpc, sock>>

PeerConnected ==
  /\ StateChange({"connecting"}, "connected")
  /\ sess[peer] = "answered"
  /\ sess' = [sess EXCEPT ![peer] = "up"]
  /\ UNCHANGED copen

PeerDisconnected ==
  StateChange({"connected"}, "disconnected") /\ UNCHANGED <<copen, sess>>

PeerRecovered ==
  /\ StateChange({"disconnected"}, "connected")
  /\ sess[peer] = "up"
  /\ UNCHANGED <<copen, sess>>

PeerFailed ==
  /\ StateChange({"connecting", "connected", "disconnected"}, "failed")
  /\ copen' = FALSE
  /\ UNCHANGED sess

ChannelOpens ==
  /\ pc = "connected"
  /\ ~copen /\ copen' = TRUE
  /\ UNCHANGED <<peer, pc, connected, cpc, sock, sess>>

LibraryStep == \/ PeerConnected \/ PeerDisconnected \/ PeerRecovered
               \/ PeerFailed \/ ChannelOpens

(* The server, with the end of a session whose peer is not there any more  *)
(* or lost touch.                                                          *)
OfferStep(p) == Server!offer(p) \/ Server!answer(p)

Unreached(p) == p # peer \/ pc # "connected"

EndSession(p) == Unreached(p) /\ Server!on_state_change(p)
Shutdown      == Server!shutdown
=============================================================================
