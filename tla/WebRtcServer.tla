---------------------------- MODULE WebRtcServer ----------------------------
(***************************************************************************)
(* The registry of the Python server (class WebRtcServer in                *)
(* server/webrtc_server.py): _sessions, filled by offer and emptied by the *)
(* connection state callback and by shutdown.                              *)
(*                                                                         *)
(* A session is named by the client's peer connection whose offer made it. *)
(* sess[p] is "none" when p is not in _sessions; "offered" when the        *)
(* request is waiting to be read; "registered" while offer is suspended in *)
(* setRemoteDescription, createAnswer or setLocalDescription; "raised"     *)
(* when one of them failed; "answered"; and "up" when the server's peer    *)
(* connection is connected.                                                *)
(***************************************************************************)
CONSTANT Peers

VARIABLE sess

SessionStates == {"none", "offered", "registered", "raised", "answered", "up"}

RegistryInit == sess = [p \in Peers |-> "none"]

(* offer, up to its first suspension after the session was registered.     *)
offer(p) ==
  /\ sess[p] = "offered"
  /\ sess' = [sess EXCEPT ![p] = "registered"]

(* The rest of offer.  When it raises, aiohttp answers with status 500 and *)
(* the session stays in _sessions for good.                                *)
answer(p) ==
  /\ sess[p] = "registered"
  /\ \E s \in {"answered", "raised"} : sess' = [sess EXCEPT ![p] = s]

(* Mutant: only a connection that was established is taken out.            *)
EndsOnceUp == {"up"}

(* on_state_change with "failed" or "closed": an answered offer that never *)
(* connects fails as well.                                                 *)
Ends == {"answered", "up"}

on_state_change(p) ==
  /\ sess[p] \in Ends
  /\ sess' = [sess EXCEPT ![p] = "none"]

(* shutdown closes every session and clears _sessions; the web server has  *)
(* then dropped the requests it had not answered, and starts again empty.  *)
shutdown ==
  /\ \E p \in Peers : sess[p] # "none"
  /\ sess' = [p \in Peers |-> "none"]
=============================================================================
