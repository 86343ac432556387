--------------------------- MODULE ResponseStream ---------------------------
(***************************************************************************)
(* What SubmitQuery promises the prompt app: an abstract view of each call *)
(* as its status, whether it was cancelled, and the responses put on its   *)
(* stream.  A stream grows one response at a time, numbered from 0 and     *)
(* carrying the call's own session id; nothing follows a response marked   *)
(* done; and the call ends only after such a response, unless its context  *)
(* was cancelled.                                                          *)
(***************************************************************************)
EXTENDS Naturals, Sequences

CONSTANTS Calls, Texts, NoSid

VARIABLES status, id, stream, cancelled

streamVars == <<status, id, stream, cancelled>>

Ended(c) == stream[c] # <<>> /\ stream[c][Len(stream[c])].done

Init ==
  /\ status = [c \in Calls |-> "new"]
  /\ id = [c \in Calls |-> NoSid]
  /\ stream = [c \in Calls |-> <<>>]
  /\ cancelled = [c \in Calls |-> FALSE]

(* The call arrives and fixes its session id, one that no open call uses.  *)
Open(c) ==
  /\ status[c] = "new"
  /\ status' = [status EXCEPT ![c] = "open"]
  /\ id' = [id EXCEPT ![c] = id'[c]]
  /\ \A d \in Calls : status[d] = "open" => id[d] # id'[c]
  /\ UNCHANGED <<stream, cancelled>>

Deliver(c) ==
  /\ status[c] = "open"
  /\ ~Ended(c)
  /\ \E text \in Texts, done \in BOOLEAN :
       stream' = [stream EXCEPT ![c] =
                    Append(@, [sid |-> id[c], text |-> text,
                               chunk |-> Len(@), done |-> done])]
  /\ UNCHANGED <<status, id, cancelled>>

Cancel(c) ==
  /\ status[c] = "open"
  /\ cancelled' = [cancelled EXCEPT ![c] = TRUE]
  /\ UNCHANGED <<status, id, stream>>

Close(c) ==
  /\ status[c] = "open"
  /\ Ended(c) \/ cancelled[c]
  /\ status' = [status EXCEPT ![c] = "closed"]
  /\ UNCHANGED <<id, stream, cancelled>>

Next == \E c \in Calls : Open(c) \/ Deliver(c) \/ Cancel(c) \/ Close(c)

Spec == Init /\ [][Next]_streamVars
=============================================================================
