-------------------------- MODULE PromptAppService --------------------------
(***************************************************************************)
(* The gRPC service of the C++ client and the query path through it        *)
(* (client/src/grpc_service/prompt_app_service.cpp, the mode calls of      *)
(* capture_pipeline.cpp, the control channel of webrtc_client.cpp).        *)
(*                                                                         *)
(* Threads: one gRPC thread per SubmitQuery call (Handlers), gRPC threads  *)
(* serving NotifyTyping (Notifiers), and the WebRTC callback thread (Rtc)  *)
(* that runs OnControlMessage -> OnVlmResponse -> DispatchChunk, EndQuery. *)
(* They share sessions_ (under sessions_mu_), one ChunkBuffer per call     *)
(* (under its own mutex) and mode_ (atomic).  A step is what happens       *)
(* between two accesses to that shared state.                              *)
(*                                                                         *)
(* A handler is identified with the ChunkBuffer it creates.  The server is *)
(* the sender of response messages described by Session.on_control_message *)
(* in server/webrtc_server.py, one task per query that reached it, of      *)
(* which this module uses only what AnswerTasks says and ServerSession     *)
(* implements.                                                             *)
(***************************************************************************)
EXTENDS Naturals, Sequences, FiniteSets, PipelineMode

CONSTANTS
  Handlers,       \* the SubmitQuery calls
  Sids,           \* the session ids a request may carry
  ReqSid,         \* ReqSid[h]: req->session_id() of call h
  NoSid,          \* the empty session id
  None,           \* no message, no buffer
  Cancellable,    \* the calls whose context may be cancelled
  InitLinks,      \* the outcomes of the first Connect, of {"up", "down"}
  Tracked,        \* bound: the filters whose baseline the model follows
  MaxChunks,      \* bound: chunks the engine yields for a query
  MaxConcurrent,  \* bound: SubmitQuery calls in progress at a time
  MaxDrops        \* bound: times the peer connection is lost

VARIABLES
  sessions,       \* sessions_, as a set of <<session id, handler>>
  ctr,            \* the counter of NextSessionId
  pc,             \* pc[h]: where call h is
  sid,            \* sid[h]: the session id call h uses
  buf,            \* buf[h]: its ChunkBuffer, [chunks, finished]
  out,            \* out[h]: the chunk taken from buf[h] and not yet written
  written,        \* written[h]: the responses put on its gRPC stream
  cancelled,      \* cancelled[h]: ctx->IsCancelled()
  dpc, dmsg, dbuf, \* the callback thread: position, message, buffer found
  link,           \* whether the control channel is open
  chan,           \* responses on the control channel, in order
  drops,
  task,           \* task[h]: the server task answering call h's query
  sent            \* sent[h]: chunk_index, responses that task has sent

handlerVars == <<sessions, ctr, pc, sid, out, written, cancelled>>
dispVars    == <<dpc, dmsg, dbuf>>
linkVars    == <<link, drops>>
serverVars  == <<task, sent>>
vars == <<modeVars, handlerVars, buf, dispVars, linkVars, chan, serverVars>>

Texts     == {"piece", "", "error", "not ready"}
SessionIds == Sids \cup ({"sess"} \X Nat)
Responses == [sid : SessionIds, text : Texts, chunk : Nat, done : BOOLEAN]
HandlerPoints == {"new", "begin", "send", "error", "wait", "write", "erase",
                  "returned"}

(* No two calls carry the same non-empty session id and none carries one   *)
(* that NextSessionId could make: the prompt app draws a fresh uuid for    *)
(* every query (prompt_app/app.py, submit_query).                          *)
ASSUME SessionIdAssumption ==
  /\ ReqSid \in [Handlers -> Sids \cup {NoSid}]
  /\ \A g, h \in Handlers : g # h /\ ReqSid[g] = ReqSid[h] => ReqSid[h] = NoSid
  /\ Sids \cap ({"sess"} \X Nat) = {}
  /\ NoSid \notin SessionIds

ASSUME ThreadAssumption ==
  /\ None \notin Handlers
  /\ InitLinks \subseteq {"up", "down"}
  /\ Tracked \subseteq Filters

(* Calls between their registration and their EraseSession.                *)
Registered == {h \in Handlers : pc[h] \notin {"new", "returned"}}

TypeOK ==
  /\ ModeTypeOK
  /\ sessions \in SUBSET (SessionIds \X Handlers)
  /\ ctr \in Nat
  /\ pc \in [Handlers -> HandlerPoints]
  /\ sid \in [Handlers -> SessionIds \cup {NoSid}]
  /\ buf \in [Handlers -> [chunks : Seq(Responses), finished : BOOLEAN]]
  /\ out \in [Handlers -> Responses \cup {None}]
  /\ written \in [Handlers -> Seq(Responses)]
  /\ cancelled \in [Handlers -> BOOLEAN]
  /\ dpc \in {"idle", "append", "end"}
  /\ dmsg \in Responses \cup {None}
  /\ dbuf \in Handlers \cup {None}
  /\ link \in {"up", "down"}
  /\ chan \in Seq(Responses)
  /\ drops \in Nat
  /\ task \in [Handlers -> {"none", "running", "ended", "lost"}]
  /\ sent \in [Handlers -> Nat]

Init ==
  /\ ModeInit
  /\ sessions = {}
  /\ ctr = 0
  /\ pc = [h \in Handlers |-> "new"]
  /\ sid = [h \in Handlers |-> NoSid]
  /\ buf = [h \in Handlers |-> [chunks |-> <<>>, finished |-> FALSE]]
  /\ out = [h \in Handlers |-> None]
  /\ written = [h \in Handlers |-> <<>>]
  /\ cancelled = [h \in Handlers |-> FALSE]
  /\ dpc = "idle" /\ dmsg = None /\ dbuf = None
  /\ link \in InitLinks
  /\ chan = <<>>
  /\ drops = 0
  /\ task = [h \in Handlers |-> "none"]
  /\ sent = [h \in Handlers |-> 0]

-----------------------------------------------------------------------------
(* NotifyTyping: pipeline_->SetTyping.                                     *)
NotifyTyping(n) ==
  /\ \E typing \in BOOLEAN : SetTyping(n, typing)
  /\ UNCHANGED <<handlerVars, buf, dispVars, linkVars, chan, serverVars>>

ModeCallStep(t) ==
  /\ CallStep(t)
  /\ UNCHANGED <<handlerVars, buf, dispVars, linkVars, chan, serverVars>>

Grab ==
  /\ \E f \in Tracked : GrabPrimes(f)
  /\ UNCHANGED <<handlerVars, buf, dispVars, linkVars, chan, serverVars>>

-----------------------------------------------------------------------------
(* SubmitQuery, one action per step of the gRPC thread.                    *)

(* Mutant: a request without a session id is not given one.                *)
SidOfRequest(h) == ReqSid[h]

(* The session id of the request, or one of NextSessionId.                 *)
SidOf(h) == IF ReqSid[h] = NoSid THEN <<"sess", ctr + 1>> ELSE ReqSid[h]

(* A call arrives, picks its session id and registers its buffer under it, *)
(* replacing whatever was registered there.                                *)
RegisterSession(h) ==
  LET s == SidOf(h)
  IN  /\ pc[h] = "new"
      /\ Cardinality(Registered) < MaxConcurrent
      /\ ctr' = IF ReqSid[h] = NoSid THEN ctr + 1 ELSE ctr
      /\ sid' = [sid EXCEPT ![h] = s]
      /\ sessions' = {e \in sessions : e[1] # s} \cup {<<s, h>>}
      /\ pc' = [pc EXCEPT ![h] = "begin"]
      /\ UNCHANGED <<modeVars, buf, out, written, cancelled, dispVars,
                     linkVars, chan, serverVars>>

(* pipeline_->SubmitQuery enters query mode before it tries to send.       *)
CallBeginQuery(h) ==
  /\ pc[h] = "begin"
  /\ BeginQuery
  /\ pc' = [pc EXCEPT ![h] = "send"]
  /\ UNCHANGED <<sessions, ctr, sid, buf, out, written, cancelled, dispVars,
                 linkVars, chan, serverVars>>

(* webrtc_->SendQuery.                                                     *)
SendQuery(h) ==
  /\ pc[h] = "send"
  /\ IF link = "up"
     THEN /\ pc' = [pc EXCEPT ![h] = "wait"]
          /\ task' = [task EXCEPT ![h] = "running"]
     ELSE /\ pc' = [pc EXCEPT ![h] = "error"]
          /\ UNCHANGED task
  /\ UNCHANGED <<modeVars, sessions, ctr, sid, buf, out, written, cancelled,
                 dispVars, linkVars, chan, sent>>

(* writer->Write puts r on the stream; it can fail once the call has been  *)
(* cancelled.                                                              *)
WriteSucceeds(h, r) == written' = [written EXCEPT ![h] = Append(@, r)]
WriteFails(h)       == cancelled[h] /\ UNCHANGED written

(* Mutant: the failed send returns without EraseSession.                   *)
AfterErrorReturned == "returned"

AfterError == "erase"

WriteError(h) ==
  /\ pc[h] = "error"
  /\ \/ WriteSucceeds(h, [sid |-> sid[h], text |-> "not ready", chunk |-> 0,
                          done |-> TRUE])
     \/ WriteFails(h)
  /\ pc' = [pc EXCEPT ![h] = AfterError]
  /\ UNCHANGED <<modeVars, sessions, ctr, sid, buf, out, cancelled, dispVars,
                 linkVars, chan, serverVars>>

(* Mutant: the chunk is looked at and not popped.                          *)
NotPopped(chunks) == chunks

Popped(chunks) == Tail(chunks)

(* The wait under buf->mu.  cv.wait_for gives up after a second, so a call *)
(* that missed a notification, or is cancelled without one, still looks    *)
(* again.                                                                  *)
TakeChunk(h) ==
  /\ pc[h] = "wait"
  /\ ~cancelled[h]
  /\ buf[h].chunks # <<>>
  /\ out' = [out EXCEPT ![h] = Head(buf[h].chunks)]
  /\ buf' = [buf EXCEPT ![h].chunks = Popped(@)]
  /\ pc' = [pc EXCEPT ![h] = "write"]
  /\ UNCHANGED <<modeVars, sessions, ctr, sid, written, cancelled, dispVars,
                 linkVars, chan, serverVars>>

(* Mutant: finished ends the wait though chunks are queued.                *)
MayLeaveUndrained(h) == cancelled[h] \/ buf[h].finished

(* Mutant: the wait does not look at ctx->IsCancelled().                   *)
MayLeaveDrained(h) == buf[h].chunks = <<>> /\ buf[h].finished

MayLeave(h) == cancelled[h] \/ (buf[h].chunks = <<>> /\ buf[h].finished)

LeaveWait(h) ==
  /\ pc[h] = "wait"
  /\ MayLeave(h)
  /\ pc' = [pc EXCEPT ![h] = "erase"]
  /\ UNCHANGED <<modeVars, sessions, ctr, sid, buf, out, written,
                 cancelled, dispVars, linkVars, chan, serverVars>>

WriteChunk(h) ==
  /\ pc[h] = "write"
  /\ \/ /\ WriteSucceeds(h, out[h])
        /\ pc' = [pc EXCEPT ![h] = IF out[h].done THEN "erase" ELSE "wait"]
     \/ /\ WriteFails(h)
        /\ pc' = [pc EXCEPT ![h] = "erase"]
  /\ out' = [out EXCEPT ![h] = None]
  /\ UNCHANGED <<modeVars, sessions, ctr, sid, buf, cancelled, dispVars,
                 linkVars, chan, serverVars>>

(* EraseSession(sid) erases by id, whoever is registered under it.         *)
EraseSession(h) ==
  /\ pc[h] = "erase"
  /\ sessions' = {e \in sessions : e[1] # sid[h]}
  /\ pc' = [pc EXCEPT ![h] = "returned"]
  /\ UNCHANGED <<modeVars, ctr, sid, buf, out, written, cancelled, dispVars,
                 linkVars, chan, serverVars>>

(* The prompt app's deadline passes, or it goes away.                      *)
Cancel(h) ==
  /\ h \in Cancellable
  /\ h \in Registered
  /\ ~cancelled[h]
  /\ cancelled' = [cancelled EXCEPT ![h] = TRUE]
  /\ UNCHANGED <<modeVars, sessions, ctr, pc, sid, buf, out, written,
                 dispVars, linkVars, chan, serverVars>>

-----------------------------------------------------------------------------
(* The callback thread.                                                    *)

(* OnControlMessage takes the next response and DispatchChunk looks its    *)
(* session up; a response nobody is registered for is dropped, but         *)
(* OnVlmResponse still ends the query when it is the last one.             *)
Dispatch ==
  /\ dpc = "idle"
  /\ call[Rtc] = "none"
  /\ chan # <<>>
  /\ chan' = Tail(chan)
  /\ \/ \E h \in Handlers :
          /\ <<Head(chan).sid, h>> \in sessions
          /\ dpc' = "append" /\ dmsg' = Head(chan) /\ dbuf' = h
     \/ /\ \A h \in Handlers : <<Head(chan).sid, h>> \notin sessions
        /\ dpc' = IF Head(chan).done THEN "end" ELSE "idle"
        /\ UNCHANGED <<dmsg, dbuf>>
  /\ UNCHANGED <<modeVars, handlerVars, buf, linkVars, serverVars>>

(* Mutant: a response without text, as the last one may be, is not queued. *)
QueuedIfText(chunks, r) == IF r.text = "" THEN chunks ELSE Append(chunks, r)

(* Mutant: the response is queued in front of the others.                  *)
QueuedInFront(chunks, r) == <<r>> \o chunks

Queued(chunks, r) == Append(chunks, r)

(* The rest of DispatchChunk, under buf->mu of the buffer found above.     *)
AppendChunk ==
  /\ dpc = "append"
  /\ buf' = [buf EXCEPT ![dbuf] =
               [chunks   |-> Queued(@.chunks, dmsg),
                finished |-> @.finished \/ dmsg.done]]
  /\ dpc' = IF dmsg.done THEN "end" ELSE "idle"
  /\ dmsg' = None /\ dbuf' = None
  /\ UNCHANGED <<modeVars, handlerVars, linkVars, chan, serverVars>>

(* if (done) EndQuery(session_id), after the subscriber has returned.      *)
CallEndQuery ==
  /\ dpc = "end"
  /\ EndQuery(Rtc)
  /\ dpc' = "idle"
  /\ UNCHANGED <<handlerVars, buf, dmsg, dbuf, linkVars, chan, serverVars>>

-----------------------------------------------------------------------------
(* The other end of the control channel: a task of the server per query,   *)
(* which does what AnswerTasks lets it do.                                 *)
Server == INSTANCE AnswerTasks WITH Queries <- Handlers

SendResponse(h, text, done) ==
  /\ Server!Respond(h, done)
  /\ chan' = Append(chan, [sid |-> sid[h], text |-> text,
                           chunk |-> sent[h], done |-> done])
  /\ UNCHANGED <<modeVars, handlerVars, buf, dispVars, linkVars>>

ServerChunk(h) == SendResponse(h, "piece", FALSE)
ServerDone(h)  == \E text \in {"", "error"} : SendResponse(h, text, TRUE)

(* The peer connection is lost: the tasks behind it can no longer answer   *)
(* and the responses not received yet are gone.                            *)
Drop ==
  /\ link = "up"
  /\ drops < MaxDrops
  /\ link' = "down"
  /\ drops' = drops + 1
  /\ \E k \in 0..Len(chan) : chan' = SubSeq(chan, 1, k)
  /\ Server!Lose
  /\ UNCHANGED <<modeVars, handlerVars, buf, dispVars>>

(* Connect replaces the peer connection and its channels first, whether or *)
(* not the new ones then come up.                                          *)
Connect ==
  /\ link = "down"
  /\ link' \in {"up", "down"}
  /\ chan' = <<>>
  /\ UNCHANGED <<modeVars, handlerVars, buf, dispVars, drops, serverVars>>

-----------------------------------------------------------------------------
HandlerStep(h) ==
  \/ CallBeginQuery(h)
  \/ SendQuery(h)
  \/ WriteError(h)
  \/ TakeChunk(h)
  \/ LeaveWait(h)
  \/ WriteChunk(h)
  \/ EraseSession(h)

RtcStep == Dispatch \/ AppendChunk \/ CallEndQuery \/ ModeCallStep(Rtc)

Next ==
  \/ \E h \in Handlers : RegisterSession(h) \/ HandlerStep(h) \/ Cancel(h)
  \/ \E h \in Handlers : ServerChunk(h) \/ ServerDone(h)
  \/ \E n \in Notifiers : NotifyTyping(n) \/ ModeCallStep(n)
  \/ RtcStep
  \/ Grab
  \/ Drop
  \/ Connect

Spec == Init /\ [][Next]_vars

(* Fairness.  gRPC threads, the callback thread and the server's event     *)
(* loop keep running; the wait re-checks every second.  Connections are    *)
(* not assumed to come back, and typing and screen grabs not to happen.    *)
Fairness ==
  /\ \A h \in Handlers : /\ WF_vars(HandlerStep(h))
                         /\ WF_vars(ServerDone(h))
  /\ WF_vars(RtcStep)

FairSpec == Spec /\ Fairness

(* The prompt app calls SubmitQuery with a 120 s deadline, so every call   *)
(* still open is cancelled in the end (prompt_app/app.py, submit_query).   *)
DeadlineSpec == FairSpec /\ \A h \in Handlers : WF_vars(Cancel(h))

-----------------------------------------------------------------------------
(* SubmitQuery keeps its promise to the prompt app: seen from its stream,  *)
(* every call behaves as ResponseStream says.                              *)
Status(h) == IF pc[h] = "new" THEN "new"
             ELSE IF pc[h] = "returned" THEN "closed" ELSE "open"

Stream == INSTANCE ResponseStream
            WITH Calls  <- Handlers,
                 status <- [h \in Handlers |-> Status(h)],
                 id     <- sid,
                 stream <- written

ImplementsResponseStream == Stream!Spec

(* What reaches the prompt app on the stream of a call is its own query's  *)
(* answer from the beginning: the chunks in index order with none missing, *)
(* repeated or taken from another query, and nothing after the one marked  *)
(* done.  (The "not ready" error of a failed send stands alone.)           *)
StreamInOrder ==
  \A h \in Handlers : \A i \in 1..Len(written[h]) :
    LET r == written[h][i]
    IN  /\ r.sid = sid[h]
        /\ r.chunk = i - 1
        /\ r.done => i = Len(written[h])

(* sessions_ never keeps an entry of a call that has returned: whatever    *)
(* way a call ends (answer, cancellation, failed write, failed send) its   *)
(* buffer becomes unreachable.                                             *)
NoOrphanSession ==
  \A e \in sessions : e[2] \in Registered /\ e[1] = sid[e[2]]

(* A waiting call with finished set still has a chunk to take, so the      *)
(* "else if (buf->finished)" exit of the wait is never the one taken and   *)
(* the done chunk is never skipped.                                        *)
FinishedHasChunk ==
  \A h \in Handlers :
    pc[h] = "wait" /\ buf[h].finished => buf[h].chunks # <<>>

(* "Locks 1 FPS until the matching response stream completes"              *)
(* (capture_pipeline.h:54): from SendQuery until the server has ended the  *)
(* answer, the client is in query mode.                                    *)
QueryLocksMode ==
  \A h \in Handlers :
    pc[h] \in {"wait", "write"} /\ task[h] = "running" => mode = "query"

(* The same comment read the other way: query mode does not outlive the    *)
(* queries; it ends when no call is open and no answer is on its way.      *)
QueryModeReleased ==
  mode = "query" =>
    \/ Registered # {}
    \/ \E h \in Handlers : task[h] = "running"
    \/ chan # <<>>
    \/ dpc # "idle"

(* Every call with a deadline, as the prompt app sets one, returns,        *)
(* whatever happens to the connection: the wait looks at                   *)
(* ctx->IsCancelled().                                                     *)
EveryCallReturns ==
  \A h \in Cancellable : pc[h] = "begin" ~> pc[h] = "returned"

(* While the connection holds, a query that was sent is answered in full:  *)
(* its call returns after writing a chunk marked done.                     *)
EveryQueryAnswered ==
  \A h \in Handlers :
    pc[h] = "wait" ~> /\ pc[h] = "returned"
                      /\ written[h] # <<>>
                      /\ written[h][Len(written[h])].done

(* While the connection holds, query mode is left again.                   *)
QueryModeEnds == mode = "query" ~> mode # "query"
=============================================================================
