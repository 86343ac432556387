---------------------------- MODULE ServerSession ----------------------------
(***************************************************************************)
(* One Session of the Python server (server/webrtc_server.py): the frame   *)
(* buffer filled by on_frame_packet, the tasks running on_control_message  *)
(* for the queries, and the engine's answer sent back in chunks.           *)
(*                                                                         *)
(* Everything runs on one event loop, so a step is what a task does        *)
(* between two suspensions; the first query has the engine load its model, *)
(* which blocks the loop (server/vlm_engine.py).  A frame is its           *)
(* capture_ts_us; the clock now counts in units of the forced capture      *)
(* interval (one second), so at most one frame carries each time.  The     *)
(* frames channel is unordered and unreliable: frames captured and not yet *)
(* received are a set, from which any may arrive next or be lost.          *)
(***************************************************************************)
EXTENDS Naturals, Sequences, SequencesExt, FiniteSets

CONSTANTS
  Queries,        \* the query messages the session receives
  Hints,          \* the values of num_frames_hint they carry
  PreWindow,      \* pre_window_ms
  PostWindow,     \* post_window_ms
  Overhead,       \* POST_WAIT_OVERHEAD_MS
  MaxBuffered,    \* MAX_BUFFERED_FRAMES
  MaxChunks,      \* bound: chunks the engine yields for a query
  MaxTime         \* bound: the clock

ASSUME WindowAssumption ==
  /\ {PreWindow, PostWindow, Overhead, MaxChunks} \subseteq Nat
  /\ {MaxBuffered, MaxTime} \subseteq Nat \ {0}
  /\ Hints \subseteq Nat

VARIABLES
  now,            \* the client's wall clock and the server's, in step
  flight,         \* frames captured and not received or lost
  frames,         \* self.frames, oldest arrival first
  event,          \* self._frame_event
  st,             \* st[q]: where the task of query q is
  trigger,        \* trigger[q]: trigger_ts_us, 0 for none
  hint,           \* hint[q]: num_frames_hint
  deadline,       \* deadline[q] of _await_post_window
  used,           \* used[q]: the snapshot handed to the engine
  answer,         \* answer[q]: the responses sent, [chunk, done]
  open,           \* whether the control channel is open
  loaded          \* _model is loaded, or not needed (stub)

clientVars == <<now, flight>>
bufVars    == <<frames, event>>
taskVars   == <<st, trigger, hint, deadline, used, answer>>
vars == <<clientVars, bufVars, taskVars, open, loaded>>

Times == 1..MaxTime
TaskPoints == {"new", "start", "blocked", "woken", "loading", "generating",
               "ended", "dead"}

TypeOK ==
  /\ now \in Times
  /\ flight \in SUBSET Times
  /\ frames \in Seq(Times) /\ Len(frames) <= MaxBuffered
  /\ event \in BOOLEAN
  /\ st \in [Queries -> TaskPoints]
  /\ trigger \in [Queries -> 0..MaxTime]
  /\ hint \in [Queries -> Hints \cup {0}]
  /\ deadline \in [Queries -> Nat]
  /\ used \in [Queries -> Seq(Times)]
  /\ answer \in [Queries -> Seq([chunk : Nat, done : BOOLEAN])]
  /\ {open, loaded} \subseteq BOOLEAN

Init ==
  /\ now = 1
  /\ flight = {}
  /\ frames = <<>>
  /\ event = FALSE
  /\ st = [q \in Queries |-> "new"]
  /\ trigger = [q \in Queries |-> 0]
  /\ hint = [q \in Queries |-> 0]
  /\ deadline = [q \in Queries |-> 0]
  /\ used = [q \in Queries |-> <<>>]
  /\ answer = [q \in Queries |-> <<>>]
  /\ open = TRUE
  /\ loaded \in BOOLEAN

(* _ensure_loaded does not suspend while it loads.                         *)
Stalled == \E q \in Queries : st[q] = "loading"

-----------------------------------------------------------------------------
(* The client captures a frame and puts it on the frames channel.          *)
Capture ==
  /\ now \notin flight
  /\ ~Contains(frames, now)
  /\ flight' = flight \cup {now}
  /\ UNCHANGED <<now, bufVars, taskVars, open, loaded>>

(* A frame is lost (max-retransmits 0), or it arrives and on_frame_packet  *)
(* rejects it: truncated, of the wrong size, or no JPEG.                   *)
LoseFrame(f) ==
  /\ flight' = flight \ {f}
  /\ UNCHANGED <<now, bufVars, taskVars, open, loaded>>

(* Mutant: a deque without maxlen.                                         *)
PushUnbounded(f) == Append(frames, f)

(* self.frames.append on a deque of maxlen MAX_BUFFERED_FRAMES.            *)
Push(f) == IF Len(frames) < MaxBuffered THEN Append(frames, f)
                                        ELSE Append(Tail(frames), f)

(* Mutant: a frame wakes one waiting query only.                           *)
WakeOne ==
  LET waiting == {q \in Queries : st[q] = "blocked"}
  IN  IF waiting = {} THEN st ELSE [st EXCEPT ![CHOOSE q \in waiting : TRUE] = "woken"]

(* on_frame_packet.  Setting the event wakes every task blocked on it.     *)
WakeAll == [q \in Queries |-> IF st[q] = "blocked" THEN "woken" ELSE st[q]]

on_frame_packet(f) ==
  /\ ~Stalled
  /\ flight' = flight \ {f}
  /\ frames' = Push(f)
  /\ event' = TRUE
  /\ st' = WakeAll
  /\ UNCHANGED <<now, trigger, hint, deadline, used, answer, open, loaded>>

-----------------------------------------------------------------------------
(* A query arrives on the control channel and a task is made for it.  Its  *)
(* trigger is the start of the typing burst, at or before now.             *)
on_control_message(q) ==
  /\ st[q] = "new"
  /\ open /\ ~Stalled
  /\ st' = [st EXCEPT ![q] = "start"]
  /\ \E t \in 0..now : trigger' = [trigger EXCEPT ![q] = t]
  /\ \E k \in Hints : hint' = [hint EXCEPT ![q] = k]
  /\ UNCHANGED <<clientVars, bufVars, deadline, used, answer, open, loaded>>

(* The snapshot: the frames in the window, if there is a trigger, and of   *)
(* them the last hint, if there is a hint.                                 *)
InWindow(q, f) == trigger[q] <= f + PreWindow /\ f <= trigger[q] + PostWindow

Matches(q) == {i \in 1..Len(frames) : InWindow(q, frames[i])}

(* The k-th of a set of positions: the one with k positions up to it.      *)
Rank(W, i) == Cardinality({j \in W : j <= i})
Nth(W, k)  == CHOOSE i \in W : Rank(W, i) = k

Window(q) ==
  IF trigger[q] = 0 THEN frames
  ELSE [k \in 1..Cardinality(Matches(q)) |-> frames[Nth(Matches(q), k)]]

(* Mutant: snapshot[:hint].                                                *)
FirstOf(s, n) == SubSeq(s, 1, n)

(* snapshot[-hint:].                                                       *)
LastOf(s, n) == SubSeq(s, Len(s) - n + 1, Len(s))

Snapshot(q) ==
  IF 0 < hint[q] /\ hint[q] < Len(Window(q)) THEN LastOf(Window(q), hint[q])
                                            ELSE Window(q)

(* Mutant: the test forgets post_window_ms.                                *)
FrameAfterTrigger(q) == frames # <<>> /\ Last(frames) >= trigger[q]

(* The test of _await_post_window, on the frame that arrived last.         *)
PostFrameLast(q) ==
  frames # <<>> /\ Last(frames) >= trigger[q] + PostWindow

(* _await_post_window returns (or is not called): the task goes on to the  *)
(* snapshot and into the engine without suspending, and loads its model if *)
(* nobody has.                                                             *)
Proceed(q) ==
  /\ st' = [st EXCEPT ![q] = IF loaded THEN "generating" ELSE "loading"]
  /\ used' = [used EXCEPT ![q] = Snapshot(q)]

(* Mutant: every round waits for max_wait_ms anew.                         *)
DeadlineRestarted(q) == now + PostWindow + Overhead

(* Each round of _await_post_window.  The deadline is fixed in the first.  *)
Deadline(q) == IF st[q] = "start" THEN now + PostWindow + Overhead
                                  ELSE deadline[q]

RunQuery(q) ==
  /\ st[q] \in {"start", "woken"}
  /\ ~Stalled
  /\ IF trigger[q] = 0
     THEN Proceed(q) /\ UNCHANGED <<event, deadline>>
     ELSE /\ deadline' = [deadline EXCEPT ![q] = Deadline(q)]
          /\ \/ PostFrameLast(q) /\ Proceed(q) /\ UNCHANGED event
             \/ /\ ~PostFrameLast(q)
                /\ event' = FALSE
                /\ \/ now >= Deadline(q) /\ Proceed(q)
                   \/ /\ now < Deadline(q)
                      /\ st' = [st EXCEPT ![q] = "blocked"]
                      /\ UNCHANGED used
  /\ UNCHANGED <<clientVars, frames, trigger, hint, answer, open, loaded>>

(* asyncio.TimeoutError from wait_for.                                     *)
TimeOut(q) ==
  /\ st[q] = "blocked"
  /\ now >= deadline[q]
  /\ ~Stalled
  /\ Proceed(q)
  /\ UNCHANGED <<clientVars, bufVars, trigger, hint, deadline, answer, open, loaded>>

-----------------------------------------------------------------------------
(* Mutant: chunk_index is not counted up.                                  *)
NotCounted(q) == 0

(* chunk_index.                                                            *)
NextIndex(q) == Len(answer[q])

(* Mutant: a send on a closed channel is taken for one that succeeded.     *)
SendUnchecked(q, done) ==
  /\ answer' = [answer EXCEPT ![q] =
                  Append(@, [chunk |-> NextIndex(q), done |-> done])]
  /\ st' = [st EXCEPT ![q] = IF done THEN "ended" ELSE @]

(* _send_response.  On a closed channel send raises; so does the handler's *)
(* own attempt to report that, and the task dies.                          *)
Send(q, done) ==
  IF open
  THEN /\ answer' = [answer EXCEPT ![q] =
                       Append(@, [chunk |-> NextIndex(q), done |-> done])]
       /\ st' = [st EXCEPT ![q] = IF done THEN "ended" ELSE @]
  ELSE /\ st' = [st EXCEPT ![q] = "dead"]
       /\ UNCHANGED answer

(* The end of _ensure_loaded.  When loading raises, the query gets an error *)
(* response and the next one tries again.                                  *)
Load(q) ==
  /\ st[q] = "loading"
  /\ \/ /\ loaded' = TRUE
        /\ st' = [st EXCEPT ![q] = "generating"]
        /\ UNCHANGED answer
     \/ Send(q, TRUE) /\ UNCHANGED loaded
  /\ UNCHANGED <<clientVars, bufVars, trigger, hint, deadline, used, open>>

(* The engine yields a chunk.                                              *)
Chunk(q) ==
  /\ st[q] = "generating" /\ ~Stalled
  /\ Len(answer[q]) < MaxChunks
  /\ Send(q, FALSE)
  /\ UNCHANGED <<clientVars, bufVars, trigger, hint, deadline, used, open, loaded>>

(* The engine's generator is exhausted, or raises: either way the task     *)
(* sends one response marked done and returns.                             *)
Finish(q) ==
  /\ st[q] = "generating" /\ ~Stalled
  /\ Send(q, TRUE)
  /\ UNCHANGED <<clientVars, bufVars, trigger, hint, deadline, used, open, loaded>>

(* The peer connection closes.                                             *)
Close ==
  /\ open
  /\ open' = FALSE
  /\ UNCHANGED <<clientVars, bufVars, taskVars, loaded>>

-----------------------------------------------------------------------------
(* Time passes when the event loop is stalled or has nothing it could run  *)
(* at once: a task ready to run, or a timer that has expired.              *)
Due(q) == st[q] \in {"start", "woken"} \/ (st[q] = "blocked" /\ now >= deadline[q])

Tick ==
  /\ now < MaxTime
  /\ Stalled \/ \A q \in Queries : ~Due(q)
  /\ now' = now + 1
  /\ UNCHANGED <<flight, bufVars, taskVars, open, loaded>>

TaskStep(q) == RunQuery(q) \/ TimeOut(q) \/ Load(q)

Next ==
  \/ Capture
  \/ \E f \in flight : LoseFrame(f) \/ on_frame_packet(f)
  \/ \E q \in Queries : \/ on_control_message(q)
                        \/ TaskStep(q)
                        \/ Chunk(q)
                        \/ Finish(q)
  \/ Close
  \/ Tick

Spec == Init /\ [][Next]_vars

(* Fairness: the loop runs what is ready, the clock advances, and the      *)
(* engine ends its loading and its output (max_new_tokens bounds it).  No  *)
(* frame needs to be captured or to arrive.                                *)
FairSpec ==
  /\ Spec
  /\ WF_vars(Tick)
  /\ \A q \in Queries : WF_vars(TaskStep(q)) /\ WF_vars(Finish(q))

-----------------------------------------------------------------------------
(* No lost wakeup: a task blocked on the event is one whose test fails on  *)
(* the buffer as it is, though several tasks clear the one event.          *)
NoLostWakeup == \A q \in Queries : st[q] = "blocked" => ~PostFrameLast(q)

(* The answer to a query is numbered from 0 without gaps and has exactly   *)
(* one response marked done, the last, also when the engine raises; a task *)
(* that ended sent it.                                                     *)
AnswerWellFormed ==
  \A q \in Queries :
    /\ \A i \in 1..Len(answer[q]) :
         /\ answer[q][i].chunk = i - 1
         /\ answer[q][i].done <=> i = Len(answer[q]) /\ st[q] = "ended"
    /\ st[q] = "ended" => answer[q] # <<>>

Waiting(q)    == st[q] \in {"start", "woken", "blocked"}
WaitIsOver(q) == Waiting(q) /\ ~Waiting(q)'

(* A query that goes to the engine without having waited its full time has *)
(* seen a frame at or after the end of its window.                         *)
NoEarlyInference ==
  [][\A q \in Queries : WaitIsOver(q) /\ trigger[q] > 0 =>
       \/ now >= Deadline(q)
       \/ \E i \in 1..Len(frames) : frames[i] >= trigger[q] + PostWindow]_vars

(* "(most recent last)" (server/vlm_engine.py:87), with respect to         *)
(* arrival: whatever the wait, the window and the hint leave out, the last *)
(* frame the engine is given is the newest one that the query wants.       *)
Wanted(q) == {i \in 1..Len(frames) : trigger[q] = 0 \/ InWindow(q, frames[i])}

NewestIsGiven ==
  [][\A q \in Queries : WaitIsOver(q) =>
       \A i \in Wanted(q) : (\A j \in Wanted(q) : j <= i) =>
         used'[q] # <<>> /\ Last(used'[q]) = frames[i]]_vars

(* The session implements AnswerTasks, the server that the client's model  *)
(* assumes: whatever a task waits for, loads or fails at, it sends its     *)
(* responses one by one, ends with the one marked done, and is silent once *)
(* the channel has closed.                                                 *)
TaskStatus(q) == IF st[q] = "new" THEN "none"
                 ELSE IF st[q] = "ended" THEN "ended"
                 ELSE IF open THEN "running" ELSE "lost"

Tasks == INSTANCE AnswerTasks
           WITH task <- [q \in Queries |-> TaskStatus(q)],
                sent <- [q \in Queries |-> Len(answer[q])]

ImplementsAnswerTasks == Tasks!Spec

(* Every query is answered, frames or no frames, unless the channel        *)
(* closes: frames that do not satisfy the wait wake the task again and     *)
(* again but never extend it past post_window_ms + POST_WAIT_OVERHEAD_MS,  *)
(* and a model that cannot be loaded is reported.  (Asked of queries whose *)
(* longest wait fits in the model's clock.)                                *)
EveryQueryFinishes ==
  \A q \in Queries :
    st[q] \in {"blocked", "loading", "generating"} /\ deadline[q] <= MaxTime
      ~> st[q] = "ended" \/ ~open

(* "``frames`` is a list of HxWx3 uint8 BGR arrays (most recent last)"     *)
(* (server/vlm_engine.py:87): the snapshot is in order of capture.         *)
ChronologicalSnapshot ==
  \A q \in Queries : \A i, j \in 1..Len(used[q]) :
    i < j => used[q][i] < used[q][j]

(* "the server waits until at least one frame timestamped at-or-after      *)
(* trigger_ts_us + post_window_ms has been received (or a timeout          *)
(* elapses)" (server/webrtc_server.py:20): once such a frame is in the     *)
(* buffer no query is left waiting for one.                                *)
PostFrameSuffices ==
  \A q \in Queries :
    st[q] = "blocked" =>
      \A i \in 1..Len(frames) : frames[i] < trigger[q] + PostWindow
=============================================================================
