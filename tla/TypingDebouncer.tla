--------------------------- MODULE TypingDebouncer ---------------------------
(***************************************************************************)
(* The prompt app (prompt_app/app.py): class TypingDebouncer, whose run    *)
(* thread ends a burst of typing the UI thread began, and the UI thread's  *)
(* loop of prompts and queries up to its end.                              *)
(*                                                                         *)
(* Both threads change _typing under the lock and call NotifyTyping after  *)
(* releasing it, so the notifications they have decided on and the client  *)
(* has not executed, net, are executed in any order.  A caller waits for   *)
(* its notification, two seconds at most; the request may then still be on *)
(* its way.  (Bound: at most one such late request for each value.)        *)
(***************************************************************************)
EXTENDS Naturals

CONSTANT Idle     \* _idle_seconds, in ticks

ASSUME IdleAssumption == Idle \in Nat \ {0}

VARIABLES
  typing,         \* _typing
  age,            \* the ticks since _last_keystroke, up to Idle
  stop,           \* _stop
  upc, rpc,       \* where the UI thread and the run thread are
  net,            \* the notifications under way: <<sender, is_typing>>
  view,           \* is_typing of the last notification the client executed
  alone           \* the last notification sent was executed, or will be, with
                  \* no other under way

appVars == <<typing, age, stop>>
vars == <<appVars, upc, rpc, net, view, alone>>

(* What may be under way: from the UI thread, from the run thread, and     *)
(* what a caller has stopped waiting for.                                  *)
UiStart == <<"ui", TRUE>>
UiEnd   == <<"ui", FALSE>>
RunEnd  == <<"run", FALSE>>
Late(b) == <<"late", b>>
Notices == {UiStart, UiEnd, RunEnd, Late(TRUE), Late(FALSE)}

TypeOK ==
  /\ {typing, stop, view, alone} \subseteq BOOLEAN
  /\ age \in 0..Idle
  /\ upc \in {"prompt", "start", "query", "join", "joined", "end", "done"}
  /\ rpc \in {"top", "asleep", "end", "ended"}
  /\ net \subseteq Notices
  /\ upc = "start" <=> UiStart \in net
  /\ upc = "end" <=> UiEnd \in net
  /\ rpc = "end" <=> RunEnd \in net

Init ==
  /\ typing = FALSE /\ age = Idle /\ stop = FALSE
  /\ upc = "prompt" /\ rpc = "top"
  /\ net = {} /\ view = FALSE /\ alone = TRUE

(* _send, up to the wait.                                                  *)
Send(n) == net' = net \cup {n} /\ alone' = (net = {}) /\ UNCHANGED view

Silent == UNCHANGED <<net, view, alone>>

-----------------------------------------------------------------------------
(* keystroke: on_text_changed, while the prompt is up.                     *)
keystroke ==
  /\ upc = "prompt"
  /\ age' = 0
  /\ typing' = TRUE
  /\ IF typing THEN Silent /\ UNCHANGED upc
               ELSE Send(UiStart) /\ upc' = "start"
  /\ UNCHANGED <<stop, rpc>>

(* <Enter> on a line that is not empty, and the end of the answer.         *)
submit_query ==
  /\ \/ upc = "prompt" /\ upc' = "query"
     \/ upc = "query" /\ upc' = "prompt"
  /\ Silent /\ UNCHANGED <<appVars, rpc>>

(* Ctrl-D or Ctrl-C, and shutdown: _stop is set, the run thread is joined  *)
(* for a second, and _typing is read without the lock.                     *)
Quit ==
  /\ upc \in {"prompt", "query"} /\ upc' = "join"
  /\ stop' = TRUE
  /\ Silent /\ UNCHANGED <<typing, age, rpc>>

Join ==
  /\ upc = "join" /\ upc' = "joined"
  /\ rpc \in {"ended", "end"}  \* nothing but a notification takes a second
  /\ Silent /\ UNCHANGED <<appVars, rpc>>

(* Mutant: shutdown leaves a burst to the run thread.                      *)
LeavesBurst == FALSE

(* The burst that shutdown has to end itself.                              *)
BurstLeft == typing

(* The process ends, and with it the run thread, a daemon.                 *)
shutdown ==
  /\ upc = "joined"
  /\ IF BurstLeft
     THEN upc' = "end" /\ Send(UiEnd)
     ELSE upc' = "done" /\ Silent
  /\ UNCHANGED <<appVars, rpc>>

-----------------------------------------------------------------------------
(* _run: the loop's condition, the sleep, and the test under the lock.     *)
Loop ==
  /\ rpc = "top"
  /\ rpc' = IF stop THEN "ended" ELSE "asleep"
  /\ Silent /\ UNCHANGED <<appVars, upc>>

(* Mutant: the run thread tells the client that typing goes on.            *)
StopInverted == <<"run", TRUE>>

StopNotice == RunEnd

Check ==
  /\ rpc = "asleep"
  /\ IF typing /\ age = Idle
     THEN typing' = FALSE /\ rpc' = "end" /\ Send(StopNotice)
     ELSE rpc' = "top" /\ Silent /\ UNCHANGED typing
  /\ UNCHANGED <<age, stop, upc>>

-----------------------------------------------------------------------------
(* Mutant: the RpcError is not caught, which ends the thread.              *)
RaisedInRun == "ended"

(* Where the run thread goes on when its call has failed: _send catches    *)
(* the RpcError.                                                           *)
CaughtInRun == "top"

(* The return of _send to the thread w; r is where the run thread goes on. *)
Return(w, r) ==
  \/ /\ w = "ui" /\ upc' = IF upc = "start" THEN "prompt" ELSE "done"
     /\ UNCHANGED rpc
  \/ w = "run" /\ rpc' = r /\ UNCHANGED upc
  \/ w = "late" /\ UNCHANGED <<upc, rpc>>

(* The client executes NotifyTyping.                                       *)
NotifyTyping(n) ==
  /\ net' = net \ {n} /\ view' = n[2]
  /\ Return(n[1], "top")
  /\ UNCHANGED <<appVars, alone>>

(* The call fails, reaches its time-out or ends with the process: the      *)
(* request is lost or late.                                                *)
NotifyFails(n) ==
  /\ net' \in {net \ {n}, (net \ {n}) \cup {Late(n[2])}}
  /\ alone' = FALSE
  /\ Return(n[1], CaughtInRun)
  /\ UNCHANGED <<appVars, view>>

(* Time.                                                                   *)
Tick ==
  /\ age < Idle /\ age' = age + 1
  /\ Silent /\ UNCHANGED <<typing, stop, upc, rpc>>

UiStep  == keystroke \/ submit_query \/ Quit \/ Join \/ shutdown
RunStep == upc # "done" /\ (Loop \/ Check)

Next ==
  \/ UiStep \/ RunStep \/ Tick
  \/ \E n \in net : NotifyTyping(n) \/ NotifyFails(n)

Spec == Init /\ [][Next]_vars

(* Fairness: time passes, both threads run, and their calls return.  The   *)
(* user has to do nothing.                                                 *)
FairSpec ==
  /\ Spec
  /\ WF_vars(Tick) /\ WF_vars(RunStep) /\ WF_vars(Join \/ shutdown)
  /\ WF_vars(\E n \in net : n[1] # "late" /\ (NotifyTyping(n) \/ NotifyFails(n)))

-----------------------------------------------------------------------------
(* "Notifies the client when typing starts/stops" (app.py:55): with no     *)
(* notification under way the client's idea of typing is the app's, and    *)
(* once the app has quit nobody types, whatever failed or was overtaken    *)
(* before, if only the last notification went through undisturbed.         *)
AgreesAtRest ==
  alone /\ net = {} => view = (typing /\ upc # "done")

(* A burst ends: when no key is pressed any more the run thread notices,   *)
(* however its notifications fared, or the app quits.                      *)
BurstEnds == <>[][age' > age]_age => <>[](~typing \/ upc = "done")
==============================================================================
