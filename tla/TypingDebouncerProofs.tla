----------------------- MODULE TypingDebouncerProofs -----------------------
(***************************************************************************)
(* Proofs about TypingDebouncer, for every idle time: its type invariant,  *)
(* and that the client agrees with the prompt app once an undisturbed      *)
(* notification was executed.                                              *)
(***************************************************************************)
EXTENDS TypingDebouncer, TLAPS

(* The parts of the actions that have a name of their own.                 *)
USE DEF BurstLeft, StopNotice, CaughtInRun, appVars

(* What the client should be told.                                         *)
Says == typing /\ upc \notin {"end", "done"}

(* AgreesAtRest is not inductive, for it says nothing of a notification    *)
(* under way: if it is alone there it carries the right value.             *)
AgreeInv ==
  alone => \/ net = {} /\ view = Says
           \/ \E n \in net : net = {n} /\ n[2] = Says

-----------------------------------------------------------------------------
(* The notifications are told apart by their sender and their value.       *)
LEMMA NoticesDiffer ==
  /\ UiStart # UiEnd /\ UiStart # RunEnd /\ UiEnd # RunEnd
  /\ \A b \in BOOLEAN : Late(b) \notin {UiStart, UiEnd, RunEnd}
  /\ UiStart[1] = "ui" /\ UiEnd[1] = "ui" /\ RunEnd[1] = "run"
  /\ \A b \in BOOLEAN : Late(b)[1] = "late"
  <1>1. UiStart # UiEnd /\ UiStart # RunEnd /\ UiEnd # RunEnd
    BY DEF UiStart, UiEnd, RunEnd
  <1>2. \A b \in BOOLEAN : Late(b)[1] = "late"
    BY DEF Late
  <1>3. UiStart[1] = "ui" /\ UiEnd[1] = "ui" /\ RunEnd[1] = "run"
    BY DEF UiStart, UiEnd, RunEnd
  <1>4. \A b \in BOOLEAN : Late(b) \notin {UiStart, UiEnd, RunEnd}
    BY <1>2, <1>3
  <1> QED
    BY <1>1, <1>2, <1>3, <1>4

(* What each of them tells.                                                *)
LEMMA NoticeValues ==
  /\ UiStart[2] = TRUE /\ UiEnd[2] = FALSE /\ RunEnd[2] = FALSE
  /\ \A b \in BOOLEAN : Late(b)[2] = b
  BY DEF UiStart, UiEnd, RunEnd, Late

(* A notification has a Boolean value and is of one of the threads, or is  *)
(* late.                                                                   *)
LEMMA NoticeCases ==
  ASSUME NEW n \in Notices
  PROVE  /\ n[2] \in BOOLEAN
         /\ \/ n \in {UiStart, UiEnd, RunEnd}
            \/ n[1] = "late" /\ n \notin {UiStart, UiEnd, RunEnd}
  <1>1. \/ n \in {UiStart, UiEnd, RunEnd}
        \/ \E b \in BOOLEAN : n = Late(b)
    BY DEF Notices
  <1>2. n[2] \in BOOLEAN
    BY <1>1, NoticeValues
  <1>3. \/ n \in {UiStart, UiEnd, RunEnd}
        \/ n[1] = "late" /\ n \notin {UiStart, UiEnd, RunEnd}
    BY <1>1, NoticesDiffer
  <1> QED
    BY <1>2, <1>3

(* Returning to a thread takes that thread's notification out of net, and  *)
(* only it: net and the two threads' positions stay in agreement.          *)
LEMMA ReturnKeepsType ==
  ASSUME TypeOK, NEW n \in net, NEW late,
         late \subseteq Notices \ {UiStart, UiEnd, RunEnd},
         net' = (net \ {n}) \cup late,
         Return(n[1], "top")
  PROVE  /\ upc' \in {"prompt", "start", "query", "join", "joined", "end", "done"}
         /\ rpc' \in {"top", "asleep", "end", "ended"}
         /\ net' \subseteq Notices
         /\ upc' = "start" <=> UiStart \in net'
         /\ upc' = "end" <=> UiEnd \in net'
         /\ rpc' = "end" <=> RunEnd \in net'
  <1>1. CASE n = UiStart
    BY <1>1, NoticesDiffer DEF TypeOK, Return
  <1>2. CASE n = UiEnd
    BY <1>2, NoticesDiffer DEF TypeOK, Return
  <1>3. CASE n = RunEnd
    BY <1>3, NoticesDiffer DEF TypeOK, Return
  <1>4. CASE n[1] = "late" /\ n \notin {UiStart, UiEnd, RunEnd}
    BY <1>4 DEF TypeOK, Return
  <1>5. n \in Notices
    BY DEF TypeOK
  <1> QED
    BY <1>1, <1>2, <1>3, <1>4, <1>5, NoticeCases

(* Every step keeps the type invariant.                                    *)
LEMMA TypeStep == TypeOK /\ [Next]_vars => TypeOK'
  <1> SUFFICES ASSUME TypeOK, [Next]_vars PROVE TypeOK'
    OBVIOUS
  <1> USE IdleAssumption
  <1>1. CASE keystroke
    <2>1. CASE typing
      BY <1>1, <2>1 DEF TypeOK, keystroke, Silent
    <2>2. CASE ~typing
      <3>1. {typing, stop, view, alone}' \subseteq BOOLEAN /\ (age \in 0..Idle)'
        BY <1>1, <2>2 DEF TypeOK, keystroke, Send
      <3>2. net' = net \cup {UiStart} /\ upc = "prompt" /\ upc' = "start" /\ rpc' = rpc
        BY <1>1, <2>2 DEF keystroke, Send
      <3> QED
        BY <3>1, <3>2, NoticesDiffer DEF TypeOK, Notices
    <2> QED
      BY <2>1, <2>2
  <1>2. CASE submit_query \/ Quit \/ Join
    BY <1>2 DEF TypeOK, submit_query, Quit, Join, Silent
  <1>3. CASE shutdown
    BY <1>3, NoticesDiffer DEF TypeOK, Notices, shutdown, Send, Silent
  <1>4. CASE Loop
    BY <1>4 DEF TypeOK, Loop, Silent
  <1>5. CASE Check
    BY <1>5, NoticesDiffer DEF TypeOK, Notices, Check, Send, Silent
  <1>6. CASE Tick
    BY <1>6 DEF TypeOK, Tick, Silent
  <1>7. ASSUME NEW n \in net, NotifyTyping(n) PROVE TypeOK'
    <2>1. net' = (net \ {n}) \cup {} /\ Return(n[1], "top")
      BY <1>7 DEF NotifyTyping
    <2>2. n[2] \in BOOLEAN
      BY <1>7, NoticeCases DEF TypeOK
    <2> QED
      BY <1>7, <2>1, <2>2, ReturnKeepsType DEF TypeOK, NotifyTyping
  <1>8. ASSUME NEW n \in net, NotifyFails(n) PROVE TypeOK'
    <2>1. Late(n[2]) \in Notices \ {UiStart, UiEnd, RunEnd}
      BY <1>8, NoticeCases, NoticesDiffer DEF TypeOK, Notices
    <2>2. \E late \in {{}, {Late(n[2])}} : net' = (net \ {n}) \cup late
      BY <1>8 DEF NotifyFails
    <2>3. Return(n[1], "top")
      BY <1>8 DEF NotifyFails
    <2> QED
      BY <1>8, <2>1, <2>2, <2>3, ReturnKeepsType DEF TypeOK, NotifyFails
  <1>9. CASE UNCHANGED vars
    BY <1>9 DEF TypeOK, vars
  <1> QED
    BY <1>1, <1>2, <1>3, <1>4, <1>5, <1>6, <1>7, <1>8, <1>9
       DEF Next, UiStep, RunStep

(* TypeOK, and with it that a notification is under way exactly when the   *)
(* thread that sent it waits for it, holds of every reachable state.       *)
THEOREM TypeCorrect == Spec => []TypeOK
  <1>1. ASSUME Init PROVE TypeOK
    <2>1. {typing, stop, view, alone} \subseteq BOOLEAN
      BY <1>1 DEF Init
    <2>2. age \in 0..Idle
      BY <1>1, IdleAssumption DEF Init
    <2> QED
      BY <1>1, <2>1, <2>2 DEF Init, TypeOK
  <1> QED
    BY <1>1, TypeStep, PTL DEF Spec

-----------------------------------------------------------------------------
(* Every step keeps AgreeInv: what is sent alone is what should be said,   *)
(* and what should be said changes only with a notification.               *)
LEMMA AgreeStep == TypeOK /\ AgreeInv /\ [Next]_vars => AgreeInv'
  <1> SUFFICES ASSUME TypeOK, AgreeInv, [Next]_vars, alone' PROVE AgreeInv'
    BY DEF AgreeInv
  <1>s. ASSUME NEW n, Send(n), n[2] = Says' PROVE AgreeInv'
    BY <1>s DEF AgreeInv, Send
  <1>k. ASSUME Silent, Says' = Says PROVE AgreeInv'
    BY <1>k DEF AgreeInv, Silent
  <1>1. CASE keystroke
    <2>1. typing' = TRUE /\ upc' \in {"prompt", "start"}
      BY <1>1 DEF keystroke
    <2>2. Says' = TRUE
      BY <2>1 DEF Says
    <2>3. CASE typing
      BY <1>1, <1>k, <2>2, <2>3 DEF keystroke, Says
    <2>4. CASE ~typing
      BY <1>1, <1>s, <2>2, <2>4, NoticeValues DEF keystroke
    <2> QED
      BY <2>3, <2>4
  <1>2. CASE submit_query \/ Quit \/ Join
    <2>1. Silent /\ UNCHANGED typing /\ {upc, upc'} \cap {"end", "done"} = {}
      BY <1>2 DEF submit_query, Quit, Join
    <2>2. Says' = Says
      BY <2>1 DEF Says
    <2> QED
      BY <1>k, <2>1, <2>2
  <1>3. CASE shutdown
    <2>1. upc' \in {"end", "done"} /\ upc = "joined" /\ UNCHANGED typing
      BY <1>3 DEF shutdown
    <2>2. Says' = FALSE
      BY <2>1 DEF Says
    <2>3. CASE typing
      BY <1>3, <1>s, <2>2, <2>3, NoticeValues DEF shutdown
    <2>4. CASE ~typing
      BY <1>3, <1>k, <2>2, <2>4 DEF shutdown, Says
    <2> QED
      BY <2>3, <2>4
  <1>4. CASE Loop
    BY <1>4, <1>k DEF Says, Loop
  <1>5. CASE Check
    <2>1. CASE typing /\ age = Idle
      <3>1. typing' = FALSE /\ Send(StopNotice)
        BY <1>5, <2>1 DEF Check
      <3>2. Says' = FALSE
        BY <3>1 DEF Says
      <3> QED
        BY <1>s, <3>1, <3>2, NoticeValues
    <2>2. CASE ~(typing /\ age = Idle)
      BY <1>5, <1>k, <2>2 DEF Check, Says
    <2> QED
      BY <2>1, <2>2
  <1>6. CASE Tick
    BY <1>6, <1>k DEF Says, Tick
  <1>7. ASSUME NEW n \in net, NotifyTyping(n) PROVE AgreeInv'
    <2>1. net = {n} /\ n[2] = Says
      BY <1>7 DEF AgreeInv, NotifyTyping
    <2>2. UNCHANGED typing
          /\ (upc' \in {"end", "done"} <=> upc \in {"end", "done"})
      <3>1. CASE n[1] = "ui"
        <4>1. upc \in {"start", "end"}
          BY <1>7, <3>1, NoticeCases, NoticesDiffer DEF TypeOK
        <4> QED
          BY <1>7, <3>1, <4>1 DEF NotifyTyping, Return
      <3>2. CASE n[1] # "ui"
        BY <1>7, <3>2 DEF NotifyTyping, Return
      <3> QED
        BY <3>1, <3>2
    <2>3. Says' = Says
      BY <2>2 DEF Says
    <2> QED
      BY <1>7, <2>1, <2>3 DEF AgreeInv, NotifyTyping
  <1>8. ASSUME NEW n \in net, NotifyFails(n) PROVE AgreeInv'
    BY <1>8 DEF NotifyFails
  <1>9. CASE UNCHANGED vars
    BY <1>9 DEF AgreeInv, Says, vars
  <1> QED
    BY <1>1, <1>2, <1>3, <1>4, <1>5, <1>6, <1>7, <1>8, <1>9
       DEF Next, UiStep, RunStep

(* The client's idea of typing is the prompt app's whenever the last       *)
(* notification was alone under way and has been executed, and a prompt    *)
(* app that quit leaves nobody typing (app.py:55).                         *)
THEOREM ClientAgrees == Spec => []AgreesAtRest
  <1>1. Init => AgreeInv
    BY DEF Init, AgreeInv, Says
  <1>2. TypeOK /\ AgreeInv => AgreesAtRest
    BY DEF TypeOK, AgreeInv, AgreesAtRest, Says
  <1> QED
    BY <1>1, <1>2, TypeCorrect, AgreeStep, PTL DEF Spec
=============================================================================
