---------------------------- MODULE AnswerTasks ----------------------------
(***************************************************************************)
(* What the client may expect of the server behind one control channel: a  *)
(* task for each query that reached it, which sends responses while it     *)
(* runs, at most MaxChunks of them before the one marked done, and nothing *)
(* after that or once the channel is lost.  ServerSession implements it,   *)
(* and PromptAppService is composed with it.                               *)
(***************************************************************************)
EXTENDS Naturals

CONSTANTS Queries, MaxChunks

VARIABLES
  task,           \* task[q]: "none", "running", "ended" or "lost"
  sent            \* sent[q]: how many responses it has sent

taskVars == <<task, sent>>

Init ==
  /\ task = [q \in Queries |-> "none"]
  /\ sent = [q \in Queries |-> 0]

Begin(q) ==
  /\ task[q] = "none"
  /\ task' = [task EXCEPT ![q] = "running"]
  /\ UNCHANGED sent

Respond(q, done) ==
  /\ task[q] = "running"
  /\ sent[q] < MaxChunks \/ done
  /\ sent' = [sent EXCEPT ![q] = @ + 1]
  /\ task' = [task EXCEPT ![q] = IF done THEN "ended" ELSE "running"]

Lose ==
  /\ task' = [q \in Queries |-> IF task[q] = "running" THEN "lost" ELSE task[q]]
  /\ UNCHANGED sent

Next ==
  \/ \E q \in Queries : Begin(q) \/ \E done \in BOOLEAN : Respond(q, done)
  \/ Lose

Spec == Init /\ [][Next]_taskVars
=============================================================================
