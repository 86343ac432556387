------------------------ MODULE ServerSessionProofs ------------------------
(***************************************************************************)
(* Proofs about ServerSession, for any number of queries, any windows,     *)
(* buffer size and clock: that no wakeup is lost, that answers are well    *)
(* formed, and that no query goes to the engine early.                     *)
(***************************************************************************)
EXTENDS ServerSession, FiniteSetTheorems, SequenceTheorems, TLAPS

(* The parts of the actions that have a name of their own.                 *)
USE DEF clientVars, bufVars, taskVars, NextIndex

Responses == [chunk : Nat, done : BOOLEAN]

(* What the arguments below need of the types.                             *)
TypeInv ==
  /\ now \in Nat /\ flight \subseteq Nat /\ frames \in Seq(Nat)
  /\ st \in [Queries -> TaskPoints]
  /\ trigger \in [Queries -> Nat]
  /\ deadline \in [Queries -> Nat]
  /\ answer \in [Queries -> Seq(Responses)]

-----------------------------------------------------------------------------
(* What a task does when its wait is over, and what sending does, to the   *)
(* position of its query.                                                  *)
LEMMA ProceedMoves ==
  ASSUME TypeInv, NEW q \in Queries, Proceed(q)
  PROVE  /\ st' \in [Queries -> TaskPoints]
         /\ st'[q] \in {"loading", "generating"}
         /\ \A p \in Queries \ {q} : st'[p] = st[p]
  BY DEF TypeInv, Proceed, TaskPoints

LEMMA SendMoves ==
  ASSUME TypeInv, NEW q \in Queries, NEW done \in BOOLEAN, Send(q, done)
  PROVE  /\ st' \in [Queries -> TaskPoints]
         /\ st'[q] \in {st[q], "ended", "dead"}
         /\ \A p \in Queries \ {q} : st'[p] = st[p] /\ answer'[p] = answer[p]
         /\ answer' \in [Queries -> Seq(Responses)]
  <1>1. st' \in [Queries -> TaskPoints] /\ st'[q] \in {st[q], "ended", "dead"}
    BY DEF TypeInv, Send, TaskPoints
  <1>2. [chunk |-> NextIndex(q), done |-> done] \in Responses
    BY DEF TypeInv, Responses
  <1>3. answer' \in [Queries -> Seq(Responses)]
    <2>1. Append(answer[q], [chunk |-> NextIndex(q), done |-> done]) \in Seq(Responses)
      BY <1>2 DEF TypeInv
    <2> HIDE DEF NextIndex
    <2> QED
      BY <2>1 DEF TypeInv, Send
  <1>4. \A p \in Queries \ {q} : st'[p] = st[p] /\ answer'[p] = answer[p]
    BY DEF TypeInv, Send
  <1> QED
    BY <1>1, <1>3, <1>4

(* Every step keeps these types.                                           *)
LEMMA TypeStep == TypeInv /\ [Next]_vars => TypeInv'
  <1> SUFFICES ASSUME TypeInv, [Next]_vars PROVE TypeInv'
    OBVIOUS
  <1> USE WindowAssumption
  <1>1. CASE Capture
    BY <1>1 DEF TypeInv, Capture
  <1>2. ASSUME NEW f \in flight, LoseFrame(f) PROVE TypeInv'
    BY <1>2 DEF TypeInv, LoseFrame
  <1>3. ASSUME NEW f \in flight, on_frame_packet(f) PROVE TypeInv'
    <2>1. frames' \in Seq(Nat)
      BY <1>3 DEF TypeInv, on_frame_packet, Push
    <2>2. st' \in [Queries -> TaskPoints]
      BY <1>3 DEF TypeInv, on_frame_packet, WakeAll, TaskPoints
    <2> QED
      BY <1>3, <2>1, <2>2 DEF TypeInv, on_frame_packet
  <1>4. ASSUME NEW q \in Queries, on_control_message(q) PROVE TypeInv'
    BY <1>4 DEF TypeInv, on_control_message, TaskPoints
  <1>5. ASSUME NEW q \in Queries, RunQuery(q) PROVE TypeInv'
    <2>0. PostWindow \in Nat /\ Overhead \in Nat
      OBVIOUS
    <2>d. Deadline(q) \in Nat
      BY <2>0 DEF TypeInv, Deadline
    <2>1. deadline' \in [Queries -> Nat]
      BY <1>5, <2>d DEF TypeInv, RunQuery
    <2>2. st' \in [Queries -> TaskPoints]
      BY <1>5, ProceedMoves DEF TypeInv, RunQuery, TaskPoints
    <2> QED
      BY <1>5, <2>1, <2>2 DEF TypeInv, RunQuery
  <1>6. ASSUME NEW q \in Queries, TimeOut(q) PROVE TypeInv'
    BY <1>6, ProceedMoves DEF TypeInv, TimeOut
  <1>7. ASSUME NEW q \in Queries, Load(q) PROVE TypeInv'
    <2>1. CASE Send(q, TRUE)
      BY <1>7, <2>1, SendMoves DEF TypeInv, Load
    <2>2. CASE ~Send(q, TRUE)
      BY <1>7, <2>2 DEF TypeInv, Load, TaskPoints
    <2> QED
      BY <2>1, <2>2
  <1>8. ASSUME NEW q \in Queries, Chunk(q) \/ Finish(q) PROVE TypeInv'
    BY <1>8, SendMoves DEF TypeInv, Chunk, Finish
  <1>9. CASE Close \/ Tick
    <2>1. CASE Close
      BY <2>1 DEF TypeInv, Close
    <2>2. CASE Tick
      BY <2>2 DEF TypeInv, Tick
    <2> QED
      BY <1>9, <2>1, <2>2
  <1>10. CASE UNCHANGED vars
    BY <1>10 DEF TypeInv, vars
  <1> QED
    BY <1>1, <1>2, <1>3, <1>4, <1>5, <1>6, <1>7, <1>8, <1>9, <1>10
       DEF Next, TaskStep

(* They hold in every reachable state.                                     *)
LEMMA TypeInvariance == Spec => []TypeInv
  <1>1. Init => TypeInv
    BY DEF Init, TypeInv, TaskPoints
  <1> QED
    BY <1>1, TypeStep, PTL DEF Spec

-----------------------------------------------------------------------------
(* One event serves all queries, and each round of a wait clears it; still *)
(* a task is only ever blocked while its test fails: the test and the      *)
(* clear are one step, and a frame wakes every task (webrtc_server.py,     *)
(* _await_post_window and on_frame_packet).                                *)
THEOREM WakeupsNotLost == Spec => []NoLostWakeup
  <1>1. Init => NoLostWakeup
    BY DEF Init, NoLostWakeup
  <1>2. TypeInv /\ NoLostWakeup /\ [Next]_vars => NoLostWakeup'
    <2> SUFFICES ASSUME TypeInv, NoLostWakeup, [Next]_vars,
                        NEW p \in Queries, st'[p] = "blocked"
                 PROVE  ~PostFrameLast(p)'
      BY DEF NoLostWakeup
    <2>k. ASSUME frames' = frames, trigger'[p] = trigger[p], st[p] = "blocked"
          PROVE  ~PostFrameLast(p)'
      BY <2>k DEF NoLostWakeup, PostFrameLast
    <2>1. CASE Capture \/ Close \/ Tick
      BY <2>1, <2>k DEF Capture, Close, Tick
    <2>2. ASSUME NEW f \in flight, LoseFrame(f) PROVE ~PostFrameLast(p)'
      BY <2>2, <2>k DEF LoseFrame
    <2>3. ASSUME NEW f \in flight, on_frame_packet(f) PROVE FALSE
      BY <2>3 DEF on_frame_packet, WakeAll
    <2>4. ASSUME NEW q \in Queries, on_control_message(q)
          PROVE  ~PostFrameLast(p)'
      BY <2>4, <2>k DEF TypeInv, on_control_message
    <2>5. ASSUME NEW q \in Queries, RunQuery(q) PROVE ~PostFrameLast(p)'
      <3>1. frames' = frames /\ trigger' = trigger
        BY <2>5 DEF RunQuery
      <3>2. CASE p = q
        <4>1. ~Proceed(q)
          BY <3>2, ProceedMoves
        <4> QED
          BY <2>5, <3>1, <3>2, <4>1 DEF RunQuery, PostFrameLast
      <3>3. CASE p # q
        <4>1. st[p] = "blocked"
          BY <2>5, <3>3, ProceedMoves DEF RunQuery, TypeInv
        <4> QED
          BY <2>k, <3>1, <4>1
      <3> QED
        BY <3>2, <3>3
    <2>6. ASSUME NEW q \in Queries, TimeOut(q) PROVE ~PostFrameLast(p)'
      BY <2>6, <2>k, ProceedMoves DEF TimeOut
    <2>7. ASSUME NEW q \in Queries, Load(q) PROVE ~PostFrameLast(p)'
      BY <2>7, <2>k, SendMoves DEF Load, TypeInv
    <2>8. ASSUME NEW q \in Queries, Chunk(q) \/ Finish(q)
          PROVE  ~PostFrameLast(p)'
      BY <2>8, <2>k, SendMoves DEF Chunk, Finish
    <2>9. CASE UNCHANGED vars
      BY <2>9, <2>k DEF vars
    <2> QED
      BY <2>1, <2>2, <2>3, <2>4, <2>5, <2>6, <2>7, <2>8, <2>9
         DEF Next, TaskStep
  <1> QED
    BY <1>1, <1>2, TypeInvariance, PTL DEF Spec

-----------------------------------------------------------------------------
(* The answer of one query, as AnswerWellFormed has it.                    *)
WellFormed(q) ==
  /\ \A i \in 1..Len(answer[q]) :
       /\ answer[q][i].chunk = i - 1
       /\ answer[q][i].done <=> i = Len(answer[q]) /\ st[q] = "ended"
  /\ st[q] = "ended" => answer[q] # <<>>

(* Sending on behalf of a query that has not ended adds the next number,   *)
(* marked done exactly when the query ends with it.                        *)
LEMMA SendWellFormed ==
  ASSUME TypeInv, NEW q \in Queries, NEW done \in BOOLEAN, Send(q, done),
         st[q] \in {"loading", "generating"}, WellFormed(q)
  PROVE  WellFormed(q)'
  <1>1. CASE ~open
    BY <1>1 DEF Send, WellFormed, TypeInv
  <1>2. CASE open
    <2> DEFINE r == [chunk |-> Len(answer[q]), done |-> done]
    <2>1. answer'[q] = Append(answer[q], r) /\ (st'[q] = "ended" <=> done)
      BY <1>2 DEF Send, TypeInv
    <2>2. r.chunk = Len(answer[q]) /\ r.done = done
      OBVIOUS
    <2>t. r \in Responses /\ answer[q] \in Seq(Responses)
      BY DEF TypeInv, Responses
    <2> HIDE DEF r
    <2>3. /\ Len(answer'[q]) = Len(answer[q]) + 1
          /\ \A i \in 1..Len(answer[q]) : answer'[q][i] = answer[q][i]
          /\ answer'[q][Len(answer[q]) + 1] = r
          /\ answer'[q] # <<>>
      BY <2>1, <2>t
    <2>4. ASSUME NEW i \in 1..Len(answer[q])
          PROVE  answer'[q][i].chunk = i - 1 /\ ~answer'[q][i].done
      BY <2>3 DEF WellFormed
    <2>5. Len(answer[q]) \in Nat
      BY DEF TypeInv
    <2>6. ASSUME NEW i \in 1..Len(answer'[q])
          PROVE  /\ answer'[q][i].chunk = i - 1
                 /\ answer'[q][i].done <=> i = Len(answer'[q]) /\ st'[q] = "ended"
      <3>1. CASE i = Len(answer[q]) + 1
        <4>r. answer'[q][i] = r
          BY <2>3, <3>1
        <4>1. answer'[q][i].chunk = i - 1
          BY <2>2, <2>5, <3>1, <4>r
        <4>2. answer'[q][i].done = done
          BY <2>2, <4>r
        <4>3. i = Len(answer'[q])
          BY <2>3, <3>1
        <4> QED
          BY <2>1, <4>1, <4>2, <4>3
      <3>2. CASE i # Len(answer[q]) + 1
        <4>1. i \in 1..Len(answer[q]) /\ i # Len(answer'[q])
          BY <2>3, <2>5, <3>2
        <4> QED
          BY <2>4, <4>1
      <3> QED
        BY <3>1, <3>2
    <2> QED
      BY <2>3, <2>6 DEF WellFormed
  <1> QED
    BY <1>1, <1>2

(* The answer to a query is numbered without gaps and has one done         *)
(* response, its last, whether the engine's output ends, the engine raises *)
(* or its model cannot be loaded (webrtc_server.py, on_control_message and *)
(* _send_response).                                                        *)
THEOREM AnswersWellFormed == Spec => []AnswerWellFormed
  <1>1. Init => AnswerWellFormed
    BY DEF Init, AnswerWellFormed
  <1>2. TypeInv /\ AnswerWellFormed /\ [Next]_vars => AnswerWellFormed'
    <2> SUFFICES ASSUME TypeInv, AnswerWellFormed, [Next]_vars, NEW p \in Queries
                 PROVE  WellFormed(p)'
      BY DEF AnswerWellFormed, WellFormed
    <2>w. WellFormed(p)
      BY DEF AnswerWellFormed, WellFormed
    <2>k. ASSUME answer'[p] = answer[p], st'[p] = "ended" <=> st[p] = "ended"
          PROVE  WellFormed(p)'
      BY <2>k, <2>w DEF WellFormed
    <2>1. CASE Capture \/ Close \/ Tick
      BY <2>1, <2>k DEF Capture, Close, Tick
    <2>2. ASSUME NEW f \in flight, LoseFrame(f) \/ on_frame_packet(f)
          PROVE  WellFormed(p)'
      BY <2>2, <2>k DEF LoseFrame, on_frame_packet, WakeAll
    <2>3. ASSUME NEW q \in Queries, on_control_message(q) PROVE WellFormed(p)'
      BY <2>3, <2>k DEF TypeInv, on_control_message
    <2>4. ASSUME NEW q \in Queries, RunQuery(q) \/ TimeOut(q)
          PROVE  WellFormed(p)'
      <3>1. answer' = answer /\ st[q] # "ended"
        BY <2>4 DEF RunQuery, TimeOut
      <3>2. st'[q] # "ended" /\ \A o \in Queries \ {q} : st'[o] = st[o]
        BY <2>4, ProceedMoves DEF RunQuery, TimeOut, TypeInv
      <3> QED
        BY <2>k, <3>1, <3>2
    <2>5. ASSUME NEW q \in Queries, NEW done \in BOOLEAN, Send(q, done),
                 st[q] \in {"loading", "generating"}
          PROVE  WellFormed(p)'
      <3>1. CASE p = q
        BY <2>5, <2>w, <3>1, SendWellFormed
      <3>2. CASE p # q
        BY <2>5, <2>k, <3>2, SendMoves
      <3> QED
        BY <3>1, <3>2
    <2>6. ASSUME NEW q \in Queries, Load(q) PROVE WellFormed(p)'
      <3>1. CASE Send(q, TRUE)
        BY <2>5, <2>6, <3>1 DEF Load
      <3>2. CASE ~Send(q, TRUE)
        BY <2>6, <2>k, <3>2 DEF Load, TypeInv
      <3> QED
        BY <3>1, <3>2
    <2>7. ASSUME NEW q \in Queries, Chunk(q) \/ Finish(q) PROVE WellFormed(p)'
      BY <2>5, <2>7 DEF Chunk, Finish
    <2>8. CASE UNCHANGED vars
      BY <2>8, <2>k DEF vars
    <2> QED
      BY <2>1, <2>2, <2>3, <2>4, <2>6, <2>7, <2>8 DEF Next, TaskStep
  <1> QED
    BY <1>1, <1>2, TypeInvariance, PTL DEF Spec

-----------------------------------------------------------------------------
(* A wait ends only in a step of the query's own task that takes the       *)
(* snapshot: there is no trigger, the last frame is late enough, or the    *)
(* deadline has passed.                                                    *)
LEMMA WaitEnds ==
  ASSUME TypeInv, [Next]_vars, NEW p \in Queries, WaitIsOver(p)
  PROVE  /\ Proceed(p)
         /\ trigger[p] = 0 \/ PostFrameLast(p) \/ now >= Deadline(p)
  <1>k. Waiting(p) /\ st'[p] \notin {"start", "woken", "blocked"}
    BY DEF WaitIsOver, Waiting
  <1>m. st'[p] # st[p]
    BY <1>k DEF Waiting
  <1>1. ~Capture /\ ~Close /\ ~Tick /\ ~UNCHANGED vars
    BY <1>m DEF Capture, Close, Tick, vars
  <1>2. ASSUME NEW f \in flight, LoseFrame(f) \/ on_frame_packet(f) PROVE FALSE
    BY <1>2, <1>k, <1>m DEF LoseFrame, on_frame_packet, WakeAll
  <1>3. ASSUME NEW q \in Queries, on_control_message(q) PROVE FALSE
    BY <1>3, <1>k, <1>m DEF TypeInv, on_control_message
  <1>4. ASSUME NEW q \in Queries, RunQuery(q)
        PROVE  /\ Proceed(p)
               /\ trigger[p] = 0 \/ PostFrameLast(p) \/ now >= Deadline(p)
    <2>1. p = q
      BY <1>4, <1>m, ProceedMoves DEF RunQuery, TypeInv
    <2> QED
      BY <1>4, <1>k, <2>1 DEF RunQuery, TypeInv
  <1>5. ASSUME NEW q \in Queries, TimeOut(q)
        PROVE  Proceed(p) /\ now >= Deadline(p)
    <2>1. p = q
      BY <1>5, <1>m, ProceedMoves DEF TimeOut
    <2> QED
      BY <1>5, <2>1 DEF TimeOut, Deadline
  <1>6. ASSUME NEW q \in Queries, Load(q) \/ Chunk(q) \/ Finish(q) PROVE FALSE
    <2>1. st[q] \in {"loading", "generating"}
      BY <1>6 DEF Load, Chunk, Finish
    <2>2. p # q
      BY <1>k, <2>1 DEF Waiting
    <2> QED
      BY <1>6, <1>m, <2>2, SendMoves DEF Load, Chunk, Finish, TypeInv
  <1> QED
    BY <1>1, <1>2, <1>3, <1>4, <1>5, <1>6 DEF Next, TaskStep

(* A query goes to the engine when its full wait is over or a frame at or  *)
(* after the end of its window is in the buffer, and in no other case      *)
(* (webrtc_server.py, _await_post_window).                                 *)
THEOREM InferenceNotEarly == Spec => NoEarlyInference
  <1>1. ASSUME TypeInv, [Next]_vars, NEW p \in Queries, WaitIsOver(p), trigger[p] > 0
        PROVE  \/ now >= Deadline(p)
               \/ \E i \in 1..Len(frames) : frames[i] >= trigger[p] + PostWindow
    <2>1. PostFrameLast(p) \/ now >= Deadline(p)
      BY <1>1, WaitEnds DEF TypeInv
    <2>2. ASSUME PostFrameLast(p)
          PROVE  \E i \in 1..Len(frames) : frames[i] >= trigger[p] + PostWindow
      <3>1. Len(frames) \in 1..Len(frames) /\ frames[Len(frames)] = Last(frames)
        BY <1>1, <2>2 DEF TypeInv, PostFrameLast, Last
      <3> QED
        BY <2>2, <3>1 DEF PostFrameLast
    <2> QED
      BY <2>1, <2>2
  <1>2. TypeInv /\ [Next]_vars =>
          [\A q \in Queries : WaitIsOver(q) /\ trigger[q] > 0 =>
             \/ now >= Deadline(q)
             \/ \E i \in 1..Len(frames) : frames[i] >= trigger[q] + PostWindow]_vars
    BY <1>1
  <1> QED
    BY <1>2, TypeInvariance, PTL DEF Spec, NoEarlyInference

-----------------------------------------------------------------------------
(* The positions of a finite set: later ones have more positions up to     *)
(* them, so no two have the same rank, and by counting every rank up to    *)
(* the set's size is taken.                                                *)
LEMMA RankGrows ==
  ASSUME NEW W \in SUBSET Nat, IsFiniteSet(W), NEW i \in W, NEW j \in W, i < j
  PROVE  Rank(W, i) < Rank(W, j)
  <1> DEFINE Upto(k) == {l \in W : l <= k}
  <1>1. IsFiniteSet(Upto(j)) /\ Upto(i) \in SUBSET Upto(j)
    <2>1. Upto(j) \in SUBSET W
      OBVIOUS
    <2>2. IsFiniteSet(Upto(j))
      BY <2>1, FS_Subset
    <2>3. \A l \in Upto(i) : l \in Upto(j)
      OBVIOUS
    <2> HIDE DEF Upto
    <2> QED
      BY <2>2, <2>3
  <1>2. j \in Upto(j) /\ j \notin Upto(i)
    OBVIOUS
  <1> HIDE DEF Upto
  <1>3. /\ IsFiniteSet(Upto(i))
        /\ Cardinality(Upto(i)) <= Cardinality(Upto(j))
        /\ Cardinality(Upto(j)) # Cardinality(Upto(i))
    BY <1>1, <1>2, FS_Subset
  <1>4. Cardinality(Upto(i)) \in Nat /\ Cardinality(Upto(j)) \in Nat
    BY <1>1, <1>3, FS_CardinalityType
  <1>5. Cardinality(Upto(i)) < Cardinality(Upto(j))
    BY <1>3, <1>4
  <1> QED
    BY <1>5 DEF Rank, Upto

LEMMA RankRange ==
  ASSUME NEW W \in SUBSET Nat, IsFiniteSet(W), NEW i \in W
  PROVE  Rank(W, i) \in 1..Cardinality(W)
  <1> DEFINE U == {l \in W : l <= i}
  <1>1. U \in SUBSET W /\ i \in U
    OBVIOUS
  <1>r. Rank(W, i) = Cardinality(U)
    BY DEF Rank
  <1> HIDE DEF U
  <1>2. IsFiniteSet(U) /\ Cardinality(U) <= Cardinality(W)
    BY <1>1, FS_Subset
  <1>3. Cardinality(U) \in Nat /\ Cardinality(W) \in Nat
    BY <1>2, FS_CardinalityType
  <1>4. Cardinality(U) # 0
    BY <1>1, <1>2, FS_EmptySet
  <1> QED
    BY <1>r, <1>2, <1>3, <1>4

LEMMA NthExists ==
  ASSUME NEW W \in SUBSET Nat, IsFiniteSet(W), NEW k \in 1..Cardinality(W)
  PROVE  Nth(W, k) \in W /\ Rank(W, Nth(W, k)) = k
  <1> DEFINE n == Cardinality(W)
             rank == [i \in W |-> Rank(W, i)]
  <1>0. n \in Nat
    BY FS_CardinalityType
  <1>1. rank \in [W -> 1..n]
    BY RankRange
  <1>2. ASSUME NEW i \in W, NEW j \in W, rank[i] = rank[j] PROVE i = j
    <2>1. rank[i] \in Nat /\ rank[j] \in Nat
      BY <1>0, <1>1
    <2>2. ~(i < j) /\ ~(j < i)
      BY <1>2, <2>1, RankGrows
    <2> QED
      BY <2>2
  <1>3. IsFiniteSet(1..n) /\ Cardinality(1..n) = n
    BY <1>0, FS_Interval
  <1>4. rank \in Injection(W, 1..n)
    BY <1>1, <1>2 DEF Injection, IsInjective
  <1>5. rank \in Surjection(W, 1..n)
    BY <1>3, <1>4, FS_Injection
  <1>6. \E i \in W : rank[i] = k
    BY <1>5 DEF Surjection
  <1>7. \E i \in W : Rank(W, i) = k
    BY <1>6
  <1> QED
    BY <1>7 DEF Nth

(* The last of the positions is the greatest.                              *)
LEMMA NthLast ==
  ASSUME NEW W \in SUBSET Nat, IsFiniteSet(W), NEW i \in W,
         \A j \in W : j <= i
  PROVE  Cardinality(W) \in Nat \ {0} /\ Nth(W, Cardinality(W)) = i
  <1>1. Cardinality(W) \in Nat /\ Rank(W, i) \in 1..Cardinality(W)
    BY RankRange, FS_CardinalityType
  <1>2. {l \in W : l <= i} = W
    OBVIOUS
  <1>3. Rank(W, i) = Cardinality(W)
    BY <1>2 DEF Rank
  <1>4. Cardinality(W) \in 1..Cardinality(W)
    BY <1>1, <1>3
  <1> DEFINE m == Nth(W, Cardinality(W))
  <1>5. m \in W /\ Rank(W, m) = Rank(W, i)
    BY <1>3, <1>4, NthExists
  <1> HIDE DEF m
  <1>6. ~(m < i)
    <2>1. Rank(W, i) \in Nat
      BY <1>1
    <2> QED
      BY <1>5, <2>1, RankGrows
  <1>7. m \in Nat /\ i \in Nat /\ m <= i
    BY <1>5
  <1>8. m = i
    BY <1>6, <1>7
  <1>9. Cardinality(W) # 0
    BY <1>4
  <1> QED
    BY <1>1, <1>8, <1>9 DEF m
-----------------------------------------------------------------------------
(* The window is a sequence of frames of the buffer, as many as match, and *)
(* the newest of the frames that the query wants comes last in it.         *)
LEMMA MatchesFinite ==
  ASSUME NEW T, frames \in Seq(T), NEW q
  PROVE  Matches(q) \in SUBSET Nat /\ IsFiniteSet(Matches(q))
  <1>1. Len(frames) \in Nat /\ IsFiniteSet(1..Len(frames))
    BY FS_Interval
  <1>2. Matches(q) \in SUBSET (1..Len(frames))
    BY DEF Matches
  <1>3. IsFiniteSet(Matches(q))
    BY <1>1, <1>2, FS_Subset
  <1> QED
    BY <1>2, <1>3

LEMMA WindowType ==
  ASSUME NEW T, frames \in Seq(T), NEW q
  PROVE  Window(q) \in Seq(T)
  <1>1. CASE trigger[q] = 0
    BY <1>1 DEF Window
  <1>2. CASE trigger[q] # 0
    <2> DEFINE W == Matches(q)
               n == Cardinality(W)
    <2>1. W \in SUBSET Nat /\ IsFiniteSet(W) /\ n \in Nat
      BY MatchesFinite, FS_CardinalityType
    <2>2. \A k \in 1..n : Nth(W, k) \in W
      BY <2>1, NthExists
    <2>3. \A i \in W : frames[i] \in T
      BY DEF Matches
    <2> HIDE DEF W
    <2>4. \A k \in 1..n : frames[Nth(W, k)] \in T
      BY <2>2, <2>3
    <2>5. Window(q) = [k \in 1..n |-> frames[Nth(W, k)]]
      BY <1>2 DEF Window, W
    <2> HIDE DEF n
    <2> QED
      BY <2>1, <2>4, <2>5, IsASeq
  <1> QED
    BY <1>1, <1>2

LEMMA WindowLast ==
  ASSUME NEW T, frames \in Seq(T), NEW q, NEW i \in Wanted(q),
         \A j \in Wanted(q) : j <= i
  PROVE  Window(q) # <<>> /\ Last(Window(q)) = frames[i]
  <1>1. CASE trigger[q] = 0
    <2>1. Wanted(q) = 1..Len(frames) /\ Len(frames) \in Nat
      BY <1>1 DEF Wanted
    <2>i. i \in 1..Len(frames) /\ Len(frames) \in Wanted(q)
      BY <2>1
    <2>2. i = Len(frames) /\ i \in 1..Len(frames)
      BY <2>1, <2>i
    <2> QED
      BY <1>1, <2>2 DEF Window, Last
  <1>2. CASE trigger[q] # 0
    <2> DEFINE W == Matches(q)
               n == Cardinality(W)
    <2>1. Wanted(q) = W
      BY <1>2 DEF Wanted, Matches
    <2>2. W \in SUBSET Nat /\ IsFiniteSet(W)
      BY MatchesFinite
    <2> HIDE DEF W
    <2>3. n \in Nat \ {0} /\ Nth(W, n) = i
      BY <2>1, <2>2, NthLast
    <2>4. Window(q) = [k \in 1..n |-> frames[Nth(W, k)]]
      BY <1>2 DEF Window, W
    <2> HIDE DEF n
    <2>5. Window(q) \in Seq(T)
      BY WindowType
    <2>6. Len(Window(q)) = n
      BY <2>3, <2>4, <2>5
    <2>7. Window(q)[n] = frames[i] /\ Window(q) # <<>>
      BY <2>3, <2>4, <2>6
    <2> QED
      BY <2>6, <2>7 DEF Last
  <1> QED
    BY <1>1, <1>2

(* So is the snapshot: the hint cuts frames off its front.                 *)
LEMMA SnapshotFacts ==
  ASSUME NEW T, frames \in Seq(T), NEW q, hint[q] \in Nat
  PROVE  /\ Snapshot(q) \in Seq(T)
         /\ Window(q) # <<>> => /\ Snapshot(q) # <<>>
                                /\ Last(Snapshot(q)) = Last(Window(q))
  <1> DEFINE w == Window(q)
             h == hint[q]
             m == Len(w) - h + 1
  <1>1. w \in Seq(T) /\ Len(w) \in Nat
    BY WindowType
  <1>2. CASE 0 < h /\ h < Len(w)
    <2>1. Snapshot(q) = SubSeq(w, m, Len(w))
      BY <1>2 DEF Snapshot, LastOf
    <2> HIDE DEF w
    <2>2. m \in 1..Len(w) /\ Len(w) - m + 1 = h
      BY <1>1, <1>2
    <2>3. \A j \in m..Len(w) : w[j] \in T
      BY <1>1, <2>2
    <2>4. m \in Int /\ Len(w) \in Int /\ m <= Len(w)
      BY <1>1, <2>2
    <2>5. m + h - 1 = Len(w)
      BY <1>1
    <2> HIDE DEF m
    <2>6. /\ SubSeq(w, m, Len(w)) \in Seq(T)
          /\ Len(SubSeq(w, m, Len(w))) = Len(w) - m + 1
          /\ \A j \in 1..(Len(w) - m + 1) : SubSeq(w, m, Len(w))[j] = w[m + j - 1]
      BY <2>3, <2>4, SubSeqProperties
    <2>7. Len(Snapshot(q)) = h /\ h \in 1..h
      BY <1>2, <2>1, <2>2, <2>6
    <2>8. Snapshot(q)[h] = w[Len(w)]
      BY <2>1, <2>2, <2>5, <2>6, <2>7
    <2>9. Snapshot(q) # <<>>
      BY <1>2, <2>7
    <2> QED
      BY <2>1, <2>6, <2>7, <2>8, <2>9 DEF Last, w
  <1>3. CASE ~(0 < h /\ h < Len(w))
    BY <1>1, <1>3 DEF Snapshot
  <1> QED
    BY <1>2, <1>3
-----------------------------------------------------------------------------
(* The rest of TypeOK: the clock and the buffer, the queries, the flags.   *)
BufferType ==
  /\ now \in Times
  /\ flight \in SUBSET Times
  /\ frames \in Seq(Times) /\ Len(frames) <= MaxBuffered

QueryType ==
  /\ trigger \in [Queries -> 0..MaxTime]
  /\ hint \in [Queries -> Hints \cup {0}]
  /\ used \in [Queries -> Seq(Times)]

FlagType == event \in BOOLEAN /\ open \in BOOLEAN /\ loaded \in BOOLEAN

LEMMA TypeParts == TypeOK <=> TypeInv /\ BufferType /\ QueryType /\ FlagType
  <1>1. ASSUME BufferType, QueryType
        PROVE  /\ now \in Nat /\ flight \subseteq Nat /\ frames \in Seq(Nat)
               /\ trigger \in [Queries -> Nat]
    <2>1. Times \subseteq Nat /\ 0..MaxTime \subseteq Nat
      BY WindowAssumption DEF Times
    <2>2. frames \in Seq(Nat)
      BY <1>1, <2>1, SeqMonotonic DEF BufferType
    <2> QED
      BY <1>1, <2>1, <2>2 DEF BufferType, QueryType
  <1>2. ASSUME TypeOK PROVE BufferType /\ QueryType /\ FlagType
    BY <1>2 DEF TypeOK, BufferType, QueryType, FlagType
  <1>3. ASSUME TypeOK PROVE TypeInv
    BY <1>1, <1>2, <1>3 DEF TypeOK, TypeInv, Responses
  <1>4. ASSUME TypeInv, BufferType, QueryType, FlagType PROVE TypeOK
    BY <1>4 DEF TypeOK, TypeInv, BufferType, QueryType, FlagType, Responses
  <1> QED
    BY <1>2, <1>3, <1>4

LEMMA HintType ==
  ASSUME QueryType, NEW q \in Queries
  PROVE  hint[q] \in Nat
  <1>1. hint[q] \in Hints \cup {0}
    BY DEF QueryType
  <1>2. \A h \in Hints \cup {0} : h \in Nat
    BY WindowAssumption
  <1> QED
    BY <1>1, <1>2

(* A full deque drops its oldest frame, so it never holds more than        *)
(* MaxBuffered.                                                            *)
LEMMA BufferTypeStep == TypeOK /\ [Next]_vars => BufferType'
  <1> SUFFICES ASSUME BufferType, [Next]_vars PROVE BufferType'
    BY TypeParts
  <1> USE WindowAssumption DEF BufferType, Times
  <1>1. CASE Capture
    BY <1>1 DEF Capture
  <1>2. ASSUME NEW f \in flight, LoseFrame(f) PROVE BufferType'
    BY <1>2 DEF LoseFrame
  <1>3. ASSUME NEW f \in flight, on_frame_packet(f) PROVE BufferType'
    <2>1. f \in Times /\ frames' = Push(f)
      BY <1>3 DEF on_frame_packet
    <2>2. CASE Len(frames) < MaxBuffered
      <3>1. frames' = Append(frames, f)
        BY <2>1, <2>2 DEF Push
      <3>2. frames' \in Seq(Times) /\ Len(frames') = Len(frames) + 1
        BY <2>1, <3>1
      <3> QED
        BY <1>3, <2>2, <3>2 DEF on_frame_packet
    <2>3. CASE ~(Len(frames) < MaxBuffered)
      <3>1. Len(frames) = MaxBuffered /\ frames # <<>>
        BY <2>3
      <3>2. Tail(frames) \in Seq(Times) /\ Len(Tail(frames)) = MaxBuffered - 1
        BY <3>1
      <3>3. frames' = Append(Tail(frames), f)
        BY <2>1, <2>3 DEF Push
      <3>4. frames' \in Seq(Times) /\ Len(frames') = MaxBuffered
        BY <2>1, <3>2, <3>3
      <3> QED
        BY <1>3, <3>4 DEF on_frame_packet
    <2> QED
      BY <2>2, <2>3
  <1>4. CASE Tick
    BY <1>4 DEF Tick
  <1>5. CASE UNCHANGED <<now, flight, frames>>
    BY <1>5
  <1>6. ASSUME NEW q \in Queries, on_control_message(q) \/ TaskStep(q)
                                    \/ Chunk(q) \/ Finish(q)
        PROVE  BufferType'
    BY <1>5, <1>6 DEF on_control_message, TaskStep, RunQuery, TimeOut, Load,
                      Chunk, Finish
  <1>7. CASE Close \/ UNCHANGED vars
    BY <1>5, <1>7 DEF Close, vars
  <1> QED
    BY <1>1, <1>2, <1>3, <1>4, <1>6, <1>7 DEF Next

LEMMA QueryTypeStep == TypeOK /\ [Next]_vars => QueryType'
  <1> SUFFICES ASSUME BufferType, QueryType, [Next]_vars PROVE QueryType'
    BY TypeParts
  <1> USE WindowAssumption DEF QueryType
  <1>1. ASSUME NEW q \in Queries, on_control_message(q) PROVE QueryType'
    <2>1. \A t \in 0..now : t \in 0..MaxTime
      BY DEF BufferType, Times
    <2>2. trigger' \in [Queries -> 0..MaxTime]
      BY <1>1, <2>1 DEF on_control_message
    <2>3. hint' \in [Queries -> Hints \cup {0}] /\ used' = used
      BY <1>1 DEF on_control_message
    <2> QED
      BY <2>2, <2>3
  <1>2. ASSUME NEW q \in Queries, Proceed(q)
        PROVE  used' \in [Queries -> Seq(Times)]
    <2>1. hint[q] \in Nat
      BY HintType
    <2>2. Snapshot(q) \in Seq(Times)
      BY <2>1, SnapshotFacts DEF BufferType
    <2> QED
      BY <1>2, <2>2 DEF Proceed
  <1>3. ASSUME NEW q \in Queries, RunQuery(q) \/ TimeOut(q) PROVE QueryType'
    BY <1>2, <1>3 DEF RunQuery, TimeOut
  <1>4. CASE UNCHANGED <<trigger, hint, used>>
    BY <1>4
  <1>5. ASSUME NEW q \in Queries, Load(q) \/ Chunk(q) \/ Finish(q)
        PROVE  QueryType'
    BY <1>4, <1>5 DEF Load, Chunk, Finish
  <1>6. ASSUME NEW f \in flight, LoseFrame(f) \/ on_frame_packet(f)
        PROVE  QueryType'
    BY <1>4, <1>6 DEF LoseFrame, on_frame_packet
  <1>7. CASE Capture \/ Close \/ Tick \/ UNCHANGED vars
    BY <1>4, <1>7 DEF Capture, Close, Tick, vars
  <1> QED
    BY <1>1, <1>3, <1>5, <1>6, <1>7 DEF Next, TaskStep

LEMMA FlagTypeStep == TypeOK /\ [Next]_vars => FlagType'
  <1> SUFFICES ASSUME FlagType, [Next]_vars PROVE FlagType'
    BY TypeParts
  <1> USE DEF FlagType
  <1>1. CASE UNCHANGED <<event, open, loaded>>
    BY <1>1
  <1>2. ASSUME NEW f \in flight, LoseFrame(f) \/ on_frame_packet(f)
        PROVE  FlagType'
    BY <1>2 DEF LoseFrame, on_frame_packet
  <1>3. ASSUME NEW q \in Queries, RunQuery(q) PROVE FlagType'
    BY <1>3 DEF RunQuery
  <1>4. ASSUME NEW q \in Queries, Load(q) PROVE FlagType'
    BY <1>4 DEF Load
  <1>5. CASE Close
    BY <1>5 DEF Close
  <1>6. ASSUME NEW q \in Queries, on_control_message(q) \/ TimeOut(q)
                                    \/ Chunk(q) \/ Finish(q)
        PROVE  FlagType'
    BY <1>1, <1>6 DEF on_control_message, TimeOut, Chunk, Finish
  <1>7. CASE Capture \/ Tick \/ UNCHANGED vars
    BY <1>1, <1>7 DEF Capture, Tick, vars
  <1> QED
    BY <1>2, <1>3, <1>4, <1>5, <1>6, <1>7 DEF Next, TaskStep

(* Every variable keeps its type: in particular the buffer never exceeds   *)
(* MAX_BUFFERED_FRAMES, and the snapshot given to the engine consists of   *)
(* frames that were captured.                                              *)
THEOREM TypeCorrect == Spec => []TypeOK
  <1>1. Init => TypeOK
    <2> SUFFICES ASSUME Init PROVE TypeInv /\ BufferType /\ QueryType /\ FlagType
      BY TypeParts
    <2>1. TypeInv
      BY DEF Init, TypeInv, TaskPoints
    <2>2. BufferType
      BY WindowAssumption DEF Init, BufferType, Times
    <2>3. QueryType
      BY WindowAssumption DEF Init, QueryType
    <2>4. FlagType
      BY DEF Init, FlagType
    <2> QED
      BY <2>1, <2>2, <2>3, <2>4
  <1>2. TypeOK /\ [Next]_vars => TypeOK'
    <2>1. TypeOK' <=> TypeInv' /\ BufferType' /\ QueryType' /\ FlagType'
      BY TypeParts, PTL
    <2>2. TypeOK => TypeInv
      BY TypeParts
    <2> QED
      BY <2>1, <2>2, TypeStep, BufferTypeStep, QueryTypeStep, FlagTypeStep
  <1> QED
    BY <1>1, <1>2, PTL DEF Spec

-----------------------------------------------------------------------------
(* Whenever a wait is over, by a frame, by its deadline or because there   *)
(* is no trigger, the last frame the engine is given is the newest one in  *)
(* the buffer that the query wants (webrtc_server.py, on_control_message). *)
THEOREM NewestGiven == Spec => NewestIsGiven
  <1>1. ASSUME TypeOK, [Next]_vars, NEW p \in Queries, WaitIsOver(p),
               NEW i \in Wanted(p), \A j \in Wanted(p) : j <= i
        PROVE  used'[p] # <<>> /\ Last(used'[p]) = frames[i]
    <2>t. TypeInv /\ BufferType /\ QueryType
      BY <1>1, TypeParts
    <2>p. ASSUME Proceed(p)
          PROVE  used'[p] # <<>> /\ Last(used'[p]) = frames[i]
      <3>1. used'[p] = Snapshot(p)
        BY <2>p, <2>t DEF Proceed, QueryType
      <3>2. hint[p] \in Nat
        BY <2>t, HintType
      <3>3. Window(p) # <<>> /\ Last(Window(p)) = frames[i]
        BY <1>1, <2>t, WindowLast DEF BufferType
      <3> QED
        BY <2>t, <3>1, <3>2, <3>3, SnapshotFacts DEF BufferType
    <2> QED
      BY <1>1, <2>t, <2>p, WaitEnds
  <1>2. TypeOK /\ [Next]_vars =>
          [\A q \in Queries : WaitIsOver(q) =>
             \A i \in Wanted(q) : (\A j \in Wanted(q) : j <= i) =>
               used'[q] # <<>> /\ Last(used'[q]) = frames[i]]_vars
    BY <1>1
  <1> QED
    BY <1>2, TypeCorrect, PTL DEF Spec, NewestIsGiven

-----------------------------------------------------------------------------
(* The refinement of AnswerTasks.  A step that neither sends nor closes    *)
(* the channel, and moves no task across "new" or "ended", is invisible.   *)
LEMMA TasksKept ==
  ASSUME UNCHANGED <<answer, open>>,
         \A q \in Queries : /\ st'[q] = "new" <=> st[q] = "new"
                            /\ st'[q] = "ended" <=> st[q] = "ended"
  PROVE  UNCHANGED Tasks!taskVars
  <1>1. \A q \in Queries : TaskStatus(q)' = TaskStatus(q)
    BY DEF TaskStatus
  <1> QED
    BY <1>1 DEF Tasks!taskVars

(* Sending is a response of the task, or invisible when the channel has    *)
(* closed.                                                                 *)
LEMMA SendResponds ==
  ASSUME TypeInv, NEW q \in Queries, NEW done \in BOOLEAN, Send(q, done),
         st[q] \in {"loading", "generating"}, UNCHANGED open,
         Len(answer[q]) < MaxChunks \/ done
  PROVE  Tasks!Respond(q, done) \/ UNCHANGED Tasks!taskVars
  <1>1. CASE ~open
    <2>1. answer' = answer /\ st' = [st EXCEPT ![q] = "dead"]
      BY <1>1 DEF Send
    <2> QED
      BY <2>1, TasksKept DEF TypeInv
  <1>2. CASE open
    <2> DEFINE r == [chunk |-> Len(answer[q]), done |-> done]
    <2>1. /\ answer' = [answer EXCEPT ![q] = Append(answer[q], r)]
          /\ st' = [st EXCEPT ![q] = IF done THEN "ended" ELSE st[q]]
      BY <1>2 DEF Send, TypeInv
    <2>2. r \in Responses /\ answer[q] \in Seq(Responses)
      BY DEF TypeInv, Responses
    <2> HIDE DEF r
    <2>3. /\ Len(answer'[q]) = Len(answer[q]) + 1
          /\ \A p \in Queries \ {q} : answer'[p] = answer[p]
      BY <2>1, <2>2 DEF TypeInv
    <2>4. [p \in Queries |-> Len(answer[p])]'
            = [[p \in Queries |-> Len(answer[p])] EXCEPT ![q] = @ + 1]
      BY <2>3
    <2>5. /\ TaskStatus(q) = "running"
          /\ TaskStatus(q)' = IF done THEN "ended" ELSE "running"
          /\ \A p \in Queries \ {q} : TaskStatus(p)' = TaskStatus(p)
      BY <1>2, <2>1 DEF TypeInv, TaskStatus
    <2>6. [p \in Queries |-> TaskStatus(p)]'
            = [[p \in Queries |-> TaskStatus(p)]
                 EXCEPT ![q] = IF done THEN "ended" ELSE "running"]
      BY <2>5
    <2> QED
      BY <2>4, <2>5, <2>6 DEF Tasks!Respond
  <1> QED
    BY <1>1, <1>2

LEMMA TasksStep == TypeInv /\ [Next]_vars => [Tasks!Next]_(Tasks!taskVars)
  <1> SUFFICES ASSUME TypeInv, [Next]_vars
               PROVE  [Tasks!Next]_(Tasks!taskVars)
    OBVIOUS
  <1>1. CASE Capture \/ Tick \/ UNCHANGED vars
    BY <1>1, TasksKept DEF Capture, Tick, vars
  <1>2. ASSUME NEW f \in flight, LoseFrame(f) \/ on_frame_packet(f)
        PROVE  UNCHANGED Tasks!taskVars
    <2>1. UNCHANGED <<answer, open>> /\ (st' = st \/ st' = WakeAll)
      BY <1>2 DEF LoseFrame, on_frame_packet
    <2> QED
      BY <2>1, TasksKept DEF WakeAll
  <1>3. ASSUME NEW q \in Queries, on_control_message(q) PROVE Tasks!Begin(q)
    <2>1. st[q] = "new" /\ open /\ st' = [st EXCEPT ![q] = "start"]
          /\ UNCHANGED <<answer, open>>
      BY <1>3 DEF on_control_message
    <2>2. /\ TaskStatus(q) = "none" /\ TaskStatus(q)' = "running"
          /\ \A p \in Queries \ {q} : TaskStatus(p)' = TaskStatus(p)
      BY <2>1 DEF TypeInv, TaskStatus
    <2>3. [p \in Queries |-> TaskStatus(p)]'
            = [[p \in Queries |-> TaskStatus(p)] EXCEPT ![q] = "running"]
      BY <2>2
    <2> QED
      BY <2>1, <2>2, <2>3 DEF Tasks!Begin
  <1>4. ASSUME NEW q \in Queries, RunQuery(q) \/ TimeOut(q)
        PROVE  UNCHANGED Tasks!taskVars
    <2>1. UNCHANGED <<answer, open>> /\ st[q] \in {"start", "woken", "blocked"}
      BY <1>4 DEF RunQuery, TimeOut
    <2>2. /\ st'[q] \in {"blocked", "loading", "generating"}
          /\ \A p \in Queries \ {q} : st'[p] = st[p]
      BY <1>4, ProceedMoves DEF RunQuery, TimeOut, TypeInv
    <2> QED
      BY <2>1, <2>2, TasksKept
  <1>5. ASSUME NEW q \in Queries, Load(q)
        PROVE  Tasks!Respond(q, TRUE) \/ UNCHANGED Tasks!taskVars
    <2>1. st[q] = "loading" /\ UNCHANGED open
      BY <1>5 DEF Load
    <2>2. CASE Send(q, TRUE)
      BY <2>1, <2>2, SendResponds
    <2>3. CASE st' = [st EXCEPT ![q] = "generating"] /\ UNCHANGED answer
      BY <2>1, <2>3, TasksKept DEF TypeInv
    <2> QED
      BY <1>5, <2>2, <2>3 DEF Load
  <1>6. ASSUME NEW q \in Queries, Chunk(q) \/ Finish(q)
        PROVE  \/ \E done \in BOOLEAN : Tasks!Respond(q, done)
               \/ UNCHANGED Tasks!taskVars
    BY <1>6, SendResponds DEF Chunk, Finish
  <1>7. CASE Close
    <2>1. open /\ ~open' /\ UNCHANGED <<st, answer>>
      BY <1>7 DEF Close
    <2>2. \A q \in Queries : TaskStatus(q)' =
            IF TaskStatus(q) = "running" THEN "lost" ELSE TaskStatus(q)
      BY <2>1 DEF TaskStatus
    <2>3. Tasks!Lose
      BY <2>1, <2>2 DEF Tasks!Lose
    <2> QED
      BY <2>3 DEF Tasks!Next
  <1> QED
    BY <1>1, <1>2, <1>3, <1>4, <1>5, <1>6, <1>7 DEF Next, TaskStep, Tasks!Next

(* A session is the server that the client's model is composed with:       *)
(* whatever its tasks wait for, load or fail at, they begin once, respond  *)
(* one by one up to the response marked done, and are silent once the      *)
(* channel has closed.                                                     *)
THEOREM Implements == Spec => ImplementsAnswerTasks
  <1>1. Init => Tasks!Init
    BY DEF Init, Tasks!Init, TaskStatus
  <1> QED
    BY <1>1, TasksStep, TypeInvariance, PTL
       DEF Spec, ImplementsAnswerTasks, Tasks!Spec
=============================================================================
