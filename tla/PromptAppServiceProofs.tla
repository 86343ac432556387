----------------------- MODULE PromptAppServiceProofs -----------------------
(***************************************************************************)
(* Proofs about PromptAppService: its type invariant, that sessions_ holds *)
(* exactly the open calls, that every stream carries its own query's       *)
(* answer in order, that the done chunk is never skipped, and that the     *)
(* service implements ResponseStream.                                      *)
(***************************************************************************)
EXTENDS PromptAppService, TLAPS

(* The parts of the actions that have a name of their own.                 *)
USE DEF SidOf, AfterError, Popped, MayLeave, Queued, ModeAfterQuery,
        Server!Respond, Server!Lose

-----------------------------------------------------------------------------
(* The inductive invariant.  A response travels chan -> dmsg -> buf.chunks *)
(* -> out -> written; for a call that still reads, the parts of its answer *)
(* found along that path are consecutive.                                  *)

(* Calls that still read, or will read, their buffer.                      *)
Reading == {h \in Handlers : pc[h] \in {"begin", "send", "wait", "write"}}

Taken(h) == Len(written[h]) + (IF pc[h] = "write" THEN 1 ELSE 0)
Held(h)  == IF dpc = "append" /\ dbuf = h THEN 1 ELSE 0

(* The chunk index the callback thread must see next for call h.           *)
NextIndex(h) == Taken(h) + Len(buf[h].chunks) + Held(h)

(* TypeOK is not inductive: what a call writes and where the callback      *)
(* thread appends must be known to exist.                                  *)
TypeInv ==
  /\ TypeOK
  /\ \A h \in Handlers : /\ pc[h] # "new" => sid[h] \in SessionIds
                         /\ task[h] # "none" => pc[h] # "new"
                         /\ pc[h] = "write" => out[h] \in Responses
  /\ dpc = "append" => dmsg \in Responses /\ dbuf \in Handlers

IdsInv ==
  /\ \A h \in Handlers :
       IF pc[h] = "new" THEN sid[h] = NoSid
       ELSE \/ ReqSid[h] # NoSid /\ sid[h] = ReqSid[h]
            \/ ReqSid[h] = NoSid /\ \E n \in 0..ctr : sid[h] = <<"sess", n>>
  /\ \A g, h \in Handlers :
       g # h /\ pc[g] # "new" /\ pc[h] # "new" => sid[g] # sid[h]

SessionsInv == sessions = {<<sid[h], h>> : h \in Registered}

(* Nothing is under way for a call that has not sent its query.            *)
UnsentInv ==
  \A h \in Handlers :
    pc[h] \in {"new", "begin", "send", "error"} =>
      /\ task[h] = "none"
      /\ sent[h] = 0
      /\ written[h] = <<>>
      /\ buf[h] = [chunks |-> <<>>, finished |-> FALSE]
      /\ dpc = "append" => dbuf # h

(* A response on the channel belongs to a call that sent its query.        *)
OwnerInv ==
  /\ \A i \in 1..Len(chan) :
       \E g \in Handlers : task[g] # "none" /\ chan[i].sid = sid[g]
  /\ dpc = "append" => dmsg.sid = sid[dbuf]

(* The responses of session s in q are numbered consecutively from n, all  *)
(* below m, in increasing order.                                           *)
Consecutive(q, s, n, m) ==
  /\ \A i \in 1..Len(q) :
       q[i].sid = s =>
         /\ n <= q[i].chunk
         /\ q[i].chunk < m
         /\ n < q[i].chunk => \E j \in 1..(i-1) : /\ q[j].sid = s
                                                 /\ q[j].chunk + 1 = q[i].chunk
  /\ \A i, j \in 1..Len(q) :
       i < j /\ q[i].sid = s /\ q[j].sid = s => q[i].chunk < q[j].chunk

(* ... and they go up to m - 1, if n is below m.                           *)
Reaches(q, s, n, m) ==
  n < m => \E j \in 1..Len(q) : q[j].sid = s /\ q[j].chunk + 1 = m

ChanOK(h) ==
  /\ Consecutive(chan, sid[h], NextIndex(h), sent[h])
  /\ NextIndex(h) <= sent[h]
  /\ task[h] = "running" => Reaches(chan, sid[h], NextIndex(h), sent[h])

BufOK(h) ==
  /\ \A i \in 1..Len(buf[h].chunks) : /\ buf[h].chunks[i].sid = sid[h]
                                      /\ buf[h].chunks[i].chunk + 1 = Taken(h) + i
  /\ dpc = "append" /\ dbuf = h => dmsg.chunk = Taken(h) + Len(buf[h].chunks)

PathInv == \A h \in Reading : ChanOK(h) /\ BufOK(h)

WriteInv ==
  \A h \in Handlers :
    /\ pc[h] = "write" => /\ out[h].sid = sid[h]
                          /\ out[h].chunk = Len(written[h])
    /\ h \in Reading => \A i \in 1..Len(written[h]) : ~written[h][i].done
    /\ pc[h] = "erase" => Stream!Ended(h) \/ cancelled[h]

FinishedInv ==
  \A h \in Handlers :
    pc[h] \in {"wait", "write"} /\ buf[h].finished =>
      \/ \E i \in 1..Len(buf[h].chunks) : buf[h].chunks[i].done
      \/ pc[h] = "write" /\ out[h].done

LinkInv == link = "down" => \A h \in Handlers : task[h] # "running"

(* The inductive invariant: on top of the types, sessions_ holds exactly   *)
(* the open calls, the answer of every reading call is spread without gap  *)
(* over stream, handler, buffer, callback thread and channel, and a        *)
(* finished buffer still has its done chunk ahead.                         *)
IInv ==
  /\ TypeInv
  /\ IdsInv
  /\ SessionsInv
  /\ UnsentInv /\ OwnerInv /\ LinkInv
  /\ PathInv
  /\ WriteInv /\ FinishedInv /\ StreamInOrder

-----------------------------------------------------------------------------
(* Types.  The prompt app, the handlers and the callback thread only ever  *)
(* hold responses that were sent, and the mode is one of the three.        *)
LEMMA TypeInvInit == Init => TypeInv
  BY ThreadAssumption
  DEF Init, ModeInit, TypeInv, TypeOK, ModeTypeOK, CaptureMode, Filters,
      CallPoints, HandlerPoints

LEMMA SendResponseTypes ==
  ASSUME TypeInv, NEW h \in Handlers, NEW text \in Texts, NEW done \in BOOLEAN,
         SendResponse(h, text, done)
  PROVE  TypeInv'
<1> USE DEF TypeInv, TypeOK
<1>1. [sid |-> sid[h], text |-> text, chunk |-> sent[h], done |-> done] \in Responses
  BY DEF SendResponse, Responses
<1>2. /\ chan' \in Seq(Responses)
      /\ sent' \in [Handlers -> Nat]
      /\ task' \in [Handlers -> {"none", "running", "ended", "lost"}]
      /\ \A g \in Handlers : task'[g] # "none" => task[g] # "none"
  BY <1>1 DEF SendResponse
<1> QED
  BY <1>2 DEF SendResponse, ModeTypeOK, modeVars, handlerVars, dispVars, linkVars

LEMMA WriteTypes ==
  ASSUME TypeInv, NEW h \in Handlers, NEW r \in Responses,
         WriteSucceeds(h, r) \/ WriteFails(h)
  PROVE  written' \in [Handlers -> Seq(Responses)]
<1>1. written \in [Handlers -> Seq(Responses)]
  BY DEF TypeInv, TypeOK
<1>2. CASE WriteSucceeds(h, r)
  <2>1. Append(written[h], r) \in Seq(Responses)
    BY <1>1
  <2> QED BY <1>1, <1>2, <2>1 DEF WriteSucceeds
<1>3. CASE WriteFails(h)
  BY <1>1, <1>3 DEF WriteFails
<1> QED
  BY <1>2, <1>3

LEMMA TypeInvStep == TypeInv /\ [Next]_vars => TypeInv'
<1> SUFFICES ASSUME TypeInv, [Next]_vars PROVE TypeInv'
  OBVIOUS
<1> USE DEF TypeInv, TypeOK, ModeTypeOK, modeVars, handlerVars, dispVars, linkVars,
            serverVars
<1>1. CASE Next
  <2>1. ASSUME NEW h \in Handlers, RegisterSession(h) PROVE TypeInv'
    <3> DEFINE s == IF ReqSid[h] = NoSid THEN <<"sess", ctr + 1>> ELSE ReqSid[h]
    <3>1. s \in SessionIds
      BY SessionIdAssumption DEF SessionIds
    <3>2. sessions' \in SUBSET (SessionIds \X Handlers)
      <4>1. sessions' = {e \in sessions : e[1] # s} \cup {<<s, h>>}
        BY <2>1 DEF RegisterSession
      <4> HIDE DEF s
      <4> QED BY <3>1, <4>1
    <3>3. /\ sid' = [sid EXCEPT ![h] = s]
          /\ ctr' \in Nat
          /\ pc' = [pc EXCEPT ![h] = "begin"]
          /\ UNCHANGED <<modeVars, buf, out, written, cancelled, dispVars,
                         linkVars, chan, serverVars>>
      BY <2>1 DEF RegisterSession
    <3> HIDE DEF s
    <3> QED BY <3>1, <3>2, <3>3 DEF HandlerPoints
  <2>2. ASSUME NEW h \in Handlers, CallBeginQuery(h) PROVE TypeInv'
    BY <2>2 DEF CallBeginQuery, BeginQuery, CaptureMode, HandlerPoints
  <2>3. ASSUME NEW h \in Handlers, SendQuery(h) PROVE TypeInv'
    BY <2>3 DEF SendQuery, HandlerPoints
  <2>4. ASSUME NEW h \in Handlers, WriteError(h) PROVE TypeInv'
    <3>1. [sid |-> sid[h], text |-> "not ready", chunk |-> 0, done |-> TRUE] \in Responses
      BY <2>4 DEF WriteError, Responses, Texts
    <3>2. written' \in [Handlers -> Seq(Responses)]
      BY <2>4, <3>1, WriteTypes DEF WriteError
    <3> QED BY <2>4, <3>2 DEF WriteError, HandlerPoints
  <2>5. ASSUME NEW h \in Handlers, TakeChunk(h) PROVE TypeInv'
    <3>1. /\ Head(buf[h].chunks) \in Responses
          /\ Tail(buf[h].chunks) \in Seq(Responses)
      BY <2>5 DEF TakeChunk
    <3>2. /\ buf' \in [Handlers -> [chunks : Seq(Responses), finished : BOOLEAN]]
          /\ out' = [out EXCEPT ![h] = Head(buf[h].chunks)]
      BY <2>5, <3>1 DEF TakeChunk
    <3> QED BY <2>5, <3>1, <3>2 DEF TakeChunk, HandlerPoints
  <2>6. ASSUME NEW h \in Handlers, LeaveWait(h) PROVE TypeInv'
    BY <2>6 DEF LeaveWait, HandlerPoints
  <2>7. ASSUME NEW h \in Handlers, WriteChunk(h) PROVE TypeInv'
    <3>0. written' \in [Handlers -> Seq(Responses)]
      BY <2>7, WriteTypes DEF WriteChunk
    <3>1. /\ out' \in [Handlers -> Responses \cup {None}]
          /\ \A g \in Handlers : g # h => out'[g] = out[g]
      BY <2>7 DEF WriteChunk
    <3>2. \/ pc' = [pc EXCEPT ![h] = "erase"]
          \/ pc' = [pc EXCEPT ![h] = "wait"]
      BY <2>7 DEF WriteChunk
    <3> QED BY <2>7, <3>0, <3>1, <3>2 DEF WriteChunk, HandlerPoints
  <2>8. ASSUME NEW h \in Handlers, EraseSession(h) PROVE TypeInv'
    BY <2>8 DEF EraseSession, HandlerPoints
  <2>9. ASSUME NEW h \in Handlers, Cancel(h) PROVE TypeInv'
    BY <2>9 DEF Cancel, HandlerPoints
  <2>10. ASSUME NEW h \in Handlers, ServerChunk(h) PROVE TypeInv'
    BY <2>10, SendResponseTypes DEF ServerChunk, Texts
  <2>11. ASSUME NEW h \in Handlers, ServerDone(h) PROVE TypeInv'
    BY <2>11, SendResponseTypes DEF ServerDone, Texts
  <2>12. ASSUME NEW n \in Notifiers, NotifyTyping(n) PROVE TypeInv'
    BY <2>12 DEF NotifyTyping, SetTyping, CallPoints, Threads
  <2>13. ASSUME NEW t \in Threads, ModeCallStep(t) PROVE TypeInv'
    BY <2>13 DEF ModeCallStep, CallStep, StoreTyping, StoreIdle, ResetScd, ResetAff, CallPoints, CaptureMode, Filters
  <2>14. ASSUME Dispatch PROVE TypeInv'
    <3>1. Head(chan) \in Responses /\ Tail(chan) \in Seq(Responses)
      BY <2>14 DEF Dispatch
    <3> QED BY <2>14, <3>1 DEF Dispatch
  <2>15. ASSUME AppendChunk PROVE TypeInv'
    BY <2>15 DEF AppendChunk, HandlerPoints
  <2>16. ASSUME CallEndQuery PROVE TypeInv'
    BY <2>16 DEF CallEndQuery, EndQuery, CaptureMode, CallPoints, Threads, HandlerPoints
  <2>17. ASSUME Grab PROVE TypeInv'
    BY <1>1, <2>17, SessionIdAssumption, ThreadAssumption DEF Grab, GrabPrimes, HandlerPoints
  <2>18. ASSUME Drop PROVE TypeInv'
    BY <2>18 DEF Drop, HandlerPoints
  <2>19. ASSUME Connect PROVE TypeInv'
    BY <2>19 DEF Connect, HandlerPoints
  <2> QED
    BY <1>1, <2>1, <2>2, <2>3, <2>4, <2>5, <2>6, <2>7, <2>8, <2>9, <2>10, <2>11, <2>12, <2>13, <2>14, <2>15, <2>16, <2>17, <2>18, <2>19
    DEF Next, HandlerStep, RtcStep, Threads
<1>2. CASE UNCHANGED vars
  BY <1>2 DEF vars
<1> QED
  BY <1>1, <1>2

(* Every value the threads exchange has its type: in particular no call    *)
(* writes, and no buffer receives, anything but a response.                *)
THEOREM TypeCorrect == Spec => []TypeOK
<1>1. Spec => []TypeInv
  BY TypeInvInit, TypeInvStep, PTL DEF Spec
<1>2. TypeInv => TypeOK
  BY DEF TypeInv
<1> QED
  BY <1>1, <1>2, PTL

-----------------------------------------------------------------------------
(* Session ids and sessions_.                                              *)

(* Only RegisterSession gives a call its session id, and only it and       *)
(* EraseSession touch sessions_.                                           *)
KeepsSessions ==
  /\ UNCHANGED <<sid, ctr>>
  /\ \A g \in Handlers : pc'[g] = "new" <=> pc[g] = "new"
  /\ \/ \E h \in Handlers : EraseSession(h)
     \/ /\ UNCHANGED sessions
        /\ \A g \in Handlers : pc'[g] = "returned" <=> pc[g] = "returned"

LEMMA SessionFrame ==
  ASSUME TypeInv, [Next]_vars, \A h \in Handlers : ~RegisterSession(h)
  PROVE  KeepsSessions
<1>0. pc \in [Handlers -> HandlerPoints]
  BY DEF TypeInv, TypeOK
<1>1. ASSUME NEW h \in Handlers,
             CallBeginQuery(h) \/ SendQuery(h) \/ WriteError(h) \/ TakeChunk(h)
               \/ LeaveWait(h) \/ WriteChunk(h)
      PROVE  KeepsSessions
  BY <1>0, <1>1 DEF KeepsSessions, CallBeginQuery, SendQuery, WriteError, TakeChunk, LeaveWait, WriteChunk
<1>2. ASSUME NEW h \in Handlers, EraseSession(h) PROVE KeepsSessions
  <2>1. pc' = [pc EXCEPT ![h] = "returned"] /\ pc[h] = "erase" /\ UNCHANGED <<sid, ctr>>
    BY <1>2 DEF EraseSession
  <2> QED BY <1>0, <1>2, <2>1 DEF KeepsSessions
<1>3. ASSUME NEW h \in Handlers, Cancel(h) \/ ServerChunk(h) \/ ServerDone(h) PROVE KeepsSessions
  BY <1>0, <1>3 DEF KeepsSessions, Cancel, ServerChunk, ServerDone, SendResponse, handlerVars
<1>4. CASE \/ \E n \in Notifiers : NotifyTyping(n) \/ ModeCallStep(n)
           \/ RtcStep \/ Grab \/ Drop \/ Connect
  BY <1>0, <1>4
  DEF KeepsSessions, NotifyTyping, ModeCallStep, RtcStep, Dispatch, AppendChunk, CallEndQuery, Grab, Drop,
      Connect, handlerVars
<1>5. CASE UNCHANGED vars
  BY <1>0, <1>5 DEF KeepsSessions, vars, handlerVars
<1> QED
  BY <1>1, <1>2, <1>3, <1>4, <1>5 DEF Next, HandlerStep

(* The session id a call registers under is used by no call before it.     *)
LEMMA FreshSid ==
  ASSUME TypeInv, IdsInv, NEW h \in Handlers, RegisterSession(h),
         NEW g \in Handlers, pc[g] # "new"
  PROVE  sid[g] # sid'[h]
<1>1. g # h
  BY DEF RegisterSession
<1>2. sid'[h] = IF ReqSid[h] = NoSid THEN <<"sess", ctr + 1>> ELSE ReqSid[h]
  BY DEF RegisterSession, TypeInv, TypeOK
<1>3. \/ ReqSid[g] # NoSid /\ sid[g] = ReqSid[g]
      \/ ReqSid[g] = NoSid /\ \E n \in 0..ctr : sid[g] = <<"sess", n>>
  BY DEF IdsInv
<1>4. ReqSid[g] # NoSid => ReqSid[g] \in Sids
  BY SessionIdAssumption
<1>5. ReqSid[h] # NoSid => ReqSid[h] \in Sids
  BY SessionIdAssumption
<1>6. ctr \in Nat
  BY DEF TypeInv, TypeOK
<1>7. \A n \in Nat : <<"sess", n>> \notin Sids
  BY SessionIdAssumption
<1>8. ReqSid[g] = ReqSid[h] => ReqSid[h] = NoSid
  BY <1>1, SessionIdAssumption
<1> QED
  BY <1>2, <1>3, <1>4, <1>5, <1>6, <1>7, <1>8

LEMMA IdsInvStep == TypeInv /\ IdsInv /\ [Next]_vars => IdsInv'
<1> SUFFICES ASSUME TypeInv, IdsInv, [Next]_vars PROVE IdsInv'
  OBVIOUS
<1>1. ASSUME NEW h \in Handlers, RegisterSession(h) PROVE IdsInv'
  <2>1. /\ pc' = [pc EXCEPT ![h] = "begin"]
        /\ \A g \in Handlers : g # h => sid'[g] = sid[g]
        /\ ctr \in Nat /\ ctr' \in Nat /\ ctr <= ctr'
    BY <1>1 DEF RegisterSession, TypeInv, TypeOK
  <2>2. \/ ReqSid[h] # NoSid /\ sid'[h] = ReqSid[h]
        \/ ReqSid[h] = NoSid /\ \E n \in 0..ctr' : sid'[h] = <<"sess", n>>
    <3>1. sid'[h] = IF ReqSid[h] = NoSid THEN <<"sess", ctr + 1>> ELSE ReqSid[h]
      BY <1>1 DEF RegisterSession, TypeInv, TypeOK
    <3>2. ReqSid[h] = NoSid => ctr + 1 \in 0..ctr'
      BY <1>1, <2>1 DEF RegisterSession
    <3> QED BY <3>1, <3>2
  <2>3. \A g \in Handlers : pc[g] # "new" => sid[g] # sid'[h]
    BY <1>1, FreshSid
  <2>4. pc \in [Handlers -> HandlerPoints]
    BY DEF TypeInv, TypeOK
  <2>5. \A g \in Handlers : g # h => pc'[g] = pc[g]
    BY <2>1, <2>4
  <2>6. pc'[h] # "new"
    BY <2>1, <2>4
  <2>7. ASSUME NEW g \in Handlers
        PROVE IF pc'[g] = "new" THEN sid'[g] = NoSid
              ELSE \/ ReqSid[g] # NoSid /\ sid'[g] = ReqSid[g]
                   \/ ReqSid[g] = NoSid /\ \E n \in 0..ctr' : sid'[g] = <<"sess", n>>
    BY <2>1, <2>2, <2>5, <2>6 DEF IdsInv
  <2>8. ASSUME NEW f \in Handlers, NEW g \in Handlers, f # g, pc'[f] # "new", pc'[g] # "new"
        PROVE  sid'[f] # sid'[g]
    BY <2>1, <2>3, <2>5, <2>8 DEF IdsInv
  <2> QED BY <2>7, <2>8 DEF IdsInv
<1>2. CASE \A h \in Handlers : ~RegisterSession(h)
  BY <1>2, SessionFrame DEF IdsInv, KeepsSessions
<1> QED
  BY <1>1, <1>2

LEMMA SessionsInvStep ==
  TypeInv /\ IdsInv /\ SessionsInv /\ [Next]_vars => SessionsInv'
<1> SUFFICES ASSUME TypeInv, IdsInv, SessionsInv, [Next]_vars PROVE SessionsInv'
  OBVIOUS
<1>0. pc \in [Handlers -> HandlerPoints]
  BY DEF TypeInv, TypeOK
<1>1. ASSUME NEW h \in Handlers, RegisterSession(h) PROVE SessionsInv'
  <2>1. \A g \in Registered : sid[g] # sid'[h]
    BY <1>1, FreshSid DEF Registered
  <2>2. sessions' = {e \in sessions : e[1] # sid'[h]} \cup {<<sid'[h], h>>}
    BY <1>1 DEF RegisterSession, TypeInv, TypeOK
  <2>3. sessions' = sessions \cup {<<sid'[h], h>>}
    BY <2>1, <2>2 DEF SessionsInv
  <2>4. /\ Registered' = Registered \cup {h}
        /\ \A g \in Registered : sid'[g] = sid[g]
    BY <1>0, <1>1 DEF RegisterSession, TypeInv, TypeOK, Registered
  <2> QED BY <2>3, <2>4 DEF SessionsInv
<1>2. ASSUME NEW h \in Handlers, EraseSession(h) PROVE SessionsInv'
  <2>1. /\ Registered' = Registered \ {h}
        /\ h \in Registered
    BY <1>0, <1>2 DEF EraseSession, Registered
  <2>2. \A g \in Registered : g # h => sid[g] # sid[h]
    BY <2>1 DEF IdsInv, Registered
  <2>3. sid' = sid /\ sessions' = {e \in sessions : e[1] # sid[h]}
    BY <1>2 DEF EraseSession
  <2> QED BY <2>1, <2>2, <2>3 DEF SessionsInv
<1>3. CASE \A h \in Handlers : ~RegisterSession(h) /\ ~EraseSession(h)
  BY <1>3, SessionFrame DEF KeepsSessions, SessionsInv, Registered
<1> QED
  BY <1>1, <1>2, <1>3

(* sessions_ holds exactly the calls that have not returned, each under    *)
(* its own id, so no buffer outlives its call and no call's EraseSession   *)
(* removes another's buffer.                                               *)
THEOREM SessionsExact == Spec => []NoOrphanSession
<1>1. Init => IdsInv /\ SessionsInv
  BY DEF Init, IdsInv, SessionsInv, Registered
<1>2. TypeInv /\ IdsInv /\ SessionsInv /\ [Next]_vars => (TypeInv /\ IdsInv /\ SessionsInv)'
  BY TypeInvStep, IdsInvStep, SessionsInvStep
<1>3. SessionsInv => NoOrphanSession
  BY DEF SessionsInv, NoOrphanSession
<1> QED
  BY <1>1, <1>2, <1>3, TypeInvInit, PTL DEF Spec

-----------------------------------------------------------------------------
(* Facts about sequences.                                                  *)
LEMMA TailFacts ==
  ASSUME NEW S, NEW q \in Seq(S), q # <<>>
  PROVE  /\ Head(q) = q[1]
         /\ Tail(q) \in Seq(S)
         /\ Len(q) \in Nat /\ Len(q) >= 1
         /\ Len(Tail(q)) = Len(q) - 1
         /\ \A i \in 1..(Len(q) - 1) : Tail(q)[i] = q[i + 1]
  OBVIOUS

LEMMA AppendFacts ==
  ASSUME NEW S, NEW q \in Seq(S), NEW e \in S
  PROVE  /\ Append(q, e) \in Seq(S)
         /\ Len(q) \in Nat
         /\ Len(Append(q, e)) = Len(q) + 1
         /\ \A i \in 1..Len(q) : Append(q, e)[i] = q[i]
         /\ Append(q, e)[Len(q) + 1] = e
  OBVIOUS

LEMMA PrefixFacts ==
  ASSUME NEW S, NEW q \in Seq(S), NEW k \in 0..Len(q)
  PROVE  /\ SubSeq(q, 1, k) \in Seq(S)
         /\ Len(SubSeq(q, 1, k)) = k
         /\ \A i \in 1..k : SubSeq(q, 1, k)[i] = q[i]
  OBVIOUS

-----------------------------------------------------------------------------
(* Who is under way on the channel and in the callback thread.             *)
WayInv == UnsentInv /\ OwnerInv /\ LinkInv

(* The call DispatchChunk finds sent its query, and the response is its.   *)
LEMMA DispatchFinds ==
  ASSUME TypeInv, IdsInv, SessionsInv, WayInv, Dispatch, NEW h \in Handlers,
         <<Head(chan).sid, h>> \in sessions
  PROVE  h \in Registered /\ Head(chan).sid = sid[h] /\ task[h] # "none"
<1>1. h \in Registered /\ Head(chan).sid = sid[h]
  BY DEF SessionsInv
<1>2. chan \in Seq(Responses) /\ chan # <<>>
  BY DEF TypeInv, TypeOK, Dispatch
<1>3. Head(chan) = chan[1] /\ 1 \in 1..Len(chan)
  BY <1>2, TailFacts
<1>4. PICK g \in Handlers : task[g] # "none" /\ chan[1].sid = sid[g]
  BY <1>3 DEF WayInv, OwnerInv
<1>5. pc[g] # "new" /\ pc[h] # "new"
  BY <1>1, <1>4 DEF TypeInv, Registered
<1>6. g = h
  BY <1>1, <1>3, <1>4, <1>5 DEF IdsInv
<1> QED
  BY <1>1, <1>4, <1>6

LEMMA UnsentInvStep ==
  TypeInv /\ IdsInv /\ SessionsInv /\ WayInv /\ [Next]_vars => UnsentInv'
<1> SUFFICES ASSUME TypeInv, IdsInv, SessionsInv, WayInv, [Next]_vars PROVE UnsentInv'
  OBVIOUS
<1>0. UnsentInv /\ TypeOK
  BY DEF WayInv, TypeInv
<1>1. ASSUME NEW h \in Handlers, RegisterSession(h) PROVE UnsentInv'
  BY <1>0, <1>1 DEF RegisterSession, UnsentInv, TypeOK, dispVars, serverVars
<1>2. ASSUME NEW h \in Handlers, CallBeginQuery(h) \/ SendQuery(h) PROVE UnsentInv'
  BY <1>0, <1>2 DEF CallBeginQuery, SendQuery, UnsentInv, TypeOK, dispVars, serverVars
<1>3. ASSUME NEW h \in Handlers,
             WriteError(h) \/ TakeChunk(h) \/ LeaveWait(h) \/ WriteChunk(h) \/ EraseSession(h)
      PROVE  UnsentInv'
  <2>1. /\ pc[h] \in {"error", "wait", "write", "erase"}
        /\ pc'[h] \notin {"new", "begin", "send", "error"}
        /\ \A g \in Handlers : g # h => /\ pc'[g] = pc[g]
                                      /\ written'[g] = written[g]
                                      /\ buf'[g] = buf[g]
        /\ UNCHANGED <<task, sent, dpc, dbuf>>
    BY <1>0, <1>3
    DEF WriteError, TakeChunk, LeaveWait, WriteChunk, EraseSession, WriteSucceeds, WriteFails,
        TypeOK, dispVars, serverVars
  <2> QED BY <1>0, <2>1 DEF UnsentInv
<1>4. ASSUME NEW h \in Handlers, ServerChunk(h) \/ ServerDone(h) PROVE UnsentInv'
  <2>1. /\ task[h] = "running"
        /\ \A g \in Handlers : g # h => task'[g] = task[g] /\ sent'[g] = sent[g]
        /\ UNCHANGED <<pc, written, buf, dpc, dbuf>>
    BY <1>0, <1>4 DEF ServerChunk, ServerDone, SendResponse, TypeOK, handlerVars, dispVars
  <2> QED BY <1>0, <2>1 DEF UnsentInv
<1>5. ASSUME Dispatch PROVE UnsentInv'
  <2>1. UNCHANGED <<pc, written, buf, task, sent>>
    BY <1>5 DEF Dispatch, handlerVars, serverVars
  <2>2. dpc' = "append" => /\ dbuf' \in Handlers
                           /\ <<Head(chan).sid, dbuf'>> \in sessions
    BY <1>5 DEF Dispatch
  <2>3. dpc' = "append" => task[dbuf'] # "none"
    BY <1>5, <2>2, DispatchFinds
  <2> QED BY <1>0, <2>1, <2>3 DEF UnsentInv
<1>6. ASSUME AppendChunk PROVE UnsentInv'
  <2>1. /\ dpc = "append" /\ dbuf \in Handlers
        /\ dpc' # "append"
        /\ \A g \in Handlers : g # dbuf => buf'[g] = buf[g]
        /\ UNCHANGED <<pc, written, task, sent>>
    BY <1>0, <1>6 DEF AppendChunk, TypeInv, TypeOK, handlerVars, serverVars
  <2> QED BY <1>0, <2>1 DEF UnsentInv
<1>7. CASE \/ \E n \in Notifiers : NotifyTyping(n) \/ ModeCallStep(n)
           \/ ModeCallStep(Rtc) \/ CallEndQuery \/ Grab \/ Connect
           \/ \E h \in Handlers : Cancel(h)
  <2>1. /\ UNCHANGED <<pc, written, buf, task, sent, dbuf>>
        /\ dpc' = "append" => dpc = "append"
    BY <1>7 DEF NotifyTyping, ModeCallStep, CallEndQuery, Grab, Connect, Cancel, handlerVars,
                dispVars, serverVars
  <2> QED BY <1>0, <2>1 DEF UnsentInv
<1>8. CASE Drop
  BY <1>0, <1>8 DEF Drop, UnsentInv, TypeOK, handlerVars, dispVars
<1>9. CASE UNCHANGED vars
  BY <1>0, <1>9 DEF vars, UnsentInv, handlerVars, dispVars, serverVars
<1> QED
  BY <1>1, <1>2, <1>3, <1>4, <1>5, <1>6, <1>7, <1>8, <1>9 DEF Next, HandlerStep, RtcStep

LEMMA OwnerInvStep ==
  TypeInv /\ IdsInv /\ SessionsInv /\ WayInv /\ [Next]_vars => OwnerInv'
<1> SUFFICES ASSUME TypeInv, IdsInv, SessionsInv, WayInv, [Next]_vars PROVE OwnerInv'
  OBVIOUS
<1>0. UnsentInv /\ OwnerInv /\ TypeOK /\ chan \in Seq(Responses)
  BY DEF WayInv, TypeInv, TypeOK
<1>1. ASSUME NEW h \in Handlers, RegisterSession(h) PROVE OwnerInv'
  <2>1. /\ \A g \in Handlers : g # h => sid'[g] = sid[g]
        /\ UNCHANGED <<chan, task, dpc, dmsg, dbuf>>
        /\ pc[h] = "new"
    BY <1>0, <1>1 DEF RegisterSession, TypeOK, dispVars, serverVars
  <2>2. task[h] = "none" /\ (dpc = "append" => dbuf # h)
    BY <1>0, <2>1 DEF UnsentInv
  <2> QED BY <1>0, <2>1, <2>2 DEF OwnerInv, TypeInv
<1>2. ASSUME NEW h \in Handlers, ServerChunk(h) \/ ServerDone(h) PROVE OwnerInv'
  <2>1. PICK m : /\ chan' = Append(chan, m)
                 /\ m \in Responses
                 /\ m.sid = sid[h]
    <3>1. pc[h] # "new" /\ sid[h] \in SessionIds /\ sent[h] \in Nat
      BY <1>0, <1>2 DEF ServerChunk, ServerDone, SendResponse, TypeInv, TypeOK
    <3>2. PICK text \in Texts, done \in BOOLEAN : SendResponse(h, text, done)
      BY <1>2 DEF ServerChunk, ServerDone, Texts
    <3>3. [sid |-> sid[h], text |-> text, chunk |-> sent[h], done |-> done] \in Responses
      BY <3>1 DEF Responses
    <3> QED BY <3>2, <3>3 DEF SendResponse
  <2>2. /\ task[h] = "running"
        /\ \A g \in Handlers : task[g] # "none" => task'[g] # "none"
        /\ UNCHANGED <<sid, dpc, dmsg, dbuf>>
    BY <1>0, <1>2 DEF ServerChunk, ServerDone, SendResponse, TypeOK, handlerVars, dispVars
  <2>3. /\ Len(chan') = Len(chan) + 1 /\ Len(chan) \in Nat
        /\ \A i \in 1..Len(chan) : chan'[i] = chan[i]
        /\ chan'[Len(chan) + 1] = m
    BY <1>0, <2>1, AppendFacts
  <2>4. ASSUME NEW i \in 1..Len(chan')
        PROVE  \E g \in Handlers : task'[g] # "none" /\ chan'[i].sid = sid'[g]
    <3>1. CASE i \in 1..Len(chan)
      BY <1>0, <2>2, <2>3, <3>1 DEF OwnerInv
    <3>2. CASE i = Len(chan) + 1
      BY <2>1, <2>2, <2>3, <3>2
    <3> QED BY <2>3, <3>1, <3>2
  <2> QED BY <1>0, <2>2, <2>4 DEF OwnerInv
<1>3. ASSUME Dispatch PROVE OwnerInv'
  <2>1. /\ UNCHANGED <<sid, task>>
        /\ chan # <<>> /\ chan' = Tail(chan)
    BY <1>3 DEF Dispatch, handlerVars, serverVars
  <2>2. \A i \in 1..Len(chan') : \E g \in Handlers : task'[g] # "none" /\ chan'[i].sid = sid'[g]
    BY <1>0, <2>1, TailFacts DEF OwnerInv
  <2>3. dpc' = "append" => /\ dbuf' \in Handlers
                           /\ dmsg' = Head(chan)
                           /\ <<Head(chan).sid, dbuf'>> \in sessions
    BY <1>3 DEF Dispatch
  <2>4. dpc' = "append" => dmsg'.sid = sid[dbuf']
    BY <1>3, <2>3, DispatchFinds
  <2> QED BY <2>1, <2>2, <2>4 DEF OwnerInv
<1>4. ASSUME Drop PROVE OwnerInv'
  <2>1. PICK k \in 0..Len(chan) : chan' = SubSeq(chan, 1, k)
    BY <1>4 DEF Drop
  <2>2. /\ UNCHANGED <<sid, dpc, dmsg, dbuf>>
        /\ \A g \in Handlers : task[g] # "none" => task'[g] # "none"
    BY <1>0, <1>4 DEF Drop, TypeOK, handlerVars, dispVars
  <2>3. Len(chan') = k /\ k \in 0..Len(chan) /\ \A i \in 1..k : chan'[i] = chan[i]
    BY <1>0, <2>1, PrefixFacts
  <2> QED BY <1>0, <2>2, <2>3 DEF OwnerInv
<1>5. ASSUME Connect PROVE OwnerInv'
  BY <1>0, <1>5 DEF Connect, OwnerInv, handlerVars, dispVars, serverVars
<1>6. ASSUME AppendChunk PROVE OwnerInv'
  BY <1>0, <1>6 DEF AppendChunk, OwnerInv, handlerVars, serverVars
<1>7. CASE \/ \E n \in Notifiers : NotifyTyping(n) \/ ModeCallStep(n)
           \/ ModeCallStep(Rtc) \/ CallEndQuery \/ Grab
           \/ \E h \in Handlers : Cancel(h) \/ HandlerStep(h)
  <2>1. /\ UNCHANGED <<chan, sid, dmsg, dbuf>>
        /\ dpc' = "append" => dpc = "append"
        /\ \A g \in Handlers : task[g] # "none" => task'[g] # "none"
    BY <1>0, <1>7
    DEF NotifyTyping, ModeCallStep, CallEndQuery, Grab, Cancel, HandlerStep, CallBeginQuery,
        SendQuery, WriteError, TakeChunk, LeaveWait, WriteChunk, EraseSession, handlerVars,
        dispVars, serverVars, TypeOK
  <2> QED BY <1>0, <2>1 DEF OwnerInv
<1>8. CASE UNCHANGED vars
  BY <1>0, <1>8 DEF vars, OwnerInv, handlerVars, dispVars, serverVars
<1> QED
  BY <1>1, <1>2, <1>3, <1>4, <1>5, <1>6, <1>7, <1>8 DEF Next, RtcStep

LEMMA LinkInvStep == TypeInv /\ LinkInv /\ [Next]_vars => LinkInv'
<1> SUFFICES ASSUME TypeInv, LinkInv, [Next]_vars PROVE LinkInv'
  OBVIOUS
<1>0. TypeOK
  BY DEF TypeInv
<1>1. ASSUME NEW h \in Handlers, SendQuery(h) PROVE LinkInv'
  BY <1>0, <1>1 DEF SendQuery, LinkInv, TypeOK, linkVars
<1>2. ASSUME NEW h \in Handlers, ServerChunk(h) \/ ServerDone(h) PROVE LinkInv'
  BY <1>0, <1>2 DEF ServerChunk, ServerDone, SendResponse, LinkInv, TypeOK, linkVars
<1>3. CASE Drop \/ Connect
  BY <1>0, <1>3 DEF Drop, Connect, LinkInv, TypeOK, serverVars
<1>4. CASE \/ \E n \in Notifiers : NotifyTyping(n) \/ ModeCallStep(n)
           \/ RtcStep \/ Grab
           \/ \E h \in Handlers : \/ RegisterSession(h)
                                  \/ Cancel(h)
                                  \/ HandlerStep(h) /\ ~SendQuery(h)
  BY <1>4
  DEF NotifyTyping, ModeCallStep, RtcStep, Dispatch, AppendChunk, CallEndQuery, Grab, Cancel,
      RegisterSession, HandlerStep, CallBeginQuery, WriteError, TakeChunk, LeaveWait,
      WriteChunk, EraseSession, LinkInv, linkVars, serverVars
<1>5. CASE UNCHANGED vars
  BY <1>5 DEF vars, LinkInv, linkVars, serverVars
<1> QED
  BY <1>1, <1>2, <1>3, <1>4, <1>5 DEF Next, HandlerStep

-----------------------------------------------------------------------------
(* How Consecutive and Reaches behave under the operations of the channel. *)
LEMMA ChunkNat ==
  ASSUME NEW q \in Seq(Responses), NEW i \in 1..Len(q)
  PROVE  q[i] \in Responses /\ q[i].chunk \in Nat
<1>1. q[i] \in Responses
  OBVIOUS
<1> QED
  BY <1>1 DEF Responses

LEMMA SendOwn ==
  ASSUME NEW q \in Seq(Responses), NEW s, NEW n \in Nat, NEW m \in Nat,
         NEW r \in Responses, r.sid = s, r.chunk = m, n <= m,
         Consecutive(q, s, n, m), Reaches(q, s, n, m)
  PROVE  Consecutive(Append(q, r), s, n, m + 1) /\ Reaches(Append(q, r), s, n, m + 1)
<1> DEFINE p == Append(q, r)
<1>1. /\ Len(q) \in Nat /\ Len(p) = Len(q) + 1
      /\ \A i \in 1..Len(q) : p[i] = q[i]
      /\ p[Len(q) + 1] = r
  BY AppendFacts
<1>2. \A i \in 1..Len(q) : q[i].chunk \in Nat
  BY ChunkNat
<1> HIDE DEF p
<1>3. ASSUME NEW i \in 1..Len(p), p[i].sid = s
      PROVE  /\ n <= p[i].chunk
             /\ p[i].chunk < m + 1
             /\ n < p[i].chunk => \E j \in 1..(i-1) : /\ p[j].sid = s
                                                     /\ p[j].chunk + 1 = p[i].chunk
  <2>1. CASE i \in 1..Len(q)
    <3>1. p[i] = q[i] /\ \A j \in 1..(i-1) : p[j] = q[j]
      BY <1>1, <2>1
    <3>2. n <= q[i].chunk /\ q[i].chunk < m
      BY <1>3, <2>1, <3>1 DEF Consecutive
    <3>3. n < q[i].chunk => \E j \in 1..(i-1) : q[j].sid = s /\ q[j].chunk + 1 = q[i].chunk
      BY <1>3, <2>1, <3>1 DEF Consecutive
    <3> QED BY <1>2, <2>1, <3>1, <3>2, <3>3
  <2>2. CASE i = Len(q) + 1
    BY <1>1, <2>2 DEF Reaches
  <2> QED BY <1>1, <2>1, <2>2
<1>4. ASSUME NEW i \in 1..Len(p), NEW j \in 1..Len(p), i < j, p[i].sid = s, p[j].sid = s
      PROVE  p[i].chunk < p[j].chunk
  <2>1. i \in 1..Len(q)
    BY <1>1, <1>4
  <2>2. CASE j \in 1..Len(q)
    BY <1>1, <1>4, <2>1, <2>2 DEF Consecutive
  <2>3. CASE j = Len(q) + 1
    BY <1>1, <1>4, <2>1, <2>3 DEF Consecutive
  <2> QED BY <1>1, <2>2, <2>3
<1>5. Consecutive(p, s, n, m + 1)
  BY <1>3, <1>4 DEF Consecutive
<1>6. Reaches(p, s, n, m + 1)
  <2>1. Len(q) + 1 \in 1..Len(p)
    BY <1>1
  <2> QED BY <1>1, <2>1 DEF Reaches
<1> QED
  BY <1>5, <1>6 DEF p

LEMMA SendOther ==
  ASSUME NEW q \in Seq(Responses), NEW s, NEW n \in Nat, NEW m \in Nat,
         NEW r \in Responses, r.sid # s, Consecutive(q, s, n, m)
  PROVE  /\ Consecutive(Append(q, r), s, n, m)
         /\ Reaches(q, s, n, m) => Reaches(Append(q, r), s, n, m)
<1> DEFINE p == Append(q, r)
<1>1. /\ Len(q) \in Nat /\ Len(p) = Len(q) + 1
      /\ \A i \in 1..Len(q) : p[i] = q[i]
      /\ p[Len(q) + 1] = r
  BY AppendFacts
<1> HIDE DEF p
<1>2. \A i \in 1..Len(p) : p[i].sid = s => i \in 1..Len(q)
  BY <1>1
<1>3. Consecutive(p, s, n, m)
  <2>1. ASSUME NEW i \in 1..Len(p), p[i].sid = s
        PROVE  /\ n <= p[i].chunk
               /\ p[i].chunk < m
               /\ n < p[i].chunk => \E j \in 1..(i-1) : /\ p[j].sid = s
                                                       /\ p[j].chunk + 1 = p[i].chunk
    <3>1. i \in 1..Len(q) /\ p[i] = q[i] /\ \A j \in 1..(i-1) : p[j] = q[j]
      BY <1>1, <1>2, <2>1
    <3> QED BY <2>1, <3>1 DEF Consecutive
  <2>2. ASSUME NEW i \in 1..Len(p), NEW j \in 1..Len(p), i < j, p[i].sid = s, p[j].sid = s
        PROVE  p[i].chunk < p[j].chunk
    BY <1>1, <1>2, <2>2 DEF Consecutive
  <2> QED BY <2>1, <2>2 DEF Consecutive
<1>4. Reaches(q, s, n, m) => Reaches(p, s, n, m)
  BY <1>1 DEF Reaches
<1> QED
  BY <1>3, <1>4 DEF p

LEMMA ReceiveOwn ==
  ASSUME NEW q \in Seq(Responses), NEW s, NEW n \in Nat, NEW m \in Nat,
         q # <<>>, Head(q).sid = s, Consecutive(q, s, n, m)
  PROVE  /\ Head(q).chunk = n
         /\ n + 1 <= m
         /\ Consecutive(Tail(q), s, n + 1, m)
         /\ Reaches(q, s, n, m) => Reaches(Tail(q), s, n + 1, m)
<1> DEFINE p == Tail(q)
<1>1. /\ Head(q) = q[1] /\ Len(q) \in Nat /\ 1 \in 1..Len(q)
      /\ Len(p) = Len(q) - 1
      /\ \A i \in 1..Len(p) : p[i] = q[i + 1] /\ i + 1 \in 1..Len(q)
  BY TailFacts
<1>2. \A i \in 1..Len(q) : q[i].chunk \in Nat
  BY ChunkNat
<1> HIDE DEF p
<1>3. q[1].chunk = n /\ n < m
  <2>1. n <= q[1].chunk /\ q[1].chunk < m
    BY <1>1 DEF Consecutive
  <2>2. n < q[1].chunk => \E j \in 1..(1-1) : q[j].sid = s
    BY <1>1 DEF Consecutive
  <2> QED BY <1>1, <1>2, <2>1, <2>2
<1>4. ASSUME NEW i \in 1..Len(p), p[i].sid = s
      PROVE  /\ n + 1 <= p[i].chunk
             /\ p[i].chunk < m
             /\ n + 1 < p[i].chunk => \E j \in 1..(i-1) : /\ p[j].sid = s
                                                         /\ p[j].chunk + 1 = p[i].chunk
  <2>1. i + 1 \in 1..Len(q) /\ 1 < i + 1 /\ q[i + 1] = p[i] /\ q[1].sid = s
    BY <1>1, <1>4
  <2>2. q[1].chunk < q[i + 1].chunk /\ q[i + 1].chunk < m
    BY <1>1, <1>4, <2>1 DEF Consecutive
  <2>3. n < q[i + 1].chunk
    BY <1>2, <1>3, <2>1, <2>2
  <2>4. PICK k \in 1..i : q[k].sid = s /\ q[k].chunk + 1 = q[i + 1].chunk
    BY <1>4, <2>1, <2>3 DEF Consecutive
  <2>5. ASSUME n + 1 < p[i].chunk
        PROVE  \E j \in 1..(i-1) : p[j].sid = s /\ p[j].chunk + 1 = p[i].chunk
    <3>1. k # 1
      BY <1>3, <2>1, <2>4, <2>5
    <3>2. k - 1 \in 1..(i-1) /\ k - 1 \in 1..Len(p) /\ p[k - 1] = q[k]
      BY <1>1, <2>1, <2>4, <3>1
    <3> QED BY <2>1, <2>4, <3>2
  <2> QED BY <1>2, <1>3, <2>1, <2>2, <2>5
<1>5. ASSUME NEW i \in 1..Len(p), NEW j \in 1..Len(p), i < j, p[i].sid = s, p[j].sid = s
      PROVE  p[i].chunk < p[j].chunk
  <2>1. /\ i + 1 \in 1..Len(q) /\ p[i] = q[i + 1]
        /\ j + 1 \in 1..Len(q) /\ p[j] = q[j + 1]
        /\ i + 1 < j + 1
    BY <1>1, <1>5
  <2> QED BY <1>5, <2>1 DEF Consecutive
<1>6. Consecutive(p, s, n + 1, m)
  BY <1>4, <1>5 DEF Consecutive
<1>7. ASSUME Reaches(q, s, n, m), n + 1 < m
      PROVE  \E j \in 1..Len(p) : p[j].sid = s /\ p[j].chunk + 1 = m
  <2>1. PICK k \in 1..Len(q) : q[k].sid = s /\ q[k].chunk + 1 = m
    BY <1>7 DEF Reaches
  <2>2. k # 1
    BY <1>3, <1>7, <2>1
  <2>3. k - 1 \in 1..Len(p) /\ p[k - 1] = q[k]
    BY <1>1, <2>1, <2>2
  <2> QED BY <2>1, <2>3
<1> QED
  BY <1>1, <1>3, <1>6, <1>7 DEF p, Reaches

LEMMA ReceiveOther ==
  ASSUME NEW q \in Seq(Responses), NEW s, NEW n \in Nat, NEW m \in Nat,
         q # <<>>, Head(q).sid # s, Consecutive(q, s, n, m)
  PROVE  /\ Consecutive(Tail(q), s, n, m)
         /\ Reaches(q, s, n, m) => Reaches(Tail(q), s, n, m)
<1> DEFINE p == Tail(q)
<1>1. /\ Head(q) = q[1] /\ Len(q) \in Nat /\ 1 \in 1..Len(q)
      /\ Len(p) = Len(q) - 1
      /\ \A i \in 1..Len(p) : p[i] = q[i + 1] /\ i + 1 \in 1..Len(q)
  BY TailFacts
<1> HIDE DEF p
<1>2. \A k \in 1..Len(q) : q[k].sid = s => /\ k - 1 \in 1..Len(p)
                                          /\ p[k - 1] = q[k]
  BY <1>1
<1>3. ASSUME NEW i \in 1..Len(p), p[i].sid = s
      PROVE  /\ n <= p[i].chunk
             /\ p[i].chunk < m
             /\ n < p[i].chunk => \E j \in 1..(i-1) : /\ p[j].sid = s
                                                     /\ p[j].chunk + 1 = p[i].chunk
  <2>1. i + 1 \in 1..Len(q) /\ q[i + 1] = p[i]
    BY <1>1
  <2>2. n <= q[i + 1].chunk /\ q[i + 1].chunk < m
    BY <1>3, <2>1 DEF Consecutive
  <2>3. ASSUME n < q[i + 1].chunk
        PROVE  \E j \in 1..(i-1) : p[j].sid = s /\ p[j].chunk + 1 = p[i].chunk
    <3>1. PICK k \in 1..i : q[k].sid = s /\ q[k].chunk + 1 = q[i + 1].chunk
      BY <1>3, <2>1, <2>3 DEF Consecutive
    <3>2. k \in 1..Len(q)
      BY <1>1, <2>1
    <3>3. k - 1 \in 1..(i-1) /\ p[k - 1] = q[k]
      BY <1>1, <1>2, <3>1, <3>2
    <3> QED BY <2>1, <3>1, <3>3
  <2> QED BY <2>1, <2>2, <2>3
<1>4. ASSUME NEW i \in 1..Len(p), NEW j \in 1..Len(p), i < j, p[i].sid = s, p[j].sid = s
      PROVE  p[i].chunk < p[j].chunk
  BY <1>1, <1>4 DEF Consecutive
<1>5. Consecutive(p, s, n, m)
  BY <1>3, <1>4 DEF Consecutive
<1>6. Reaches(q, s, n, m) => Reaches(p, s, n, m)
  BY <1>2 DEF Reaches
<1> QED
  BY <1>5, <1>6 DEF p

LEMMA KeepPrefix ==
  ASSUME NEW q \in Seq(Responses), NEW s, NEW n \in Nat, NEW m \in Nat,
         NEW k \in 0..Len(q), Consecutive(q, s, n, m)
  PROVE  Consecutive(SubSeq(q, 1, k), s, n, m)
<1> DEFINE p == SubSeq(q, 1, k)
<1>1. Len(q) \in Nat /\ Len(p) = k /\ \A i \in 1..k : p[i] = q[i] /\ i \in 1..Len(q)
  BY PrefixFacts
<1> HIDE DEF p
<1>2. ASSUME NEW i \in 1..Len(p), p[i].sid = s
      PROVE  /\ n <= p[i].chunk
             /\ p[i].chunk < m
             /\ n < p[i].chunk => \E j \in 1..(i-1) : /\ p[j].sid = s
                                                     /\ p[j].chunk + 1 = p[i].chunk
  <2>1. i \in 1..Len(q) /\ p[i] = q[i] /\ \A j \in 1..(i-1) : p[j] = q[j]
    BY <1>1
  <2> QED BY <1>2, <2>1 DEF Consecutive
<1>3. ASSUME NEW i \in 1..Len(p), NEW j \in 1..Len(p), i < j, p[i].sid = s, p[j].sid = s
      PROVE  p[i].chunk < p[j].chunk
  BY <1>1, <1>3 DEF Consecutive
<1> QED
  BY <1>2, <1>3 DEF Consecutive, p

-----------------------------------------------------------------------------
(* The answer on its way to a call that reads.                             *)
LEMMA IndexTypes ==
  ASSUME TypeInv, NEW h \in Handlers
  PROVE  /\ Taken(h) \in Nat /\ Held(h) \in Nat /\ NextIndex(h) \in Nat
         /\ sent[h] \in Nat
         /\ buf[h].chunks \in Seq(Responses) /\ Len(buf[h].chunks) \in Nat
         /\ written[h] \in Seq(Responses) /\ Len(written[h]) \in Nat
<1>1. /\ written[h] \in Seq(Responses) /\ buf[h].chunks \in Seq(Responses) /\ sent[h] \in Nat
  BY DEF TypeInv, TypeOK
<1>2. Len(written[h]) \in Nat /\ Len(buf[h].chunks) \in Nat
  BY <1>1
<1>3. Taken(h) \in Nat
  <2>1. CASE pc[h] = "write"
    BY <1>2, <2>1 DEF Taken
  <2>2. CASE pc[h] # "write"
    BY <1>2, <2>2 DEF Taken
  <2> QED BY <2>1, <2>2
<1>4. Held(h) \in Nat
  BY DEF Held
<1> QED
  BY <1>1, <1>2, <1>3, <1>4 DEF NextIndex

(* A step that leaves everything on call h's way alone.                    *)
KeepsPath(h) ==
  /\ sid'[h] = sid[h]
  /\ UNCHANGED chan
  /\ sent'[h] = sent[h]
  /\ written'[h] = written[h]
  /\ buf'[h] = buf[h]
  /\ pc'[h] = "write" <=> pc[h] = "write"
  /\ dpc' = "append" /\ dbuf' = h <=> dpc = "append" /\ dbuf = h
  /\ dpc = "append" /\ dbuf = h => dmsg' = dmsg
  /\ task'[h] = "running" => task[h] = "running"

LEMMA PathFrame ==
  ASSUME NEW h \in Handlers, ChanOK(h), BufOK(h), KeepsPath(h)
  PROVE  ChanOK(h)' /\ BufOK(h)'
<1>1. Taken(h)' = Taken(h) /\ Held(h)' = Held(h)
  BY DEF Taken, Held, KeepsPath
<1>2. NextIndex(h)' = NextIndex(h)
  BY <1>1 DEF NextIndex, KeepsPath
<1>3. ChanOK(h)'
  BY <1>2 DEF ChanOK, KeepsPath, Consecutive, Reaches
<1>4. BufOK(h)'
  BY <1>1 DEF BufOK, KeepsPath
<1> QED
  BY <1>3, <1>4

LEMMA PathRegister ==
  ASSUME TypeInv, IdsInv, WayInv, NEW h \in Handlers, RegisterSession(h)
  PROVE  ChanOK(h)' /\ BufOK(h)'
<1>1. /\ pc[h] = "new" /\ pc'[h] = "begin"
      /\ UNCHANGED <<chan, sent, written, buf, dpc, dbuf, dmsg, task>>
  BY DEF RegisterSession, TypeInv, TypeOK, dispVars, serverVars
<1>2. /\ sent[h] = 0 /\ written[h] = <<>> /\ buf[h].chunks = <<>>
      /\ task[h] = "none"
      /\ ~(dpc = "append" /\ dbuf = h)
  BY <1>1 DEF WayInv, UnsentInv
<1>3. NextIndex(h)' = 0
  BY <1>1, <1>2 DEF NextIndex, Taken, Held
<1>4. \A i \in 1..Len(chan) : chan[i].sid # sid'[h]
  <2>1. ASSUME NEW i \in 1..Len(chan) PROVE chan[i].sid # sid'[h]
    <3>1. PICK g \in Handlers : task[g] # "none" /\ chan[i].sid = sid[g]
      BY DEF WayInv, OwnerInv
    <3>2. pc[g] # "new"
      BY <3>1 DEF TypeInv
    <3> QED BY <3>1, <3>2, FreshSid
  <2> QED BY <2>1
<1>5. ChanOK(h)'
  BY <1>1, <1>2, <1>3, <1>4 DEF ChanOK, Consecutive
<1>6. BufOK(h)'
  BY <1>1, <1>2 DEF BufOK
<1> QED
  BY <1>5, <1>6

LEMMA PathTake ==
  ASSUME TypeInv, TypeInv', NEW h \in Handlers, ChanOK(h), BufOK(h), TakeChunk(h)
  PROVE  ChanOK(h)' /\ BufOK(h)'
<1>1. /\ pc[h] = "wait" /\ pc'[h] = "write"
      /\ buf[h].chunks # <<>> /\ buf'[h].chunks = Tail(buf[h].chunks)
      /\ UNCHANGED <<chan, sent, sid, written, dpc, dbuf, dmsg, task>>
  BY DEF TakeChunk, TypeInv, TypeOK, dispVars, serverVars
<1>2. /\ Len(buf'[h].chunks) = Len(buf[h].chunks) - 1
      /\ \A i \in 1..(Len(buf[h].chunks) - 1) : buf'[h].chunks[i] = buf[h].chunks[i + 1]
  BY <1>1, IndexTypes, TailFacts
<1>3. Taken(h)' = Taken(h) + 1 /\ Held(h)' = Held(h)
  BY <1>1, IndexTypes DEF Taken, Held
<1>4. NextIndex(h)' = NextIndex(h)
  BY <1>2, <1>3, IndexTypes DEF NextIndex
<1>5. ChanOK(h)'
  BY <1>1, <1>4 DEF ChanOK, Consecutive, Reaches
<1>6. ASSUME NEW i \in 1..Len(buf'[h].chunks)
      PROVE  /\ buf'[h].chunks[i].sid = sid'[h]
             /\ buf'[h].chunks[i].chunk + 1 = Taken(h)' + i
  <2>1. i + 1 \in 1..Len(buf[h].chunks) /\ buf'[h].chunks[i] = buf[h].chunks[i + 1]
    BY <1>2, IndexTypes
  <2>2. /\ buf[h].chunks[i + 1].sid = sid[h]
        /\ buf[h].chunks[i + 1].chunk + 1 = Taken(h) + (i + 1)
    BY <2>1 DEF BufOK
  <2> QED BY <1>1, <1>3, <2>1, <2>2, IndexTypes
<1>7. dpc' = "append" /\ dbuf' = h => dmsg'.chunk = Taken(h)' + Len(buf'[h].chunks)
  <2>1. Taken(h) \in Nat /\ Len(buf[h].chunks) \in Nat
    BY IndexTypes
  <2>2. dpc = "append" /\ dbuf = h => dmsg.chunk = Taken(h) + Len(buf[h].chunks)
    BY DEF BufOK
  <2>3. Taken(h)' + Len(buf'[h].chunks) = Taken(h) + Len(buf[h].chunks)
    BY <1>2, <1>3, <2>1
  <2> QED BY <1>1, <2>2, <2>3
<1> QED
  BY <1>5, <1>6, <1>7 DEF BufOK

LEMMA PathWrite ==
  ASSUME TypeInv, NEW h \in Handlers, ChanOK(h), BufOK(h), WriteChunk(h), pc'[h] = "wait"
  PROVE  ChanOK(h)' /\ BufOK(h)'
<1>1. /\ pc[h] = "write"
      /\ written'[h] = Append(written[h], out[h]) /\ out[h] \in Responses
      /\ UNCHANGED <<chan, buf, sent, sid, dpc, dbuf, dmsg, task>>
  BY DEF WriteChunk, WriteSucceeds, TypeInv, TypeOK, dispVars, serverVars
<1>2. Taken(h)' = Taken(h) /\ Held(h)' = Held(h)
  BY <1>1, IndexTypes, AppendFacts DEF Taken, Held
<1>3. NextIndex(h)' = NextIndex(h)
  BY <1>1, <1>2 DEF NextIndex
<1> QED
  BY <1>1, <1>2, <1>3 DEF ChanOK, Consecutive, Reaches, BufOK

LEMMA PathSend ==
  ASSUME TypeInv, IdsInv, NEW h \in Reading, ChanOK(h), BufOK(h),
         NEW g \in Handlers, ServerChunk(g) \/ ServerDone(g)
  PROVE  ChanOK(h)' /\ BufOK(h)'
<1>0. h \in Handlers /\ pc[h] # "new"
  BY DEF Reading
<1>1. PICK text \in Texts, done \in BOOLEAN : SendResponse(g, text, done)
  BY DEF ServerChunk, ServerDone, Texts
<1> DEFINE r == [sid |-> sid[g], text |-> text, chunk |-> sent[g], done |-> done]
<1>2. task[g] = "running" /\ pc[g] # "new" /\ sid[g] \in SessionIds /\ sent[g] \in Nat
  BY <1>1 DEF SendResponse, TypeInv, TypeOK
<1>3. r \in Responses /\ r.sid = sid[g] /\ r.chunk = sent[g]
  BY <1>2 DEF Responses
<1>4. /\ chan' = Append(chan, r)
      /\ sent' = [sent EXCEPT ![g] = @ + 1]
      /\ UNCHANGED <<sid, buf, written, pc, dpc, dbuf, dmsg>>
      /\ task'[h] = "running" => task[h] = "running"
  BY <1>0, <1>1 DEF SendResponse, TypeInv, TypeOK, handlerVars, dispVars
<1> HIDE DEF r
<1>5. /\ chan \in Seq(Responses)
      /\ sent \in [Handlers -> Nat]
  BY DEF TypeInv, TypeOK
<1>6. Taken(h)' = Taken(h) /\ Held(h)' = Held(h) /\ NextIndex(h)' = NextIndex(h)
  BY <1>4 DEF Taken, Held, NextIndex
<1>7. BufOK(h)'
  BY <1>4, <1>6 DEF BufOK
<1>8. NextIndex(h) \in Nat
  BY <1>0, IndexTypes
<1>9. ChanOK(h)'
  <2>1. CASE g = h
    <3>1. /\ Consecutive(chan, sid[h], NextIndex(h), sent[h])
          /\ NextIndex(h) <= sent[h]
          /\ Reaches(chan, sid[h], NextIndex(h), sent[h])
      BY <1>2, <2>1 DEF ChanOK
    <3>2. /\ Consecutive(chan', sid[h], NextIndex(h), sent[h] + 1)
          /\ Reaches(chan', sid[h], NextIndex(h), sent[h] + 1)
      BY <1>2, <1>3, <1>4, <1>5, <1>8, <2>1, <3>1, SendOwn
    <3>3. sent'[h] = sent[h] + 1 /\ NextIndex(h) <= sent[h] + 1
      BY <1>0, <1>4, <1>5, <1>8, <2>1, <3>1
    <3> QED BY <1>4, <1>6, <3>2, <3>3 DEF ChanOK
  <2>2. CASE g # h
    <3>1. sid[g] # sid[h] /\ sent'[h] = sent[h] /\ sent[h] \in Nat
      BY <1>0, <1>2, <1>4, <1>5, <2>2 DEF IdsInv
    <3>2. /\ Consecutive(chan', sid[h], NextIndex(h), sent[h])
          /\ Reaches(chan, sid[h], NextIndex(h), sent[h])
               => Reaches(chan', sid[h], NextIndex(h), sent[h])
      BY <1>3, <1>4, <1>5, <1>8, <3>1, SendOther DEF ChanOK
    <3> QED BY <1>4, <1>6, <3>1, <3>2 DEF ChanOK
  <2> QED BY <2>1, <2>2
<1> QED
  BY <1>7, <1>9

LEMMA PathDispatch ==
  ASSUME TypeInv, IdsInv, SessionsInv, WayInv, NEW h \in Reading, ChanOK(h), BufOK(h), Dispatch
  PROVE  ChanOK(h)' /\ BufOK(h)'
<1>0. h \in Handlers /\ h \in Registered
  BY DEF Reading, Registered
<1>1. /\ chan # <<>> /\ chan' = Tail(chan) /\ chan \in Seq(Responses)
      /\ dpc = "idle"
      /\ UNCHANGED <<sid, buf, written, pc, sent, task>>
  BY DEF Dispatch, TypeInv, TypeOK, handlerVars, serverVars
<1>2. /\ NextIndex(h) \in Nat /\ sent[h] \in Nat /\ Taken(h) \in Nat
      /\ Len(buf[h].chunks) \in Nat
  BY <1>0, IndexTypes
<1>3. Taken(h)' = Taken(h) /\ Held(h) = 0
  BY <1>1 DEF Taken, Held
<1>4. CASE Head(chan).sid = sid[h]
  <2>1. <<Head(chan).sid, h>> \in sessions
    BY <1>0, <1>4 DEF SessionsInv
  <2>2. dpc' = "append" /\ dmsg' = Head(chan) /\ <<Head(chan).sid, dbuf'>> \in sessions
    BY <1>0, <2>1 DEF Dispatch
  <2>3. dbuf' = h
    BY <1>0, <1>4, <2>2 DEF SessionsInv, IdsInv, Registered
  <2>4. Held(h)' = 1
    BY <2>2, <2>3 DEF Held
  <2>5. NextIndex(h)' = NextIndex(h) + 1 /\ NextIndex(h) = Taken(h) + Len(buf[h].chunks)
    BY <1>1, <1>2, <1>3, <2>4 DEF NextIndex
  <2>6. /\ Head(chan).chunk = NextIndex(h)
        /\ NextIndex(h) + 1 <= sent[h]
        /\ Consecutive(chan', sid[h], NextIndex(h) + 1, sent[h])
        /\ Reaches(chan, sid[h], NextIndex(h), sent[h])
             => Reaches(chan', sid[h], NextIndex(h) + 1, sent[h])
    BY <1>1, <1>2, <1>4, ReceiveOwn DEF ChanOK
  <2>7. ChanOK(h)'
    BY <1>1, <2>5, <2>6 DEF ChanOK
  <2>8. BufOK(h)'
    BY <1>1, <1>3, <2>2, <2>5, <2>6 DEF BufOK
  <2> QED BY <2>7, <2>8
<1>5. CASE Head(chan).sid # sid[h]
  <2>1. <<Head(chan).sid, h>> \notin sessions
    BY <1>5 DEF SessionsInv
  <2>2. ~(dpc' = "append" /\ dbuf' = h)
    BY <2>1 DEF Dispatch
  <2>3. Held(h)' = 0
    BY <2>2 DEF Held
  <2>4. NextIndex(h)' = NextIndex(h)
    BY <1>1, <1>3, <2>3 DEF NextIndex
  <2>5. /\ Consecutive(chan', sid[h], NextIndex(h), sent[h])
        /\ Reaches(chan, sid[h], NextIndex(h), sent[h])
             => Reaches(chan', sid[h], NextIndex(h), sent[h])
    BY <1>1, <1>2, <1>5, ReceiveOther DEF ChanOK
  <2>6. ChanOK(h)'
    BY <1>1, <2>4, <2>5 DEF ChanOK
  <2>7. BufOK(h)'
    BY <1>1, <1>3, <2>2 DEF BufOK
  <2> QED BY <2>6, <2>7
<1> QED
  BY <1>4, <1>5

LEMMA PathAppend ==
  ASSUME TypeInv, WayInv, NEW h \in Handlers, ChanOK(h), BufOK(h), AppendChunk, dbuf = h
  PROVE  ChanOK(h)' /\ BufOK(h)'
<1>1. /\ dpc = "append" /\ dpc' # "append" /\ dmsg \in Responses
      /\ buf'[h].chunks = Append(buf[h].chunks, dmsg)
      /\ UNCHANGED <<chan, sid, written, pc, sent, task>>
  BY DEF AppendChunk, TypeInv, TypeOK, handlerVars, serverVars
<1> DEFINE c == buf[h].chunks
<1> DEFINE d == buf'[h].chunks
<1>2. c \in Seq(Responses) /\ Len(c) \in Nat /\ Taken(h) \in Nat
  BY IndexTypes
<1>3. /\ Len(d) = Len(c) + 1
      /\ \A i \in 1..Len(c) : d[i] = c[i]
      /\ d[Len(c) + 1] = dmsg
  BY <1>1, <1>2, AppendFacts
<1>4. Taken(h)' = Taken(h) /\ Held(h) = 1 /\ Held(h)' = 0
  BY <1>1 DEF Taken, Held
<1>5. NextIndex(h)' = NextIndex(h)
  BY <1>2, <1>3, <1>4 DEF NextIndex
<1>6. ChanOK(h)'
  BY <1>1, <1>5 DEF ChanOK, Consecutive, Reaches
<1>7. dmsg.sid = sid[h] /\ dmsg.chunk = Taken(h) + Len(c)
  BY <1>1 DEF WayInv, OwnerInv, BufOK
<1>8. \A i \in 1..Len(c) : c[i].sid = sid[h] /\ c[i].chunk + 1 = Taken(h) + i
  BY DEF BufOK
<1>9. ASSUME NEW i \in 1..Len(d) PROVE d[i].sid = sid'[h] /\ d[i].chunk + 1 = Taken(h)' + i
  <2> HIDE DEF c, d
  <2>1. CASE i \in 1..Len(c)
    BY <1>1, <1>3, <1>4, <1>8, <2>1
  <2>2. CASE i = Len(c) + 1
    <3>1. d[i] = dmsg /\ sid'[h] = sid[h]
      BY <1>1, <1>3, <2>2
    <3>2. dmsg.chunk + 1 = Taken(h) + i
      BY <1>2, <1>7, <2>2
    <3> QED BY <1>4, <1>7, <3>1, <3>2
  <2> QED BY <1>2, <1>3, <2>1, <2>2
<1>10. BufOK(h)'
  BY <1>1, <1>9 DEF BufOK
<1> QED
  BY <1>6, <1>10

LEMMA PathLink ==
  ASSUME TypeInv, WayInv, NEW h \in Handlers, ChanOK(h), BufOK(h), Drop \/ Connect
  PROVE  ChanOK(h)' /\ BufOK(h)'
<1>1. UNCHANGED <<sid, buf, written, pc, sent, dpc, dbuf, dmsg>> /\ chan \in Seq(Responses)
  BY DEF Drop, Connect, handlerVars, dispVars, serverVars, TypeInv, TypeOK
<1>2. Taken(h)' = Taken(h) /\ NextIndex(h)' = NextIndex(h)
  BY <1>1 DEF Taken, Held, NextIndex
<1>3. BufOK(h)'
  BY <1>1, <1>2 DEF BufOK
<1>4. task'[h] # "running"
  BY DEF Drop, Connect, serverVars, WayInv, LinkInv
<1>5. \E k \in 0..Len(chan) : chan' = SubSeq(chan, 1, k)
  <2>1. CASE Drop
    BY <2>1 DEF Drop
  <2>2. CASE Connect
    <3>1. chan' = <<>> /\ 0 \in 0..Len(chan) /\ SubSeq(chan, 1, 0) = <<>>
      BY <1>1, <2>2 DEF Connect
    <3> QED BY <3>1
  <2> QED BY <2>1, <2>2
<1>6. NextIndex(h) \in Nat /\ sent[h] \in Nat
  BY IndexTypes
<1>7. Consecutive(chan', sid[h], NextIndex(h), sent[h])
  BY <1>1, <1>5, <1>6, KeepPrefix DEF ChanOK
<1> QED
  BY <1>1, <1>2, <1>3, <1>4, <1>7 DEF ChanOK

LEMMA PathInvStep ==
  ASSUME TypeInv, TypeInv', IdsInv, SessionsInv, WayInv, PathInv, [Next]_vars
  PROVE  PathInv'
<1> SUFFICES ASSUME NEW h \in Handlers, (h \in Reading)' PROVE ChanOK(h)' /\ BufOK(h)'
  BY DEF PathInv, Reading
<1>0. TypeOK
  BY DEF TypeInv
<1>1. h \in Reading => ChanOK(h) /\ BufOK(h)
  BY DEF PathInv
<1>2. ASSUME NEW g \in Handlers, RegisterSession(g) PROVE ChanOK(h)' /\ BufOK(h)'
  <2>1. CASE g = h
    BY <1>2, <2>1, PathRegister
  <2>2. CASE g # h
    <3>1. h \in Reading /\ KeepsPath(h)
      BY <1>0, <1>2, <2>2 DEF RegisterSession, Reading, KeepsPath, TypeOK, dispVars, serverVars
    <3> QED BY <1>1, <3>1, PathFrame
  <2> QED BY <2>1, <2>2
<1>3. ASSUME NEW g \in Handlers, CallBeginQuery(g) PROVE ChanOK(h)' /\ BufOK(h)'
  <2>1. h \in Reading /\ KeepsPath(h)
    BY <1>0, <1>3 DEF CallBeginQuery, Reading, KeepsPath, TypeOK, dispVars, serverVars
  <2> QED BY <1>1, <2>1, PathFrame
<1>4. ASSUME NEW g \in Handlers, SendQuery(g) PROVE ChanOK(h)' /\ BufOK(h)'
  <2>1. CASE g # h
    <3>1. h \in Reading /\ KeepsPath(h)
      BY <1>0, <1>4, <2>1 DEF SendQuery, Reading, KeepsPath, TypeOK, dispVars
    <3> QED BY <1>1, <3>1, PathFrame
  <2>2. CASE g = h
    <3>1. /\ pc[h] = "send" /\ pc'[h] # "write" /\ h \in Reading
          /\ UNCHANGED <<chan, sid, buf, written, sent, dpc, dbuf, dmsg>>
      BY <1>0, <1>4, <2>2 DEF SendQuery, Reading, TypeOK, dispVars
    <3>2. sent[h] = 0
      BY <3>1 DEF WayInv, UnsentInv
    <3>3. Taken(h)' = Taken(h) /\ NextIndex(h)' = NextIndex(h)
      BY <3>1 DEF Taken, Held, NextIndex
    <3>4. NextIndex(h) \in Nat
      BY IndexTypes
    <3>5. Reaches(chan', sid'[h], NextIndex(h)', sent'[h])
      BY <3>1, <3>2, <3>3, <3>4 DEF Reaches
    <3>6. ChanOK(h)'
      BY <1>1, <3>1, <3>3, <3>5 DEF ChanOK, Consecutive
    <3>7. BufOK(h)'
      BY <1>1, <3>1, <3>3 DEF BufOK
    <3> QED BY <3>6, <3>7
  <2> QED BY <2>1, <2>2
<1>5. ASSUME NEW g \in Handlers, WriteError(g) \/ LeaveWait(g) \/ EraseSession(g)
      PROVE  ChanOK(h)' /\ BufOK(h)'
  <2>1. g # h
    BY <1>0, <1>5 DEF WriteError, LeaveWait, EraseSession, Reading, TypeOK
  <2>2. h \in Reading /\ KeepsPath(h)
    BY <1>0, <1>5, <2>1
    DEF WriteError, LeaveWait, EraseSession, WriteSucceeds, WriteFails, Reading, KeepsPath,
        TypeOK, dispVars, serverVars
  <2> QED BY <1>1, <2>2, PathFrame
<1>6. ASSUME NEW g \in Handlers, TakeChunk(g) PROVE ChanOK(h)' /\ BufOK(h)'
  <2>1. h \in Reading
    BY <1>0, <1>6 DEF TakeChunk, Reading, TypeOK
  <2>2. CASE g # h
    <3>1. KeepsPath(h)
      BY <1>0, <1>6, <2>2 DEF TakeChunk, KeepsPath, TypeOK, dispVars, serverVars
    <3> QED BY <1>1, <2>1, <3>1, PathFrame
  <2>3. CASE g = h
    BY <1>1, <1>6, <2>1, <2>3, PathTake
  <2> QED BY <2>2, <2>3
<1>7. ASSUME NEW g \in Handlers, WriteChunk(g) PROVE ChanOK(h)' /\ BufOK(h)'
  <2>1. h \in Reading
    BY <1>0, <1>7 DEF WriteChunk, Reading, TypeOK
  <2>2. CASE g # h
    <3>1. KeepsPath(h)
      BY <1>0, <1>7, <2>2
      DEF WriteChunk, WriteSucceeds, WriteFails, KeepsPath, TypeOK, dispVars, serverVars
    <3> QED BY <1>1, <2>1, <3>1, PathFrame
  <2>3. CASE g = h
    <3>1. pc'[h] = "wait"
      BY <1>0, <1>7, <2>3 DEF WriteChunk, Reading, TypeOK
    <3> QED BY <1>1, <1>7, <2>1, <2>3, <3>1, PathWrite
  <2> QED BY <2>2, <2>3
<1>8. ASSUME NEW g \in Handlers, ServerChunk(g) \/ ServerDone(g) PROVE ChanOK(h)' /\ BufOK(h)'
  <2>1. h \in Reading
    BY <1>8 DEF ServerChunk, ServerDone, SendResponse, Reading, handlerVars
  <2> QED BY <1>1, <1>8, <2>1, PathSend
<1>9. ASSUME Dispatch PROVE ChanOK(h)' /\ BufOK(h)'
  <2>1. h \in Reading
    BY <1>9 DEF Dispatch, Reading, handlerVars
  <2> QED BY <1>1, <1>9, <2>1, PathDispatch
<1>10. ASSUME AppendChunk PROVE ChanOK(h)' /\ BufOK(h)'
  <2>1. h \in Reading
    BY <1>10 DEF AppendChunk, Reading, handlerVars
  <2>2. CASE dbuf = h
    BY <1>1, <1>10, <2>1, <2>2, PathAppend
  <2>3. CASE dbuf # h
    <3>1. KeepsPath(h)
      BY <1>0, <1>10, <2>3 DEF AppendChunk, KeepsPath, TypeOK, handlerVars, serverVars
    <3> QED BY <1>1, <2>1, <3>1, PathFrame
  <2> QED BY <2>2, <2>3
<1>11. ASSUME Drop \/ Connect PROVE ChanOK(h)' /\ BufOK(h)'
  <2>1. h \in Reading
    BY <1>11 DEF Drop, Connect, Reading, handlerVars
  <2> QED BY <1>1, <1>11, <2>1, PathLink
<1>12. CASE \/ \E n \in Notifiers : NotifyTyping(n) \/ ModeCallStep(n)
            \/ ModeCallStep(Rtc) \/ CallEndQuery \/ Grab
            \/ \E g \in Handlers : Cancel(g)
            \/ UNCHANGED vars
  <2>1. h \in Reading /\ KeepsPath(h)
    BY <1>12
    DEF NotifyTyping, ModeCallStep, CallEndQuery, Grab, Cancel, vars, Reading, KeepsPath,
        handlerVars, dispVars, serverVars
  <2> QED BY <1>1, <2>1, PathFrame
<1> QED
  BY <1>2, <1>3, <1>4, <1>5, <1>6, <1>7, <1>8, <1>9, <1>10, <1>11, <1>12
  DEF Next, HandlerStep, RtcStep

-----------------------------------------------------------------------------
(* What a call writes, and when it stops.                                  *)
StopInv == WriteInv /\ FinishedInv /\ StreamInOrder

LEMMA FinishedInvStep ==
  ASSUME TypeInv, TypeInv', WayInv, FinishedInv, [Next]_vars
  PROVE  FinishedInv'
<1> SUFFICES ASSUME NEW h \in Handlers, pc'[h] \in {"wait", "write"}, buf'[h].finished
             PROVE  \/ \E i \in 1..Len(buf'[h].chunks) : buf'[h].chunks[i].done
                    \/ pc'[h] = "write" /\ out'[h].done
  BY DEF FinishedInv
<1> DEFINE Goal == \/ \E i \in 1..Len(buf'[h].chunks) : buf'[h].chunks[i].done
                   \/ pc'[h] = "write" /\ out'[h].done
<1>0. TypeOK /\ buf[h].chunks \in Seq(Responses) /\ Len(buf[h].chunks) \in Nat
  BY IndexTypes DEF TypeInv
<1>1. pc[h] \in {"wait", "write"} /\ buf[h].finished =>
        \/ \E i \in 1..Len(buf[h].chunks) : buf[h].chunks[i].done
        \/ pc[h] = "write" /\ out[h].done
  BY DEF FinishedInv
<1>2. ASSUME NEW g \in Handlers, SendQuery(g) PROVE Goal
  <2>1. CASE g = h
    <3>1. pc[h] = "send" /\ buf'[h] = buf[h]
      BY <1>2, <2>1 DEF SendQuery
    <3>2. buf[h].finished = FALSE
      BY <3>1 DEF WayInv, UnsentInv
    <3> QED BY <3>1, <3>2
  <2>2. CASE g # h
    BY <1>0, <1>1, <1>2, <2>2 DEF SendQuery, TypeOK
  <2> QED BY <2>1, <2>2
<1>3. ASSUME NEW g \in Handlers, TakeChunk(g) PROVE Goal
  <2>1. CASE g = h
    <3>1. /\ pc[h] = "wait" /\ pc'[h] = "write" /\ buf[h].chunks # <<>>
          /\ out'[h] = Head(buf[h].chunks)
          /\ buf'[h].chunks = Tail(buf[h].chunks)
          /\ buf'[h].finished = buf[h].finished
      BY <1>0, <1>3, <2>1 DEF TakeChunk, TypeOK
    <3>2. PICK i \in 1..Len(buf[h].chunks) : buf[h].chunks[i].done
      BY <1>1, <3>1
    <3>3. CASE i = 1
      BY <1>0, <3>1, <3>2, <3>3, TailFacts
    <3>4. CASE i # 1
      <4>1. i - 1 \in 1..Len(buf'[h].chunks) /\ buf'[h].chunks[i - 1] = buf[h].chunks[i]
        BY <1>0, <3>1, <3>4, TailFacts
      <4> QED BY <3>2, <4>1
    <3> QED BY <3>3, <3>4
  <2>2. CASE g # h
    BY <1>0, <1>1, <1>3, <2>2 DEF TakeChunk, TypeOK
  <2> QED BY <2>1, <2>2
<1>4. ASSUME NEW g \in Handlers, WriteChunk(g) PROVE Goal
  <2>1. CASE g = h
    <3>1. pc[h] = "write" /\ pc'[h] = "wait" /\ ~out[h].done /\ buf'[h] = buf[h]
      <4>1. pc[h] = "write" /\ buf'[h] = buf[h]
        BY <1>4, <2>1 DEF WriteChunk
      <4>2. \/ pc' = [pc EXCEPT ![h] = IF out[h].done THEN "erase" ELSE "wait"]
            \/ pc' = [pc EXCEPT ![h] = "erase"]
        BY <1>4, <2>1 DEF WriteChunk
      <4> QED BY <1>0, <4>1, <4>2 DEF TypeOK
    <3> QED BY <1>1, <3>1
  <2>2. CASE g # h
    BY <1>0, <1>1, <1>4, <2>2 DEF WriteChunk, TypeOK
  <2> QED BY <2>1, <2>2
<1>5. ASSUME AppendChunk PROVE Goal
  <2>1. CASE dbuf = h
    <3>1. /\ dmsg \in Responses
          /\ buf'[h].chunks = Append(buf[h].chunks, dmsg)
          /\ buf'[h].finished = (buf[h].finished \/ dmsg.done)
          /\ UNCHANGED <<pc, out>>
      BY <1>0, <1>5, <2>1 DEF AppendChunk, TypeInv, TypeOK, handlerVars
    <3>2. /\ Len(buf'[h].chunks) = Len(buf[h].chunks) + 1
          /\ \A i \in 1..Len(buf[h].chunks) : buf'[h].chunks[i] = buf[h].chunks[i]
          /\ buf'[h].chunks[Len(buf[h].chunks) + 1] = dmsg
      BY <1>0, <3>1, AppendFacts
    <3>3. CASE dmsg.done
      BY <1>0, <3>2, <3>3
    <3>4. CASE buf[h].finished
      BY <1>0, <1>1, <3>1, <3>2, <3>4
    <3> QED BY <3>1, <3>3, <3>4
  <2>2. CASE dbuf # h
    BY <1>0, <1>1, <1>5, <2>2 DEF AppendChunk, TypeOK, handlerVars
  <2> QED BY <2>1, <2>2
<1>6. ASSUME NEW g \in Handlers,
             \/ RegisterSession(g) \/ CallBeginQuery(g) \/ WriteError(g) \/ LeaveWait(g)
             \/ EraseSession(g) \/ Cancel(g)
      PROVE  Goal
  <2>1. UNCHANGED <<buf, out>> /\ pc'[h] = pc[h]
    BY <1>0, <1>6
    DEF RegisterSession, CallBeginQuery, WriteError, LeaveWait, EraseSession, Cancel, TypeOK
  <2> QED BY <1>1, <2>1
<1>7. CASE \/ \E n \in Notifiers : NotifyTyping(n) \/ ModeCallStep(n)
           \/ ModeCallStep(Rtc) \/ CallEndQuery \/ Grab \/ Dispatch \/ Drop \/ Connect
           \/ \E g \in Handlers : ServerChunk(g) \/ ServerDone(g)
           \/ UNCHANGED vars
  <2>1. UNCHANGED <<buf, out, pc>>
    BY <1>7
    DEF NotifyTyping, ModeCallStep, CallEndQuery, Grab, Dispatch, Drop, Connect, ServerChunk,
        ServerDone, SendResponse, vars, handlerVars
  <2> QED BY <1>1, <2>1
<1> QED
  BY <1>2, <1>3, <1>4, <1>5, <1>6, <1>7 DEF Next, HandlerStep, RtcStep

(* When a call writes r it has written Len(written[h]) responses, none of  *)
(* them the last.                                                          *)
LEMMA WriteInOrder ==
  ASSUME TypeInv, StreamInOrder, NEW h \in Handlers, NEW r \in Responses,
         r.sid = sid[h], r.chunk = Len(written[h]),
         \A i \in 1..Len(written[h]) : ~written[h][i].done,
         WriteSucceeds(h, r), UNCHANGED sid
  PROVE  StreamInOrder'
<1>1. /\ written[h] \in Seq(Responses) /\ Len(written[h]) \in Nat
      /\ written'[h] = Append(written[h], r)
      /\ \A g \in Handlers : g # h => written'[g] = written[g]
  BY IndexTypes DEF WriteSucceeds, TypeInv, TypeOK
<1>2. /\ Len(written'[h]) = Len(written[h]) + 1
      /\ \A i \in 1..Len(written[h]) : written'[h][i] = written[h][i]
      /\ written'[h][Len(written[h]) + 1] = r
  BY <1>1, AppendFacts
<1>3. ASSUME NEW i \in 1..Len(written'[h])
      PROVE  /\ written'[h][i].sid = sid'[h]
             /\ written'[h][i].chunk = i - 1
             /\ written'[h][i].done => i = Len(written'[h])
  <2>1. CASE i \in 1..Len(written[h])
    BY <1>2, <2>1 DEF StreamInOrder
  <2>2. CASE i = Len(written[h]) + 1
    BY <1>1, <1>2, <2>2
  <2> QED BY <1>1, <1>2, <2>1, <2>2
<1>4. ASSUME NEW g \in Handlers, NEW i \in 1..Len(written'[g])
      PROVE  /\ written'[g][i].sid = sid'[g]
             /\ written'[g][i].chunk = i - 1
             /\ written'[g][i].done => i = Len(written'[g])
  <2>1. CASE g = h
    BY <1>3, <2>1
  <2>2. CASE g # h
    BY <1>1, <2>2 DEF StreamInOrder
  <2> QED BY <2>1, <2>2
<1> QED
  BY <1>4 DEF StreamInOrder

LEMMA StreamInOrderStep ==
  ASSUME TypeInv, WayInv, StopInv, [Next]_vars
  PROVE  StreamInOrder'
<1>0. TypeOK /\ WriteInv /\ StreamInOrder
  BY DEF TypeInv, StopInv
<1>1. ASSUME NEW h \in Handlers, RegisterSession(h) PROVE StreamInOrder'
  <2>1. /\ UNCHANGED written /\ pc[h] = "new"
        /\ \A g \in Handlers : g # h => sid'[g] = sid[g]
    BY <1>0, <1>1 DEF RegisterSession, TypeOK
  <2>2. Len(written[h]) = 0
    BY <2>1 DEF WayInv, UnsentInv
  <2> QED BY <1>0, <2>1, <2>2 DEF StreamInOrder
<1>2. ASSUME NEW h \in Handlers, WriteError(h) PROVE StreamInOrder'
  <2> DEFINE r == [sid |-> sid[h], text |-> "not ready", chunk |-> 0, done |-> TRUE]
  <2>1. pc[h] = "error" /\ UNCHANGED sid
    BY <1>2 DEF WriteError
  <2>2. written[h] = <<>>
    BY <2>1 DEF WayInv, UnsentInv
  <2>3. r \in Responses /\ r.sid = sid[h] /\ r.chunk = 0
    BY <2>1 DEF Responses, Texts, TypeInv
  <2>4. CASE WriteSucceeds(h, r)
    <3>1. Len(written[h]) = 0
      BY <2>2
    <3> HIDE DEF r
    <3> QED BY <1>0, <2>1, <2>3, <2>4, <3>1, WriteInOrder
  <2>5. CASE UNCHANGED written
    BY <1>0, <2>1, <2>5 DEF StreamInOrder
  <2> QED BY <1>2, <2>4, <2>5 DEF WriteError, WriteFails
<1>3. ASSUME NEW h \in Handlers, WriteChunk(h) PROVE StreamInOrder'
  <2>1. pc[h] = "write" /\ UNCHANGED sid /\ h \in Reading
    BY <1>3 DEF WriteChunk, Reading
  <2>2. /\ out[h] \in Responses /\ out[h].sid = sid[h] /\ out[h].chunk = Len(written[h])
        /\ \A i \in 1..Len(written[h]) : ~written[h][i].done
    BY <1>0, <2>1 DEF WriteInv, TypeInv
  <2>3. CASE WriteSucceeds(h, out[h])
    BY <1>0, <2>1, <2>2, <2>3, WriteInOrder
  <2>4. CASE UNCHANGED written
    BY <1>0, <2>1, <2>4 DEF StreamInOrder
  <2> QED BY <1>3, <2>3, <2>4 DEF WriteChunk, WriteFails
<1>4. CASE \/ \E n \in Notifiers : NotifyTyping(n) \/ ModeCallStep(n)
           \/ RtcStep \/ Grab \/ Drop \/ Connect
           \/ \E h \in Handlers :
                \/ Cancel(h) \/ ServerChunk(h) \/ ServerDone(h)
                \/ CallBeginQuery(h) \/ SendQuery(h) \/ TakeChunk(h) \/ LeaveWait(h)
                \/ EraseSession(h)
           \/ UNCHANGED vars
  <2>1. UNCHANGED <<written, sid>>
    BY <1>4
    DEF NotifyTyping, ModeCallStep, RtcStep, Dispatch, AppendChunk, CallEndQuery, Grab, Drop,
        Connect, Cancel, ServerChunk, ServerDone, SendResponse, CallBeginQuery, SendQuery,
        TakeChunk, LeaveWait, EraseSession, vars, handlerVars
  <2> QED BY <1>0, <2>1 DEF StreamInOrder
<1> QED
  BY <1>1, <1>2, <1>3, <1>4 DEF Next, HandlerStep

(* A call that stops has written the done response or was cancelled.       *)
LEMMA WriteInvStep ==
  ASSUME TypeInv, TypeInv', WayInv, PathInv, StopInv, [Next]_vars
  PROVE  WriteInv'
<1> DEFINE W(h) ==
      /\ pc[h] = "write" => /\ out[h].sid = sid[h]
                            /\ out[h].chunk = Len(written[h])
      /\ h \in Reading => \A i \in 1..Len(written[h]) : ~written[h][i].done
      /\ pc[h] = "erase" => (written[h] # <<>> /\ written[h][Len(written[h])].done)
                              \/ cancelled[h]
<1> SUFFICES ASSUME NEW h \in Handlers PROVE W(h)'
  BY DEF WriteInv, Stream!Ended
<1>0. TypeOK /\ W(h)
  BY DEF TypeInv, StopInv, WriteInv, Stream!Ended
<1>1. written[h] \in Seq(Responses) /\ Len(written[h]) \in Nat
  BY IndexTypes
<1>2. ASSUME /\ sid'[h] = sid[h]
             /\ pc'[h] = pc[h]
             /\ out'[h] = out[h]
             /\ written'[h] = written[h]
             /\ cancelled[h] => cancelled'[h]
      PROVE  W(h)'
  BY <1>0, <1>2 DEF Reading
<1>3. ASSUME NEW g \in Handlers, HandlerStep(g) \/ RegisterSession(g), g # h PROVE W(h)'
  <2>1. /\ sid'[h] = sid[h] /\ pc'[h] = pc[h] /\ out'[h] = out[h]
        /\ written'[h] = written[h] /\ UNCHANGED cancelled
    BY <1>0, <1>3
    DEF HandlerStep, RegisterSession, CallBeginQuery, SendQuery, WriteError, TakeChunk,
        LeaveWait, WriteChunk, EraseSession, WriteSucceeds, WriteFails, TypeOK
  <2> QED BY <1>2, <2>1
<1>4. ASSUME RegisterSession(h) \/ CallBeginQuery(h) \/ SendQuery(h) PROVE W(h)'
  <2>1. /\ pc[h] \in {"new", "begin", "send"}
        /\ pc'[h] \notin {"write", "erase"} /\ UNCHANGED written
    BY <1>0, <1>4 DEF RegisterSession, CallBeginQuery, SendQuery, TypeOK
  <2>2. Len(written'[h]) = 0
    BY <2>1 DEF WayInv, UnsentInv
  <2> QED BY <2>1, <2>2
<1>5. ASSUME WriteError(h) PROVE W(h)'
  <2> DEFINE r == [sid |-> sid[h], text |-> "not ready", chunk |-> 0, done |-> TRUE]
  <2>1. pc[h] = "error" /\ pc'[h] = "erase" /\ h \notin Reading' /\ UNCHANGED cancelled
    BY <1>0, <1>5 DEF WriteError, TypeOK, Reading
  <2>2. r \in Responses /\ r.done
    BY <2>1 DEF Responses, Texts, TypeInv
  <2>3. CASE WriteSucceeds(h, r)
    <3> HIDE DEF r
    <3>1. written'[h] = Append(written[h], r)
      BY <1>0, <2>3 DEF WriteSucceeds, TypeOK
    <3>2. Len(written'[h]) = Len(written[h]) + 1 /\ written'[h][Len(written[h]) + 1] = r
      BY <1>1, <2>2, <3>1, AppendFacts
    <3>3. written'[h] # <<>>
      BY <1>1, <3>2
    <3> QED BY <2>1, <2>2, <3>2, <3>3
  <2>4. CASE WriteFails(h)
    BY <2>1, <2>4 DEF WriteFails
  <2> QED BY <1>5, <2>3, <2>4 DEF WriteError
<1>6. ASSUME TakeChunk(h) PROVE W(h)'
  <2>1. /\ pc[h] = "wait" /\ pc'[h] = "write" /\ h \in Reading
        /\ buf[h].chunks # <<>> /\ out'[h] = Head(buf[h].chunks)
        /\ UNCHANGED <<sid, written>>
    BY <1>0, <1>6 DEF TakeChunk, TypeOK, Reading
  <2>2. buf[h].chunks \in Seq(Responses) /\ Taken(h) = Len(written[h])
    <3>1. Taken(h) = Len(written[h]) + 0
      BY <2>1 DEF Taken
    <3> QED BY <1>1, <3>1, IndexTypes
  <2>3. Head(buf[h].chunks) = buf[h].chunks[1] /\ 1 \in 1..Len(buf[h].chunks)
    BY <2>1, <2>2, TailFacts
  <2>4. /\ buf[h].chunks[1].sid = sid[h] /\ buf[h].chunks[1].chunk + 1 = Taken(h) + 1
        /\ buf[h].chunks[1].chunk \in Nat
    BY <2>1, <2>2, <2>3, ChunkNat DEF PathInv, BufOK
  <2>5. out'[h].sid = sid'[h] /\ out'[h].chunk = Len(written'[h])
    BY <1>1, <2>1, <2>2, <2>3, <2>4
  <2> QED BY <1>0, <2>1, <2>5
<1>7. ASSUME LeaveWait(h) PROVE W(h)'
  <2>1. pc[h] = "wait" /\ pc'[h] = "erase" /\ h \notin Reading' /\ UNCHANGED cancelled
    BY <1>0, <1>7 DEF LeaveWait, TypeOK, Reading
  <2>2. ~(buf[h].chunks = <<>> /\ buf[h].finished)
    BY <2>1 DEF StopInv, FinishedInv
  <2>3. cancelled[h]
    BY <1>7, <2>2 DEF LeaveWait
  <2> QED BY <2>1, <2>3
<1>8. ASSUME WriteChunk(h) PROVE W(h)'
  <2>1. /\ pc[h] = "write" /\ h \in Reading /\ out[h] \in Responses
        /\ UNCHANGED cancelled
    BY <1>8 DEF WriteChunk, Reading, TypeInv
  <2>2. CASE WriteFails(h) /\ pc' = [pc EXCEPT ![h] = "erase"]
    <3>1. pc'[h] = "erase" /\ h \notin Reading' /\ cancelled[h]
      BY <1>0, <2>2 DEF WriteFails, TypeOK, Reading
    <3> QED BY <2>1, <3>1
  <2>3. CASE /\ WriteSucceeds(h, out[h])
             /\ pc' = [pc EXCEPT ![h] = IF out[h].done THEN "erase" ELSE "wait"]
    <3>1. written'[h] = Append(written[h], out[h])
      BY <1>0, <2>3 DEF WriteSucceeds, TypeOK
    <3>2. /\ Len(written'[h]) = Len(written[h]) + 1
          /\ \A i \in 1..Len(written[h]) : written'[h][i] = written[h][i]
          /\ written'[h][Len(written[h]) + 1] = out[h]
      BY <1>1, <2>1, <3>1, AppendFacts
    <3>3. written'[h] # <<>>
      BY <1>1, <3>2
    <3>4. CASE out[h].done
      <4>1. pc'[h] = "erase" /\ h \notin Reading'
        BY <1>0, <2>3, <3>4 DEF TypeOK, Reading
      <4> QED BY <3>2, <3>3, <3>4, <4>1
    <3>5. CASE ~out[h].done
      <4>1. pc'[h] = "wait"
        BY <1>0, <2>3, <3>5 DEF TypeOK
      <4>2. \A i \in 1..Len(written[h]) : ~written[h][i].done
        BY <1>0, <2>1
      <4>3. ASSUME NEW i \in 1..Len(written'[h]) PROVE ~written'[h][i].done
        <5>1. CASE i \in 1..Len(written[h])
          BY <3>2, <4>2, <5>1
        <5>2. CASE i = Len(written[h]) + 1
          BY <3>2, <3>5, <5>2
        <5> QED BY <1>1, <3>2, <5>1, <5>2
      <4> QED BY <4>1, <4>3
    <3> QED BY <3>4, <3>5
  <2> QED BY <1>8, <2>2, <2>3 DEF WriteChunk
<1>9. ASSUME EraseSession(h) PROVE W(h)'
  <2>1. pc'[h] = "returned" /\ h \notin Reading'
    BY <1>0, <1>9 DEF EraseSession, TypeOK, Reading
  <2> QED BY <2>1
<1>10. ASSUME NEW g \in Handlers, Cancel(g) PROVE W(h)'
  <2>1. /\ UNCHANGED <<sid, pc, out, written>>
        /\ cancelled[h] => cancelled'[h]
    BY <1>0, <1>10 DEF Cancel, TypeOK
  <2> QED BY <1>2, <2>1
<1>11. CASE \/ \E n \in Notifiers : NotifyTyping(n) \/ ModeCallStep(n)
            \/ RtcStep \/ Grab \/ Drop \/ Connect
            \/ \E g \in Handlers : ServerChunk(g) \/ ServerDone(g)
            \/ UNCHANGED vars
  <2>1. UNCHANGED <<sid, pc, out, written, cancelled>>
    BY <1>11
    DEF NotifyTyping, ModeCallStep, RtcStep, Dispatch, AppendChunk, CallEndQuery, Grab, Drop,
        Connect, ServerChunk, ServerDone, SendResponse, vars, handlerVars
  <2> QED BY <1>2, <2>1
<1> HIDE DEF W
<1>12. ASSUME NEW g \in Handlers, HandlerStep(g) \/ RegisterSession(g) PROVE W(h)'
  <2>1. CASE g = h
    BY <1>4, <1>5, <1>6, <1>7, <1>8, <1>9, <1>12, <2>1 DEF HandlerStep
  <2>2. CASE g # h
    BY <1>3, <1>12, <2>2
  <2> QED BY <2>1, <2>2
<1> QED
  BY <1>10, <1>11, <1>12 DEF Next

-----------------------------------------------------------------------------
(* The theorems.                                                           *)
LEMMA IInvInit == Init => IInv
<1> SUFFICES ASSUME Init PROVE IInv
  OBVIOUS
<1>1. TypeInv
  BY TypeInvInit
<1>2. IdsInv /\ SessionsInv
  BY DEF Init, IdsInv, SessionsInv, Registered
<1>3. UnsentInv /\ OwnerInv /\ LinkInv
  BY DEF Init, UnsentInv, OwnerInv, LinkInv
<1>4. PathInv /\ WriteInv /\ FinishedInv /\ StreamInOrder
  BY DEF Init, PathInv, Reading, WriteInv, FinishedInv, StreamInOrder
<1> QED
  BY <1>1, <1>2, <1>3, <1>4 DEF IInv

LEMMA IInvStep == IInv /\ [Next]_vars => IInv'
<1> SUFFICES ASSUME IInv, [Next]_vars PROVE IInv'
  OBVIOUS
<1>1. TypeInv /\ IdsInv /\ SessionsInv /\ WayInv /\ PathInv /\ StopInv
  BY DEF IInv, WayInv, StopInv
<1>2. TypeInv'
  BY <1>1, TypeInvStep
<1>3. IdsInv' /\ SessionsInv'
  BY <1>1, IdsInvStep, SessionsInvStep
<1>4. UnsentInv' /\ OwnerInv' /\ LinkInv'
  BY <1>1, UnsentInvStep, OwnerInvStep, LinkInvStep DEF WayInv
<1>5. PathInv'
  BY <1>1, <1>2, PathInvStep
<1>6. WriteInv' /\ FinishedInv' /\ StreamInOrder'
  BY <1>1, <1>2, WriteInvStep, FinishedInvStep, StreamInOrderStep DEF StopInv
<1> QED
  BY <1>2, <1>3, <1>4, <1>5, <1>6 DEF IInv

(* The inductive invariant holds for any number of calls and typing        *)
(* threads, any session ids that are not reused, and any length of answer. *)
THEOREM Invariance == Spec => []IInv
  BY IInvInit, IInvStep, PTL DEF Spec

(* What the prompt app reads on a call's stream is that query's answer,    *)
(* from chunk 0, none missing, repeated, out of order or foreign, and      *)
(* nothing after done, however handlers, callback thread, server tasks,    *)
(* cancellations and lost connections interleave.                          *)
THEOREM StreamsInOrder == Spec => []StreamInOrder
<1>1. IInv => StreamInOrder
  BY DEF IInv
<1> QED
  BY <1>1, Invariance, PTL

(* SubmitQuery never leaves its wait through "else if (buf->finished)":    *)
(* the chunk that set finished is always still there to be written.        *)
THEOREM DoneNotSkipped == Spec => []FinishedHasChunk
<1>1. IInv => FinishedHasChunk
  <2> SUFFICES ASSUME IInv, NEW h \in Handlers, pc[h] = "wait", buf[h].finished
               PROVE  buf[h].chunks # <<>>
    BY DEF FinishedHasChunk
  <2>1. \E i \in 1..Len(buf[h].chunks) : buf[h].chunks[i].done
    BY DEF IInv, FinishedInv
  <2> QED BY <2>1
<1> QED
  BY <1>1, Invariance, PTL

LEMMA StreamStep ==
  ASSUME IInv, IInv', [Next]_vars
  PROVE  [Stream!Next]_(Stream!streamVars)
<1> DEFINE status == [h \in Handlers |-> Status(h)]
<1>0. TypeOK /\ TypeOK' /\ pc \in [Handlers -> HandlerPoints]
  BY DEF IInv, TypeInv, TypeOK
<1>1. ASSUME NEW h \in Handlers, RegisterSession(h) PROVE Stream!Open(h)
  <2>1. /\ pc[h] = "new" /\ pc' = [pc EXCEPT ![h] = "begin"]
        /\ sid' = [sid EXCEPT ![h] = sid'[h]]
        /\ UNCHANGED <<written, cancelled>>
    BY <1>0, <1>1 DEF RegisterSession, TypeOK
  <2>2. status[h] = "new" /\ status' = [status EXCEPT ![h] = "open"]
    BY <1>0, <2>1 DEF Status
  <2>3. \A g \in Handlers : status[g] = "open" => sid[g] # sid'[h]
    BY <1>1, FreshSid DEF Status, IInv
  <2> QED BY <2>1, <2>2, <2>3 DEF Stream!Open
<1>2. ASSUME NEW h \in Handlers, EraseSession(h) PROVE Stream!Close(h)
  <2>1. pc[h] = "erase" /\ pc' = [pc EXCEPT ![h] = "returned"]
        /\ UNCHANGED <<sid, written, cancelled>>
    BY <1>2 DEF EraseSession
  <2>2. status[h] = "open" /\ status' = [status EXCEPT ![h] = "closed"]
    BY <1>0, <2>1 DEF Status
  <2>3. Stream!Ended(h) \/ cancelled[h]
    BY <2>1 DEF IInv, WriteInv
  <2> QED BY <2>1, <2>2, <2>3 DEF Stream!Close
<1>3. ASSUME NEW h \in Handlers, Cancel(h) PROVE Stream!Cancel(h)
  <2>1. /\ pc[h] \notin {"new", "returned"}
        /\ cancelled' = [cancelled EXCEPT ![h] = TRUE]
        /\ UNCHANGED <<pc, sid, written>>
    BY <1>3 DEF Cancel, Registered
  <2>2. status[h] = "open" /\ status' = status
    BY <1>0, <2>1 DEF Status
  <2> QED BY <2>1, <2>2 DEF Stream!Cancel
<1>4. ASSUME NEW h \in Handlers, NEW r \in Responses, WriteSucceeds(h, r),
             r.sid = sid[h], r.chunk = Len(written[h]), ~Stream!Ended(h),
             pc[h] \notin {"new", "returned"}, UNCHANGED <<sid, cancelled>>,
             \E p \in {"wait", "erase"} : pc' = [pc EXCEPT ![h] = p]
      PROVE  Stream!Deliver(h)
  <2>1. status[h] = "open" /\ status' = status
    BY <1>0, <1>4 DEF Status
  <2>2. r.text \in Texts /\ r.done \in BOOLEAN
    BY DEF Responses
  <2>3. r = [sid |-> sid[h], text |-> r.text, chunk |-> Len(written[h]), done |-> r.done]
    BY <1>4 DEF Responses
  <2>4. written' = [written EXCEPT ![h] =
                      Append(@, [sid |-> sid[h], text |-> r.text,
                                 chunk |-> Len(@), done |-> r.done])]
    BY <1>4, <2>3 DEF WriteSucceeds
  <2> QED BY <1>4, <2>1, <2>2, <2>4 DEF Stream!Deliver
<1>5. ASSUME UNCHANGED <<sid, written, cancelled>>,
             \A h \in Handlers : Status(h)' = Status(h)
      PROVE  UNCHANGED Stream!streamVars
  BY <1>5 DEF Stream!streamVars
<1>6. ASSUME NEW h \in Handlers, WriteError(h)
      PROVE  Stream!Deliver(h) \/ UNCHANGED Stream!streamVars
  <2> DEFINE r == [sid |-> sid[h], text |-> "not ready", chunk |-> 0, done |-> TRUE]
  <2>1. pc[h] = "error" /\ pc' = [pc EXCEPT ![h] = "erase"] /\ UNCHANGED <<sid, cancelled>>
    BY <1>6 DEF WriteError
  <2>2. written[h] = <<>> /\ Len(written[h]) = 0
    BY <2>1 DEF IInv, UnsentInv
  <2>3. r \in Responses /\ r.sid = sid[h] /\ r.chunk = 0
    BY <2>1 DEF Responses, Texts, IInv, TypeInv
  <2>4. CASE WriteSucceeds(h, r)
    <3>1. ~Stream!Ended(h)
      BY <2>2 DEF Stream!Ended
    <3> HIDE DEF r
    <3> QED BY <1>4, <2>1, <2>2, <2>3, <2>4, <3>1
  <2>5. CASE WriteFails(h)
    <3>1. UNCHANGED <<sid, written, cancelled>> /\ \A g \in Handlers : Status(g)' = Status(g)
      BY <1>0, <2>1, <2>5 DEF WriteFails, Status
    <3> QED BY <1>5, <3>1
  <2> QED BY <1>6, <2>4, <2>5 DEF WriteError
<1>7. ASSUME NEW h \in Handlers, WriteChunk(h)
      PROVE  Stream!Deliver(h) \/ UNCHANGED Stream!streamVars
  <2>1. /\ pc[h] = "write" /\ h \in Reading /\ UNCHANGED <<sid, cancelled>>
        /\ \E p \in {"wait", "erase"} : pc' = [pc EXCEPT ![h] = p]
    BY <1>7 DEF WriteChunk, Reading
  <2>2. out[h] \in Responses /\ out[h].sid = sid[h] /\ out[h].chunk = Len(written[h])
    BY <2>1 DEF IInv, WriteInv, TypeInv
  <2>3. CASE WriteSucceeds(h, out[h])
    <3>1. ~Stream!Ended(h)
      <4>1. written[h] \in Seq(Responses) /\ \A i \in 1..Len(written[h]) : ~written[h][i].done
        BY <1>0, <2>1 DEF IInv, WriteInv, TypeOK
      <4>2. written[h] # <<>> => Len(written[h]) \in 1..Len(written[h])
        BY <4>1, TailFacts
      <4> QED BY <4>1, <4>2 DEF Stream!Ended
    <3> QED BY <1>4, <2>1, <2>2, <2>3, <3>1
  <2>4. CASE WriteFails(h)
    <3>1. UNCHANGED <<sid, written, cancelled>> /\ \A g \in Handlers : Status(g)' = Status(g)
      BY <1>0, <2>1, <2>4 DEF WriteFails, Status
    <3> QED BY <1>5, <3>1
  <2> QED BY <1>7, <2>3, <2>4 DEF WriteChunk
<1>8. CASE \/ \E n \in Notifiers : NotifyTyping(n) \/ ModeCallStep(n)
           \/ RtcStep \/ Grab \/ Drop \/ Connect
           \/ \E h \in Handlers :
                \/ ServerChunk(h) \/ ServerDone(h)
                \/ CallBeginQuery(h) \/ SendQuery(h) \/ TakeChunk(h) \/ LeaveWait(h)
           \/ UNCHANGED vars
  <2>1. UNCHANGED <<written, sid, cancelled>>
    BY <1>8
    DEF NotifyTyping, ModeCallStep, RtcStep, Dispatch, AppendChunk, CallEndQuery, Grab, Drop,
        Connect, ServerChunk, ServerDone, SendResponse, CallBeginQuery, SendQuery,
        TakeChunk, LeaveWait, vars, handlerVars
  <2>2. \A h \in Handlers : \/ pc'[h] = pc[h]
                           \/ /\ pc[h] \notin {"new", "returned"}
                              /\ pc'[h] \notin {"new", "returned"}
    <3>1. ASSUME NEW g \in Handlers,
                 CallBeginQuery(g) \/ SendQuery(g) \/ TakeChunk(g) \/ LeaveWait(g)
          PROVE  /\ pc[g] \notin {"new", "returned"}
                 /\ \E p \in {"send", "wait", "error", "write", "erase"} :
                      pc' = [pc EXCEPT ![g] = p]
      BY <3>1 DEF CallBeginQuery, SendQuery, TakeChunk, LeaveWait
    <3>2. ASSUME \A g \in Handlers :
                   ~(CallBeginQuery(g) \/ SendQuery(g) \/ TakeChunk(g) \/ LeaveWait(g))
          PROVE  pc' = pc
      BY <1>8, <3>2
      DEF NotifyTyping, ModeCallStep, RtcStep, Dispatch, AppendChunk, CallEndQuery, Grab,
          Drop, Connect, ServerChunk, ServerDone, SendResponse, vars, handlerVars
    <3> QED BY <1>0, <3>1, <3>2
  <2>3. \A h \in Handlers : Status(h)' = Status(h)
    BY <2>2 DEF Status
  <2> QED BY <1>5, <2>1, <2>3
<1> QED
  BY <1>1, <1>2, <1>3, <1>6, <1>7, <1>8 DEF Next, HandlerStep, Stream!Next

(* SubmitQuery implements its contract with the prompt app: every step of  *)
(* the threads is a step of ResponseStream or invisible on the stream.  In *)
(* particular an uncancelled call returns only after a done response.      *)
THEOREM Implements == Spec => ImplementsResponseStream
<1>1. Init => Stream!Init
  BY DEF Init, Stream!Init, Status
<1>2. IInv /\ IInv' /\ [Next]_vars => [Stream!Next]_(Stream!streamVars)
  BY StreamStep
<1> QED
  BY <1>1, <1>2, Invariance, PTL DEF Spec, ImplementsResponseStream, Stream!Spec

(* The service keeps to its side of the contract with the server: it sends *)
(* the query of a call once, so every step is one of AnswerTasks or        *)
(* invisible to the server's tasks.                                        *)
THEOREM KeepsServerContract == Spec => Server!Spec
<1>1. Init => Server!Init
  BY DEF Init, Server!Init
<1>2. IInv /\ [Next]_vars => [Server!Next]_(Server!taskVars)
  <2> SUFFICES ASSUME IInv, [Next]_vars PROVE [Server!Next]_(Server!taskVars)
    OBVIOUS
  <2>1. ASSUME NEW h \in Handlers, SendQuery(h)
        PROVE  Server!Begin(h) \/ UNCHANGED Server!taskVars
    <3>1. task[h] = "none"
      BY <2>1 DEF SendQuery, IInv, UnsentInv
    <3> QED BY <2>1, <3>1 DEF SendQuery, Server!Begin, Server!taskVars
  <2>2. ASSUME NEW h \in Handlers, ServerChunk(h) \/ ServerDone(h)
        PROVE  \E done \in BOOLEAN : Server!Respond(h, done)
    BY <2>2 DEF ServerChunk, ServerDone, SendResponse
  <2>3. CASE Drop
    BY <2>3 DEF Drop, Server!Next
  <2>4. ASSUME NEW h \in Handlers,
               \/ RegisterSession(h) \/ CallBeginQuery(h) \/ WriteError(h)
               \/ TakeChunk(h) \/ LeaveWait(h) \/ WriteChunk(h)
               \/ EraseSession(h) \/ Cancel(h)
        PROVE  UNCHANGED Server!taskVars
    BY <2>4 DEF RegisterSession, CallBeginQuery, WriteError, TakeChunk, LeaveWait,
         WriteChunk, EraseSession, Cancel, serverVars, Server!taskVars
  <2>5. CASE \/ \E n \in Notifiers : NotifyTyping(n) \/ ModeCallStep(n)
             \/ RtcStep \/ Grab \/ Connect \/ UNCHANGED vars
    BY <2>5 DEF NotifyTyping, ModeCallStep, RtcStep, Dispatch, AppendChunk,
         CallEndQuery, Grab, Connect, vars, serverVars, Server!taskVars
  <2> HIDE DEF Server!Respond, Server!Lose
  <2> QED
    BY <2>1, <2>2, <2>3, <2>4, <2>5 DEF Next, HandlerStep, Server!Next
<1> QED
  BY <1>1, <1>2, Invariance, PTL DEF Spec, Server!Spec
=============================================================================
