-------------------------- MODULE OperationsProofs --------------------------
(***************************************************************************)
(* Proofs about the life of an operation, for any number of operations,    *)
(* concurrent requests and restarts, and whichever faults occur.           *)
(***************************************************************************)
EXTENDS Operations, TLAPS

\* An operation that anything is about has been prepared, so that its kind no longer changes.
Known ==
    /\ \A o \in Ops : kind[o] = "none" <=> gate[o] = "NONE"
    /\ \A h \in Handlers : hand[h].pc # "idle" => hand[h].op \in Ops /\ kind[hand[h].op] # "none"
    /\ \A h \in Handlers : call[h].pc # "none" => call[h].op \in Ops /\ kind[call[h].op] # "none"
    /\ \A o \in Ops : book[o] # "absent" => kind[o] # "none"

\* An answered call has an answer.
Answered == \A h \in Handlers : call[h].pc = "answered" => call[h].answer # "none"

\* A task that is beyond the look at the table and has not answered holds the lock.
Locked == \A h \in Handlers : call[h].pc \in {"prepare", "act", "acted", "worker"} => lock = h

\* The two stores that make an effect happen once. The supervisor's: a task acts on an intent
\* of its own, which it found absent, and nobody has acted on it before. The worker's: a command
\* in its journal was sent, and one that took effect is past "accepted".
Recorded ==
    /\ \A h \in Handlers :
        /\ call[h].pc = "prepare" => book[call[h].op] = "absent"
        /\ call[h].pc \in {"act", "acted", "worker", "ask"} => book[call[h].op] # "absent"
        /\ call[h].pc = "act" => effect[call[h].op] = 0 /\ call[h].op \notin sent
    /\ \A o \in sent : ByWorker(o) /\ book[o] # "absent"
    /\ \A o \in Ops : task[o] # "none" => o \in sent /\ wlog[o] \notin {"absent", "failed"}
    /\ \A o \in Ops : effect[o] > 0 => /\ book[o] # "absent"
                                       /\ ByWorker(o) => task[o] \in {"applied", "done"}
    /\ AtMostOnce

\* The inductive invariant.
OpsInv == TypeOK /\ Answered /\ Known /\ Locked /\ Recorded

\* The invariant holds initially.
LEMMA OpsStart == Init => OpsInv
BY OperationsAssumption
   DEF Init, OpsInv, TypeOK, Answered, Known, Locked, Recorded, AtMostOnce, ByWorker, NoHandler, NoCall,
       HandlerRecord, CallRecord, CallPcs, Outcomes, Statuses, Final

\* The records of a call and of a handler after an assignment.
LEMMA CallTypes ==
    ASSUME NEW f \in [Handlers -> CallRecord], NEW h \in Handlers
    PROVE  /\ \A p \in CallPcs : [f EXCEPT ![h].pc = p] \in [Handlers -> CallRecord]
           /\ \A a \in Outcomes :
                [f EXCEPT ![h].pc = "answered", ![h].answer = a] \in [Handlers -> CallRecord]
           /\ \A p \in CallPcs, o \in Ops \cup {"none"} :
                [f EXCEPT ![h] = [NoCall EXCEPT !.pc = p, !.op = o]] \in [Handlers -> CallRecord]
           /\ [f EXCEPT ![h] = NoCall] \in [Handlers -> CallRecord]
           /\ [g \in Handlers |-> NoCall] \in [Handlers -> CallRecord]
           /\ f[h].op \in Ops \cup {"none"} /\ f[h].answer \in Outcomes \cup {"none"}
BY DEF CallRecord, CallPcs, Outcomes, NoCall

LEMMA HandlerTypes ==
    ASSUME NEW f \in [Handlers -> HandlerRecord], NEW h \in Handlers
    PROVE  /\ \A p \in {"loaded", "claimed", "executing", "querying"} :
                [f EXCEPT ![h].pc = p] \in [Handlers -> HandlerRecord]
           /\ \A p \in {"loaded", "querying"}, o \in Ops :
                [f EXCEPT ![h] = [pc |-> p, op |-> o]] \in [Handlers -> HandlerRecord]
           /\ [f EXCEPT ![h] = NoHandler] \in [Handlers -> HandlerRecord]
           /\ [g \in Handlers |-> NoHandler] \in [Handlers -> HandlerRecord]
           /\ f[h].op \in Ops \cup {"none"}
BY DEF HandlerRecord, NoHandler

\* What receipt does: it asks the worker, or answers from the table.
LEMMA QueryCases ==
    ASSUME TypeOK, Known, NEW h \in Handlers, Query(h)
    PROVE  (Steps(h, "ask") /\ UNCHANGED lock) \/ \E a \in Outcomes : Answers(h, a)
<1> DEFINE o == call[h].op
<1>1. CASE Open(o) /\ kind[o] = "control"
  BY <1>1 DEF Query
<1>2. CASE ~(Open(o) /\ kind[o] = "control")
  <2>1. o \in Ops /\ book[o] \in {"absent", "null", "completed", "failed", "unknown"}
    BY DEF Query, At, Known, TypeOK
  <2>2. Answers(h, CASE book[o] = "absent" -> "refused" [] Open(o) -> "unknown" [] OTHER -> book[o])
    BY <1>2 DEF Query
  <2> QED BY <2>1, <2>2 DEF Open, Outcomes
<1> QED BY <1>1, <1>2

\* Every step keeps the types.
LEMMA TypeStep == TypeOK /\ Answered /\ Known /\ [Next]_vars => TypeOK'
<1> SUFFICES ASSUME TypeOK, Answered, Known, [Next]_vars PROVE TypeOK'
  OBVIOUS
<1> USE OperationsAssumption DEF TypeOK, Answered, Known
<1>1. CASE UNCHANGED vars
  BY <1>1 DEF vars, gatewayVars, supervisorVars, workerVars
<1>2. ASSUME NEW h \in Handlers, ExecuteExpired(h) PROVE TypeOK'
  BY <1>2, HandlerTypes DEF ExecuteExpired, Finish, Leaves, Final, Statuses, supervisorVars,
     workerVars
<1>3. ASSUME NEW h \in Handlers, ExecuteClaim(h) PROVE TypeOK'
  <2>1. hand' \in {[hand EXCEPT ![h].pc = "claimed"], [hand EXCEPT ![h] = NoHandler]}
    BY <1>3 DEF ExecuteClaim, Moves, Leaves
  <2>2. hand' \in [Handlers -> HandlerRecord]
    <3>1. [hand EXCEPT ![h].pc = "claimed"] \in [Handlers -> HandlerRecord]
      BY DEF HandlerRecord
    <3>2. [hand EXCEPT ![h] = NoHandler] \in [Handlers -> HandlerRecord]
      BY DEF HandlerRecord, NoHandler
    <3> QED BY <2>1, <3>1, <3>2
  <2>3. gate' \in [Ops -> Statuses]
    BY <1>3 DEF ExecuteClaim, Finish, Statuses
  <2> QED BY <1>3, <2>2, <2>3 DEF ExecuteClaim, gatewayVars, supervisorVars, workerVars
<1>4. ASSUME NEW h \in Handlers, ExecuteSend(h) PROVE TypeOK'
  <2>1. hand' = [hand EXCEPT ![h].pc = "executing"] /\ "lock" \in CallPcs /\ hand[h].op \in Ops
    BY <1>4 DEF ExecuteSend, Moves, CallPcs
  <2>2. call' = [call EXCEPT ![h] = [NoCall EXCEPT !.pc = "lock", !.op = hand[h].op]]
    BY <1>4 DEF ExecuteSend
  <2>3. hand' \in [Handlers -> HandlerRecord] /\ call' \in [Handlers -> CallRecord]
    <3> HIDE DEF Answered, Known
    <3> QED BY <2>1, <2>2, HandlerTypes, CallTypes
  <2> QED BY <1>4, <2>3 DEF ExecuteSend, workerVars
<1>5. ASSUME NEW h \in Handlers, ExecuteReply(h) PROVE TypeOK'
  <2>1. hand' \in [Handlers -> HandlerRecord] /\ call' \in [Handlers -> CallRecord]
    BY <1>5, HandlerTypes, CallTypes DEF ExecuteReply, Leaves
  <2>2. call[h].answer \in Outcomes
    BY <1>5 DEF ExecuteReply, CallRecord
  <2>3. StatusOf[call[h].answer] \in Statuses
    BY <2>2 DEF StatusOf, Outcomes, Statuses, Final
  <2>4. gate' \in [Ops -> Statuses]
    BY <1>5, <2>3 DEF ExecuteReply, Finish
  <2> QED BY <1>5, <2>1, <2>4 DEF ExecuteReply, gatewayVars, supervisorVars, workerVars
<1>6. ASSUME NEW h \in Handlers, ExecuteBroken(h) PROVE TypeOK'
  BY <1>6, HandlerTypes DEF ExecuteBroken, Finish, Leaves, Final, Statuses, supervisorVars,
     workerVars
<1>7. ASSUME NEW h \in Handlers, ExecuteUncertain(h) PROVE TypeOK'
  BY <1>7, HandlerTypes DEF ExecuteUncertain, Finish, Leaves, Final, Statuses, supervisorVars,
     workerVars
<1>8. ASSUME NEW h \in Handlers, QueryReply(h) PROVE TypeOK'
  <2>1. hand' \in [Handlers -> HandlerRecord] /\ call' \in [Handlers -> CallRecord]
    BY <1>8, HandlerTypes, CallTypes DEF QueryReply, Leaves
  <2>2. call[h].answer \in Outcomes
    BY <1>8 DEF QueryReply, CallRecord
  <2>3. StatusOf[call[h].answer] \in Statuses
    BY <2>2 DEF StatusOf, Outcomes, Statuses, Final
  <2>4. gate' \in [Ops -> Statuses]
    BY <1>8, <2>3 DEF QueryReply, Finish
  <2> QED BY <1>8, <2>1, <2>4 DEF QueryReply, gatewayVars, supervisorVars, workerVars
<1>9. ASSUME NEW h \in Handlers, QueryUncertain(h) PROVE TypeOK'
  BY <1>9, HandlerTypes DEF QueryUncertain, Leaves, Final, Statuses, supervisorVars, workerVars
<1>10. ASSUME NEW h \in Handlers, HandlerDropped(h) PROVE TypeOK'
  BY <1>10, HandlerTypes DEF HandlerDropped, Leaves, Final, Statuses, supervisorVars, workerVars
<1>11. ASSUME NEW h \in Handlers, Acquire(h) PROVE TypeOK'
  BY <1>11, CallTypes DEF Acquire, At, Steps, CallPcs, Outcomes, gatewayVars, workerVars
<1>12. ASSUME NEW h \in Handlers, PrepareRefuses(h) PROVE TypeOK'
  BY <1>12, CallTypes DEF PrepareRefuses, At, Answers, CallPcs, Outcomes, gatewayVars, workerVars
<1>13. ASSUME NEW h \in Handlers, Intent(h) PROVE TypeOK'
  BY <1>13, CallTypes DEF Intent, At, Steps, Records, CallPcs, Outcomes, gatewayVars, workerVars
<1>14. ASSUME NEW h \in Handlers, Act(h) PROVE TypeOK'
  <2>1. call' \in [Handlers -> CallRecord]
    BY <1>14, CallTypes DEF Act, Steps, CallPcs
  <2>2. effect' \in [Ops -> Nat]
    BY <1>14 DEF Act, At
  <2> QED BY <1>14, <2>1, <2>2 DEF Act, gatewayVars, supervisorVars, workerVars
<1>15. ASSUME NEW h \in Handlers, ActRecorded(h) PROVE TypeOK'
  BY <1>15, CallTypes DEF ActRecorded, At, Answers, Records, CallPcs, Outcomes, gatewayVars,
     workerVars
<1>16. ASSUME NEW h \in Handlers, LaunchLost(h) PROVE TypeOK'
  BY <1>16, CallTypes DEF LaunchLost, At, Answers, Records, CallPcs, Outcomes, gatewayVars,
     workerVars
<1>17. ASSUME NEW h \in Handlers, ActFails(h) PROVE TypeOK'
  BY <1>17, CallTypes DEF ActFails, At, Answers, Records, CallPcs, Outcomes, gatewayVars, workerVars
<1>18. ASSUME NEW h \in Handlers, SendWorker(h) PROVE TypeOK'
  <2>1. call' \in [Handlers -> CallRecord]
    BY <1>18, CallTypes DEF SendWorker, Steps, CallPcs
  <2>2. sent' \subseteq Ops
    BY <1>18 DEF SendWorker, At
  <2> QED BY <1>18, <2>1, <2>2 DEF SendWorker, gatewayVars, supervisorVars, workerVars
<1>19. ASSUME NEW h \in Handlers, WorkerReply(h) PROVE TypeOK'
  BY <1>19, CallTypes DEF WorkerReply, At, Answers, Records, CallPcs, Outcomes, gatewayVars,
     workerVars
<1>20. ASSUME NEW h \in Handlers, WorkerSilent(h) PROVE TypeOK'
  BY <1>20, CallTypes DEF WorkerSilent, At, Answers, Records, CallPcs, Outcomes, gatewayVars,
     workerVars
<1>21. ASSUME NEW h \in Handlers, Query(h) PROVE TypeOK'
  <2>1. CASE Steps(h, "ask") /\ UNCHANGED lock
    <3>1. call' \in [Handlers -> CallRecord]
      BY <2>1, CallTypes DEF Steps, CallPcs
    <3> QED BY <1>21, <2>1, <3>1 DEF Query, gatewayVars, supervisorVars, workerVars
  <2>2. ASSUME NEW a \in Outcomes, Answers(h, a) PROVE TypeOK'
    <3>1. call' \in [Handlers -> CallRecord] /\ lock' \in Handlers \cup {"none"}
      BY <2>2, CallTypes DEF Answers
    <3> QED BY <1>21, <3>1 DEF Query, gatewayVars, supervisorVars, workerVars
  <2> QED BY <1>21, <2>1, <2>2, QueryCases
<1>22. ASSUME NEW h \in Handlers, AskReply(h) PROVE TypeOK'
  BY <1>22, CallTypes DEF AskReply, At, Answers, Records, CallPcs, Outcomes, gatewayVars, workerVars
<1>23. ASSUME NEW h \in Handlers, AskSilent(h) PROVE TypeOK'
  BY <1>23, CallTypes DEF AskSilent, At, Answers, CallPcs, Outcomes, gatewayVars, workerVars
<1>24. ASSUME NEW h \in Handlers, AnswerUnread(h) PROVE TypeOK'
  BY <1>24, CallTypes DEF AnswerUnread, At, CallPcs, Outcomes, gatewayVars, workerVars
<1>25. ASSUME NEW h \in Handlers, NEW o \in Ops, ExecuteLoad(h, o) PROVE TypeOK'
  BY <1>25, CallTypes, HandlerTypes DEF ExecuteLoad, CallPcs, supervisorVars, workerVars
<1>26. ASSUME NEW h \in Handlers, NEW o \in Ops, QueryBegin(h, o) PROVE TypeOK'
  BY <1>26, CallTypes, HandlerTypes DEF QueryBegin, CallPcs, workerVars
<1>27. ASSUME NEW h \in Handlers, NEW o \in Ops, DuplicateCall(h, o) PROVE TypeOK'
  BY <1>27, CallTypes, HandlerTypes DEF DuplicateCall, CallPcs, gatewayVars, workerVars
<1>28. ASSUME NEW o \in Ops, Dispatch(o) PROVE TypeOK'
  BY <1>28 DEF Dispatch, Working, Logs, gatewayVars, supervisorVars
<1>29. ASSUME NEW o \in Ops, Apply(o) PROVE TypeOK'
  BY <1>29 DEF Apply, gatewayVars, supervisorVars
<1>30. ASSUME NEW o \in Ops, Complete(o) PROVE TypeOK'
  BY <1>30 DEF Complete, Logs, gatewayVars, supervisorVars
<1>31. ASSUME NEW o \in Ops, Raises(o) PROVE TypeOK'
  BY <1>31 DEF Raises, Working, Logs, gatewayVars, supervisorVars
<1>32. ASSUME NEW o \in Ops, TtlPasses(o) PROVE TypeOK'
  BY <1>32 DEF TtlPasses, supervisorVars, workerVars
<1>33. ASSUME NEW o \in Ops, NEW k \in Kinds, Prepare(o, k) PROVE TypeOK'
  BY <1>33 DEF Prepare, Finish, Statuses, supervisorVars, workerVars
<1>34. CASE GatewayRestarts
  <2>1. hand' \in [Handlers -> HandlerRecord]
    BY <1>34 DEF GatewayRestarts, HandlerRecord, NoHandler
  <2>2. gate' \in [Ops -> Statuses]
    BY <1>34 DEF GatewayRestarts, Statuses
  <2> QED BY <1>34, <2>1, <2>2 DEF GatewayRestarts, gatewayVars, supervisorVars, workerVars
<1>35. CASE SupervisorRestarts
  <2>1. call' \in [Handlers -> CallRecord]
    BY <1>35 DEF SupervisorRestarts, CallRecord, CallPcs, NoCall
  <2>2. book' \in [Ops -> {"absent", "null", "completed", "failed", "unknown"}]
    BY <1>35 DEF SupervisorRestarts
  <2> QED BY <1>35, <2>1, <2>2 DEF SupervisorRestarts, gatewayVars, supervisorVars, workerVars
<1>36. CASE Quiesce
  BY <1>36, CallTypes, HandlerTypes DEF Quiesce, HandlerRecord, CallRecord, CallPcs, gatewayVars,
     supervisorVars, workerVars
<1>37. CASE EngineEnds
  BY <1>37, CallTypes, HandlerTypes DEF EngineEnds, HandlerRecord, CallRecord, CallPcs, gatewayVars,
     supervisorVars, workerVars
<1> QED BY <1>1, <1>2, <1>3, <1>4, <1>5, <1>6, <1>7, <1>8, <1>9, <1>10, <1>11, <1>12, <1>13, <1>14,
       <1>15, <1>16, <1>17, <1>18, <1>19, <1>20, <1>21, <1>22, <1>23, <1>24, <1>25, <1>26, <1>27,
       <1>28, <1>29, <1>30, <1>31, <1>32, <1>33, <1>34, <1>35, <1>36, <1>37 DEF Next, HandlerNext,
       CallNext, WorkerNext

\* Every answer says something.
LEMMA AnsweredStep == TypeOK /\ Answered /\ Known /\ [Next]_vars => Answered'
<1> SUFFICES ASSUME TypeOK, Answered, Known, [Next]_vars PROVE Answered'
  OBVIOUS
<1> USE OperationsAssumption DEF TypeOK, Answered, CallRecord, CallPcs, Outcomes
<1>1. CASE UNCHANGED vars
  BY <1>1 DEF vars, gatewayVars, supervisorVars, workerVars
<1>2. ASSUME NEW h \in Handlers, ExecuteExpired(h) PROVE Answered'
  BY <1>2 DEF ExecuteExpired, Finish, Leaves, NoHandler, supervisorVars, workerVars
<1>3. ASSUME NEW h \in Handlers, ExecuteClaim(h) PROVE Answered'
  BY <1>3 DEF ExecuteClaim, Finish, Moves, Leaves, NoHandler, supervisorVars, workerVars
<1>4. ASSUME NEW h \in Handlers, ExecuteSend(h) PROVE Answered'
  BY <1>4 DEF ExecuteSend, Moves, NoCall, workerVars
<1>5. ASSUME NEW h \in Handlers, ExecuteReply(h) PROVE Answered'
  BY <1>5 DEF ExecuteReply, Finish, Leaves, NoHandler, NoCall, StatusOf, workerVars
<1>6. ASSUME NEW h \in Handlers, ExecuteBroken(h) PROVE Answered'
  BY <1>6 DEF ExecuteBroken, Finish, Leaves, NoHandler, supervisorVars, workerVars
<1>7. ASSUME NEW h \in Handlers, ExecuteUncertain(h) PROVE Answered'
  BY <1>7 DEF ExecuteUncertain, Finish, Leaves, NoHandler, supervisorVars, workerVars
<1>8. ASSUME NEW h \in Handlers, QueryReply(h) PROVE Answered'
  BY <1>8 DEF QueryReply, Finish, Leaves, NoHandler, NoCall, StatusOf, workerVars
<1>9. ASSUME NEW h \in Handlers, QueryUncertain(h) PROVE Answered'
  BY <1>9 DEF QueryUncertain, Leaves, NoHandler, NoCall, supervisorVars, workerVars
<1>10. ASSUME NEW h \in Handlers, HandlerDropped(h) PROVE Answered'
  BY <1>10 DEF HandlerDropped, Leaves, NoHandler, supervisorVars, workerVars
<1>11. ASSUME NEW h \in Handlers, Acquire(h) PROVE Answered'
  BY <1>11 DEF Acquire, At, Steps, gatewayVars, workerVars
<1>12. ASSUME NEW h \in Handlers, PrepareRefuses(h) PROVE Answered'
  BY <1>12 DEF PrepareRefuses, At, Answers, gatewayVars, workerVars
<1>13. ASSUME NEW h \in Handlers, Intent(h) PROVE Answered'
  BY <1>13 DEF Intent, At, Steps, Records, gatewayVars, workerVars
<1>14. ASSUME NEW h \in Handlers, Act(h) PROVE Answered'
  BY <1>14 DEF Act, At, Steps, gatewayVars, workerVars
<1>15. ASSUME NEW h \in Handlers, ActRecorded(h) PROVE Answered'
  BY <1>15 DEF ActRecorded, At, Answers, Records, gatewayVars, workerVars
<1>16. ASSUME NEW h \in Handlers, LaunchLost(h) PROVE Answered'
  BY <1>16 DEF LaunchLost, At, Answers, Records, gatewayVars, workerVars
<1>17. ASSUME NEW h \in Handlers, ActFails(h) PROVE Answered'
  BY <1>17 DEF ActFails, At, Answers, Records, gatewayVars, workerVars
<1>18. ASSUME NEW h \in Handlers, SendWorker(h) PROVE Answered'
  BY <1>18 DEF SendWorker, At, Steps, gatewayVars, workerVars
<1>19. ASSUME NEW h \in Handlers, WorkerReply(h) PROVE Answered'
  BY <1>19 DEF WorkerReply, At, Answers, Records, gatewayVars, workerVars
<1>20. ASSUME NEW h \in Handlers, WorkerSilent(h) PROVE Answered'
  BY <1>20 DEF WorkerSilent, At, Answers, Records, gatewayVars, workerVars
<1>21. ASSUME NEW h \in Handlers, Query(h) PROVE Answered'
  <2>1. CASE Steps(h, "ask") /\ UNCHANGED lock
    BY <2>1 DEF Steps, CallRecord
  <2>2. ASSUME NEW a \in Outcomes, Answers(h, a) PROVE Answered'
    BY <2>2 DEF Answers
  <2> QED BY <1>21, <2>1, <2>2, QueryCases
<1>22. ASSUME NEW h \in Handlers, AskReply(h) PROVE Answered'
  BY <1>22 DEF AskReply, At, Answers, Records, gatewayVars, workerVars
<1>23. ASSUME NEW h \in Handlers, AskSilent(h) PROVE Answered'
  BY <1>23 DEF AskSilent, At, Answers, gatewayVars, workerVars
<1>24. ASSUME NEW h \in Handlers, AnswerUnread(h) PROVE Answered'
  BY <1>24 DEF AnswerUnread, At, NoHandler, NoCall, gatewayVars, workerVars
<1>25. ASSUME NEW h \in Handlers, NEW o \in Ops, ExecuteLoad(h, o) PROVE Answered'
  BY <1>25 DEF ExecuteLoad, Resting, NoHandler, NoCall, supervisorVars, workerVars
<1>26. ASSUME NEW h \in Handlers, NEW o \in Ops, QueryBegin(h, o) PROVE Answered'
  BY <1>26 DEF QueryBegin, Resting, NoHandler, NoCall, workerVars
<1>27. ASSUME NEW h \in Handlers, NEW o \in Ops, DuplicateCall(h, o) PROVE Answered'
  BY <1>27 DEF DuplicateCall, Resting, NoHandler, NoCall, gatewayVars, workerVars
<1>28. ASSUME NEW o \in Ops, Dispatch(o) PROVE Answered'
  BY <1>28 DEF Dispatch, Working, Logs, gatewayVars, supervisorVars
<1>29. ASSUME NEW o \in Ops, Apply(o) PROVE Answered'
  BY <1>29 DEF Apply, gatewayVars, supervisorVars
<1>30. ASSUME NEW o \in Ops, Complete(o) PROVE Answered'
  BY <1>30 DEF Complete, Logs, gatewayVars, supervisorVars
<1>31. ASSUME NEW o \in Ops, Raises(o) PROVE Answered'
  BY <1>31 DEF Raises, Working, Logs, gatewayVars, supervisorVars
<1>32. ASSUME NEW o \in Ops, TtlPasses(o) PROVE Answered'
  BY <1>32 DEF TtlPasses, supervisorVars, workerVars
<1>33. ASSUME NEW o \in Ops, NEW k \in Kinds, Prepare(o, k) PROVE Answered'
  BY <1>33 DEF Prepare, Finish, supervisorVars, workerVars
<1>34. CASE GatewayRestarts
  BY <1>34 DEF GatewayRestarts, NoHandler, supervisorVars, workerVars
<1>35. CASE SupervisorRestarts
  BY <1>35 DEF SupervisorRestarts, NoCall, gatewayVars, workerVars
<1>36. CASE Quiesce
  BY <1>36 DEF Quiesce, gatewayVars, supervisorVars, workerVars
<1>37. CASE EngineEnds
  BY <1>37 DEF EngineEnds, gatewayVars, supervisorVars, workerVars
<1> QED BY <1>1, <1>2, <1>3, <1>4, <1>5, <1>6, <1>7, <1>8, <1>9, <1>10, <1>11, <1>12, <1>13, <1>14,
       <1>15, <1>16, <1>17, <1>18, <1>19, <1>20, <1>21, <1>22, <1>23, <1>24, <1>25, <1>26, <1>27,
       <1>28, <1>29, <1>30, <1>31, <1>32, <1>33, <1>34, <1>35, <1>36, <1>37 DEF Next, HandlerNext,
       CallNext, WorkerNext

\* Only Prepare changes a kind, of an operation nothing is about yet.
LEMMA KnownStep == TypeOK /\ Answered /\ Known /\ [Next]_vars => Known'
<1> SUFFICES ASSUME TypeOK, Answered, Known, [Next]_vars PROVE Known'
  OBVIOUS
<1> USE OperationsAssumption DEF TypeOK, Answered, Known, Final, HandlerRecord, CallRecord, CallPcs,
       Outcomes, Statuses, Final
<1>1. CASE UNCHANGED vars
  BY <1>1 DEF vars, gatewayVars, supervisorVars, workerVars
<1>2. ASSUME NEW h \in Handlers, ExecuteExpired(h) PROVE Known'
  BY <1>2 DEF ExecuteExpired, Finish, Leaves, NoHandler, supervisorVars, workerVars
<1>3. ASSUME NEW h \in Handlers, ExecuteClaim(h) PROVE Known'
  BY <1>3 DEF ExecuteClaim, Finish, Moves, Leaves, NoHandler, supervisorVars, workerVars
<1>4. ASSUME NEW h \in Handlers, ExecuteSend(h) PROVE Known'
  BY <1>4 DEF ExecuteSend, Moves, NoCall, workerVars
<1>5. ASSUME NEW h \in Handlers, ExecuteReply(h) PROVE Known'
  BY <1>5 DEF ExecuteReply, Finish, Leaves, NoHandler, NoCall, StatusOf, workerVars
<1>6. ASSUME NEW h \in Handlers, ExecuteBroken(h) PROVE Known'
  BY <1>6 DEF ExecuteBroken, Finish, Leaves, NoHandler, supervisorVars, workerVars
<1>7. ASSUME NEW h \in Handlers, ExecuteUncertain(h) PROVE Known'
  BY <1>7 DEF ExecuteUncertain, Finish, Leaves, NoHandler, supervisorVars, workerVars
<1>8. ASSUME NEW h \in Handlers, QueryReply(h) PROVE Known'
  BY <1>8 DEF QueryReply, Finish, Leaves, NoHandler, NoCall, StatusOf, workerVars
<1>9. ASSUME NEW h \in Handlers, QueryUncertain(h) PROVE Known'
  BY <1>9 DEF QueryUncertain, Leaves, NoHandler, NoCall, supervisorVars, workerVars
<1>10. ASSUME NEW h \in Handlers, HandlerDropped(h) PROVE Known'
  BY <1>10 DEF HandlerDropped, Leaves, NoHandler, supervisorVars, workerVars
<1>11. ASSUME NEW h \in Handlers, Acquire(h) PROVE Known'
  BY <1>11 DEF Acquire, At, Steps, gatewayVars, workerVars
<1>12. ASSUME NEW h \in Handlers, PrepareRefuses(h) PROVE Known'
  BY <1>12 DEF PrepareRefuses, At, Answers, gatewayVars, workerVars
<1>13. ASSUME NEW h \in Handlers, Intent(h) PROVE Known'
  BY <1>13 DEF Intent, At, Steps, Records, gatewayVars, workerVars
<1>14. ASSUME NEW h \in Handlers, Act(h) PROVE Known'
  BY <1>14 DEF Act, At, Steps, gatewayVars, workerVars
<1>15. ASSUME NEW h \in Handlers, ActRecorded(h) PROVE Known'
  BY <1>15 DEF ActRecorded, At, Answers, Records, gatewayVars, workerVars
<1>16. ASSUME NEW h \in Handlers, LaunchLost(h) PROVE Known'
  BY <1>16 DEF LaunchLost, At, Answers, Records, gatewayVars, workerVars
<1>17. ASSUME NEW h \in Handlers, ActFails(h) PROVE Known'
  BY <1>17 DEF ActFails, At, Answers, Records, gatewayVars, workerVars
<1>18. ASSUME NEW h \in Handlers, SendWorker(h) PROVE Known'
  BY <1>18 DEF SendWorker, At, Steps, gatewayVars, workerVars
<1>19. ASSUME NEW h \in Handlers, WorkerReply(h) PROVE Known'
  BY <1>19 DEF WorkerReply, At, Answers, Records, gatewayVars, workerVars
<1>20. ASSUME NEW h \in Handlers, WorkerSilent(h) PROVE Known'
  BY <1>20 DEF WorkerSilent, At, Answers, Records, gatewayVars, workerVars
<1>21. ASSUME NEW h \in Handlers, Query(h) PROVE Known'
  <2>1. call[h].pc = "query" /\ UNCHANGED <<kind, gate, hand, book>>
    BY <1>21 DEF Query, At, gatewayVars
  <2>2. Steps(h, "ask") \/ \E a \in Outcomes : Answers(h, a)
    <3> HIDE DEF Answered, Known, TypeOK, Outcomes
    <3> QED BY <1>21, QueryCases
  <2>3. \A g \in Handlers : call'[g].op = call[g].op /\ (call'[g].pc # "none" => call[g].pc # "none")
    <3>1. CASE Steps(h, "ask")
      BY <2>1, <3>1 DEF Steps
    <3>2. CASE \E a \in Outcomes : Answers(h, a)
      <4> PICK a \in Outcomes : call' = [call EXCEPT ![h].pc = "answered", ![h].answer = a]
        BY <3>2 DEF Answers
      <4> HIDE DEF Outcomes
      <4> QED BY <2>1
    <3> QED BY <2>2, <3>1, <3>2
  <2> QED BY <2>1, <2>3
<1>22. ASSUME NEW h \in Handlers, AskReply(h) PROVE Known'
  BY <1>22 DEF AskReply, At, Answers, Records, gatewayVars, workerVars
<1>23. ASSUME NEW h \in Handlers, AskSilent(h) PROVE Known'
  BY <1>23 DEF AskSilent, At, Answers, gatewayVars, workerVars
<1>24. ASSUME NEW h \in Handlers, AnswerUnread(h) PROVE Known'
  BY <1>24 DEF AnswerUnread, At, NoHandler, NoCall, gatewayVars, workerVars
<1>25. ASSUME NEW h \in Handlers, NEW o \in Ops, ExecuteLoad(h, o) PROVE Known'
  BY <1>25 DEF ExecuteLoad, Resting, NoHandler, NoCall, supervisorVars, workerVars
<1>26. ASSUME NEW h \in Handlers, NEW o \in Ops, QueryBegin(h, o) PROVE Known'
  BY <1>26 DEF QueryBegin, Resting, NoHandler, NoCall, workerVars
<1>27. ASSUME NEW h \in Handlers, NEW o \in Ops, DuplicateCall(h, o) PROVE Known'
  BY <1>27 DEF DuplicateCall, Resting, NoHandler, NoCall, gatewayVars, workerVars
<1>28. ASSUME NEW o \in Ops, Dispatch(o) PROVE Known'
  BY <1>28 DEF Dispatch, Working, Logs, gatewayVars, supervisorVars
<1>29. ASSUME NEW o \in Ops, Apply(o) PROVE Known'
  BY <1>29 DEF Apply, gatewayVars, supervisorVars
<1>30. ASSUME NEW o \in Ops, Complete(o) PROVE Known'
  BY <1>30 DEF Complete, Logs, gatewayVars, supervisorVars
<1>31. ASSUME NEW o \in Ops, Raises(o) PROVE Known'
  BY <1>31 DEF Raises, Working, Logs, gatewayVars, supervisorVars
<1>32. ASSUME NEW o \in Ops, TtlPasses(o) PROVE Known'
  BY <1>32 DEF TtlPasses, supervisorVars, workerVars
<1>33. ASSUME NEW o \in Ops, NEW k \in Kinds, Prepare(o, k) PROVE Known'
  BY <1>33 DEF Prepare, Finish, supervisorVars, workerVars
<1>34. CASE GatewayRestarts
  BY <1>34 DEF GatewayRestarts, NoHandler, supervisorVars, workerVars
<1>35. CASE SupervisorRestarts
  BY <1>35 DEF SupervisorRestarts, NoCall, gatewayVars, workerVars
<1>36. CASE Quiesce
  BY <1>36 DEF Quiesce, gatewayVars, supervisorVars, workerVars
<1>37. CASE EngineEnds
  BY <1>37 DEF EngineEnds, gatewayVars, supervisorVars, workerVars
<1> QED BY <1>1, <1>2, <1>3, <1>4, <1>5, <1>6, <1>7, <1>8, <1>9, <1>10, <1>11, <1>12, <1>13, <1>14,
       <1>15, <1>16, <1>17, <1>18, <1>19, <1>20, <1>21, <1>22, <1>23, <1>24, <1>25, <1>26, <1>27,
       <1>28, <1>29, <1>30, <1>31, <1>32, <1>33, <1>34, <1>35, <1>36, <1>37 DEF Next, HandlerNext,
       CallNext, WorkerNext

\* Acquire is the only way past the table, and waits for the lock.
LEMMA LockedStep == TypeOK /\ Locked /\ [Next]_vars => Locked'
<1> SUFFICES ASSUME TypeOK, Locked, [Next]_vars PROVE Locked'
  OBVIOUS
<1> USE OperationsAssumption DEF TypeOK, Locked, CallRecord, CallPcs, Outcomes
<1>1. CASE UNCHANGED vars
  BY <1>1 DEF vars, gatewayVars, supervisorVars, workerVars
<1>2. ASSUME NEW h \in Handlers, ExecuteExpired(h) PROVE Locked'
  BY <1>2 DEF ExecuteExpired, Finish, Leaves, NoHandler, supervisorVars, workerVars
<1>3. ASSUME NEW h \in Handlers, ExecuteClaim(h) PROVE Locked'
  BY <1>3 DEF ExecuteClaim, Finish, Moves, Leaves, NoHandler, supervisorVars, workerVars
<1>4. ASSUME NEW h \in Handlers, ExecuteSend(h) PROVE Locked'
  BY <1>4 DEF ExecuteSend, Moves, NoCall, workerVars
<1>5. ASSUME NEW h \in Handlers, ExecuteReply(h) PROVE Locked'
  BY <1>5 DEF ExecuteReply, Finish, Leaves, NoHandler, NoCall, StatusOf, workerVars
<1>6. ASSUME NEW h \in Handlers, ExecuteBroken(h) PROVE Locked'
  BY <1>6 DEF ExecuteBroken, Finish, Leaves, NoHandler, supervisorVars, workerVars
<1>7. ASSUME NEW h \in Handlers, ExecuteUncertain(h) PROVE Locked'
  BY <1>7 DEF ExecuteUncertain, Finish, Leaves, NoHandler, supervisorVars, workerVars
<1>8. ASSUME NEW h \in Handlers, QueryReply(h) PROVE Locked'
  BY <1>8 DEF QueryReply, Finish, Leaves, NoHandler, NoCall, StatusOf, workerVars
<1>9. ASSUME NEW h \in Handlers, QueryUncertain(h) PROVE Locked'
  BY <1>9 DEF QueryUncertain, Leaves, NoHandler, NoCall, supervisorVars, workerVars
<1>10. ASSUME NEW h \in Handlers, HandlerDropped(h) PROVE Locked'
  BY <1>10 DEF HandlerDropped, Leaves, NoHandler, supervisorVars, workerVars
<1>11. ASSUME NEW h \in Handlers, Acquire(h) PROVE Locked'
  BY <1>11 DEF Acquire, At, Steps, gatewayVars, workerVars
<1>12. ASSUME NEW h \in Handlers, PrepareRefuses(h) PROVE Locked'
  BY <1>12 DEF PrepareRefuses, At, Answers, gatewayVars, workerVars
<1>13. ASSUME NEW h \in Handlers, Intent(h) PROVE Locked'
  BY <1>13 DEF Intent, At, Steps, Records, gatewayVars, workerVars
<1>14. ASSUME NEW h \in Handlers, Act(h) PROVE Locked'
  BY <1>14 DEF Act, At, Steps, gatewayVars, workerVars
<1>15. ASSUME NEW h \in Handlers, ActRecorded(h) PROVE Locked'
  BY <1>15 DEF ActRecorded, At, Answers, Records, gatewayVars, workerVars
<1>16. ASSUME NEW h \in Handlers, LaunchLost(h) PROVE Locked'
  BY <1>16 DEF LaunchLost, At, Answers, Records, gatewayVars, workerVars
<1>17. ASSUME NEW h \in Handlers, ActFails(h) PROVE Locked'
  BY <1>17 DEF ActFails, At, Answers, Records, gatewayVars, workerVars
<1>18. ASSUME NEW h \in Handlers, SendWorker(h) PROVE Locked'
  BY <1>18 DEF SendWorker, At, Steps, gatewayVars, workerVars
<1>19. ASSUME NEW h \in Handlers, WorkerReply(h) PROVE Locked'
  BY <1>19 DEF WorkerReply, At, Answers, Records, gatewayVars, workerVars
<1>20. ASSUME NEW h \in Handlers, WorkerSilent(h) PROVE Locked'
  BY <1>20 DEF WorkerSilent, At, Answers, Records, gatewayVars, workerVars
<1>21. ASSUME NEW h \in Handlers, Query(h) PROVE Locked'
  BY <1>21 DEF Query, At, Steps, Answers, Open, gatewayVars, workerVars
<1>22. ASSUME NEW h \in Handlers, AskReply(h) PROVE Locked'
  BY <1>22 DEF AskReply, At, Answers, Records, gatewayVars, workerVars
<1>23. ASSUME NEW h \in Handlers, AskSilent(h) PROVE Locked'
  BY <1>23 DEF AskSilent, At, Answers, gatewayVars, workerVars
<1>24. ASSUME NEW h \in Handlers, AnswerUnread(h) PROVE Locked'
  BY <1>24 DEF AnswerUnread, At, NoHandler, NoCall, gatewayVars, workerVars
<1>25. ASSUME NEW h \in Handlers, NEW o \in Ops, ExecuteLoad(h, o) PROVE Locked'
  BY <1>25 DEF ExecuteLoad, Resting, NoHandler, NoCall, supervisorVars, workerVars
<1>26. ASSUME NEW h \in Handlers, NEW o \in Ops, QueryBegin(h, o) PROVE Locked'
  BY <1>26 DEF QueryBegin, Resting, NoHandler, NoCall, workerVars
<1>27. ASSUME NEW h \in Handlers, NEW o \in Ops, DuplicateCall(h, o) PROVE Locked'
  BY <1>27 DEF DuplicateCall, Resting, NoHandler, NoCall, gatewayVars, workerVars
<1>28. ASSUME NEW o \in Ops, Dispatch(o) PROVE Locked'
  BY <1>28 DEF Dispatch, Working, Logs, gatewayVars, supervisorVars
<1>29. ASSUME NEW o \in Ops, Apply(o) PROVE Locked'
  BY <1>29 DEF Apply, gatewayVars, supervisorVars
<1>30. ASSUME NEW o \in Ops, Complete(o) PROVE Locked'
  BY <1>30 DEF Complete, Logs, gatewayVars, supervisorVars
<1>31. ASSUME NEW o \in Ops, Raises(o) PROVE Locked'
  BY <1>31 DEF Raises, Working, Logs, gatewayVars, supervisorVars
<1>32. ASSUME NEW o \in Ops, TtlPasses(o) PROVE Locked'
  BY <1>32 DEF TtlPasses, supervisorVars, workerVars
<1>33. ASSUME NEW o \in Ops, NEW k \in Kinds, Prepare(o, k) PROVE Locked'
  BY <1>33 DEF Prepare, Finish, supervisorVars, workerVars
<1>34. CASE GatewayRestarts
  BY <1>34 DEF GatewayRestarts, NoHandler, supervisorVars, workerVars
<1>35. CASE SupervisorRestarts
  BY <1>35 DEF SupervisorRestarts, NoCall, gatewayVars, workerVars
<1>36. CASE Quiesce
  BY <1>36 DEF Quiesce, gatewayVars, supervisorVars, workerVars
<1>37. CASE EngineEnds
  BY <1>37 DEF EngineEnds, gatewayVars, supervisorVars, workerVars
<1> QED BY <1>1, <1>2, <1>3, <1>4, <1>5, <1>6, <1>7, <1>8, <1>9, <1>10, <1>11, <1>12, <1>13, <1>14,
       <1>15, <1>16, <1>17, <1>18, <1>19, <1>20, <1>21, <1>22, <1>23, <1>24, <1>25, <1>26, <1>27,
       <1>28, <1>29, <1>30, <1>31, <1>32, <1>33, <1>34, <1>35, <1>36, <1>37 DEF Next, HandlerNext,
       CallNext, WorkerNext

\* Every step keeps both records ahead of the effect.
LEMMA RecordedStep == TypeOK /\ Known /\ Locked /\ Recorded /\ [Next]_vars => Recorded'
<1> SUFFICES ASSUME TypeOK, Known, Locked, Recorded, [Next]_vars PROVE Recorded'
  OBVIOUS
<1> USE OperationsAssumption DEF TypeOK, Known, Locked, Recorded, AtMostOnce, ByWorker,
       HandlerRecord, CallRecord, CallPcs, Outcomes, Statuses, Final
<1>1. CASE UNCHANGED vars
  BY <1>1 DEF vars, gatewayVars, supervisorVars, workerVars
<1>2. ASSUME NEW h \in Handlers, ExecuteExpired(h) PROVE Recorded'
  BY <1>2 DEF ExecuteExpired, Finish, Leaves, NoHandler, supervisorVars, workerVars
<1>3. ASSUME NEW h \in Handlers, ExecuteClaim(h) PROVE Recorded'
  BY <1>3 DEF ExecuteClaim, Finish, Moves, Leaves, NoHandler, supervisorVars, workerVars
<1>4. ASSUME NEW h \in Handlers, ExecuteSend(h) PROVE Recorded'
  BY <1>4 DEF ExecuteSend, Moves, NoCall, workerVars
<1>5. ASSUME NEW h \in Handlers, ExecuteReply(h) PROVE Recorded'
  BY <1>5 DEF ExecuteReply, Finish, Leaves, NoHandler, NoCall, StatusOf, workerVars
<1>6. ASSUME NEW h \in Handlers, ExecuteBroken(h) PROVE Recorded'
  BY <1>6 DEF ExecuteBroken, Finish, Leaves, NoHandler, supervisorVars, workerVars
<1>7. ASSUME NEW h \in Handlers, ExecuteUncertain(h) PROVE Recorded'
  BY <1>7 DEF ExecuteUncertain, Finish, Leaves, NoHandler, supervisorVars, workerVars
<1>8. ASSUME NEW h \in Handlers, QueryReply(h) PROVE Recorded'
  BY <1>8 DEF QueryReply, Finish, Leaves, NoHandler, NoCall, StatusOf, workerVars
<1>9. ASSUME NEW h \in Handlers, QueryUncertain(h) PROVE Recorded'
  BY <1>9 DEF QueryUncertain, Leaves, NoHandler, NoCall, supervisorVars, workerVars
<1>10. ASSUME NEW h \in Handlers, HandlerDropped(h) PROVE Recorded'
  BY <1>10 DEF HandlerDropped, Leaves, NoHandler, supervisorVars, workerVars
<1>11. ASSUME NEW h \in Handlers, Acquire(h) PROVE Recorded'
  BY <1>11 DEF Acquire, At, Steps, gatewayVars, workerVars
<1>12. ASSUME NEW h \in Handlers, PrepareRefuses(h) PROVE Recorded'
  BY <1>12 DEF PrepareRefuses, At, Answers, gatewayVars, workerVars
<1>13. ASSUME NEW h \in Handlers, Intent(h) PROVE Recorded'
  <2>1. /\ call[h].op \in Ops /\ book[call[h].op] = "absent" /\ call[h].op \notin sent
    BY <1>13 DEF Intent, At
  <2>2. /\ book' = [book EXCEPT ![call[h].op] = "null"] /\ call' = [call EXCEPT ![h].pc = "act"]
        /\ UNCHANGED <<kind, sent, task, wlog, effect>>
    BY <1>13 DEF Intent, Records, Steps, gatewayVars, workerVars
  <2>3. \A o \in Ops : book'[o] = IF o = call[h].op THEN "null" ELSE book[o]
    BY <2>1, <2>2
  <2>4. \A g \in Handlers : /\ call'[g].op = call[g].op
                            /\ call'[g].pc = IF g = h THEN "act" ELSE call[g].pc
    BY <2>2
  <2>5. \A g \in Handlers : call[g].pc \in {"prepare", "act", "acted", "worker"} => g = h
    BY <1>13 DEF Intent, At
  <2>6. effect[call[h].op] = 0
    <3>1. effect[call[h].op] \in Nat
      BY <2>1
    <3>2. ~(effect[call[h].op] > 0)
      BY <2>1
    <3> QED BY <3>1, <3>2
  <2> QED BY <2>1, <2>2, <2>3, <2>4, <2>5, <2>6
<1>14. ASSUME NEW h \in Handlers, Act(h) PROVE Recorded'
  BY <1>14 DEF Act, At, Steps, gatewayVars, workerVars
<1>15. ASSUME NEW h \in Handlers, ActRecorded(h) PROVE Recorded'
  BY <1>15 DEF ActRecorded, At, Answers, Records, gatewayVars, workerVars
<1>16. ASSUME NEW h \in Handlers, LaunchLost(h) PROVE Recorded'
  BY <1>16 DEF LaunchLost, At, Answers, Records, gatewayVars, workerVars
<1>17. ASSUME NEW h \in Handlers, ActFails(h) PROVE Recorded'
  BY <1>17 DEF ActFails, At, Answers, Records, gatewayVars, workerVars
<1>18. ASSUME NEW h \in Handlers, SendWorker(h) PROVE Recorded'
  BY <1>18 DEF SendWorker, At, Steps, gatewayVars, workerVars
<1>19. ASSUME NEW h \in Handlers, WorkerReply(h) PROVE Recorded'
  BY <1>19 DEF WorkerReply, At, Answers, Records, gatewayVars, workerVars
<1>20. ASSUME NEW h \in Handlers, WorkerSilent(h) PROVE Recorded'
  BY <1>20 DEF WorkerSilent, At, Answers, Records, gatewayVars, workerVars
<1>21. ASSUME NEW h \in Handlers, Query(h) PROVE Recorded'
  BY <1>21 DEF Query, At, Steps, Answers, Open, gatewayVars, workerVars
<1>22. ASSUME NEW h \in Handlers, AskReply(h) PROVE Recorded'
  BY <1>22 DEF AskReply, At, Answers, Records, gatewayVars, workerVars
<1>23. ASSUME NEW h \in Handlers, AskSilent(h) PROVE Recorded'
  BY <1>23 DEF AskSilent, At, Answers, gatewayVars, workerVars
<1>24. ASSUME NEW h \in Handlers, AnswerUnread(h) PROVE Recorded'
  BY <1>24 DEF AnswerUnread, At, NoHandler, NoCall, gatewayVars, workerVars
<1>25. ASSUME NEW h \in Handlers, NEW o \in Ops, ExecuteLoad(h, o) PROVE Recorded'
  BY <1>25 DEF ExecuteLoad, Resting, NoHandler, NoCall, supervisorVars, workerVars
<1>26. ASSUME NEW h \in Handlers, NEW o \in Ops, QueryBegin(h, o) PROVE Recorded'
  BY <1>26 DEF QueryBegin, Resting, NoHandler, NoCall, workerVars
<1>27. ASSUME NEW h \in Handlers, NEW o \in Ops, DuplicateCall(h, o) PROVE Recorded'
  BY <1>27 DEF DuplicateCall, Resting, NoHandler, NoCall, gatewayVars, workerVars
<1>28. ASSUME NEW o \in Ops, Dispatch(o) PROVE Recorded'
  BY <1>28 DEF Dispatch, Working, Logs, gatewayVars, supervisorVars
<1>29. ASSUME NEW o \in Ops, Apply(o) PROVE Recorded'
  BY <1>29 DEF Apply, gatewayVars, supervisorVars
<1>30. ASSUME NEW o \in Ops, Complete(o) PROVE Recorded'
  BY <1>30 DEF Complete, Logs, gatewayVars, supervisorVars
<1>31. ASSUME NEW o \in Ops, Raises(o) PROVE Recorded'
  BY <1>31 DEF Raises, Working, Logs, gatewayVars, supervisorVars
<1>32. ASSUME NEW o \in Ops, TtlPasses(o) PROVE Recorded'
  BY <1>32 DEF TtlPasses, supervisorVars, workerVars
<1>33. ASSUME NEW o \in Ops, NEW k \in Kinds, Prepare(o, k) PROVE Recorded'
  BY <1>33 DEF Prepare, Finish, supervisorVars, workerVars
<1>34. CASE GatewayRestarts
  BY <1>34 DEF GatewayRestarts, NoHandler, supervisorVars, workerVars
<1>35. CASE SupervisorRestarts
  BY <1>35 DEF SupervisorRestarts, NoCall, gatewayVars, workerVars
<1>36. CASE Quiesce
  BY <1>36 DEF Quiesce, gatewayVars, supervisorVars, workerVars
<1>37. CASE EngineEnds
  BY <1>37 DEF EngineEnds, gatewayVars, supervisorVars, workerVars
<1> QED BY <1>1, <1>2, <1>3, <1>4, <1>5, <1>6, <1>7, <1>8, <1>9, <1>10, <1>11, <1>12, <1>13, <1>14,
       <1>15, <1>16, <1>17, <1>18, <1>19, <1>20, <1>21, <1>22, <1>23, <1>24, <1>25, <1>26, <1>27,
       <1>28, <1>29, <1>30, <1>31, <1>32, <1>33, <1>34, <1>35, <1>36, <1>37 DEF Next, HandlerNext,
       CallNext, WorkerNext

\* The invariant holds always.
THEOREM OpsAlways == Spec => []OpsInv
<1>1. OpsInv /\ [Next]_vars => OpsInv'
  BY TypeStep, AnsweredStep, KnownStep, LockedStep, RecordedStep DEF OpsInv
<1> QED BY OpsStart, <1>1, PTL DEF Spec

\* Every store and task keeps to its states, whatever is dropped, duplicated or restarted.
THEOREM OpsTypeCorrect == Spec => []TypeOK
<1>1. OpsInv => TypeOK
  BY DEF OpsInv
<1> QED BY OpsAlways, <1>1, PTL

\* An operation takes effect at most once (begin's claim, execute's prior row, dispatch): for any
\* number of clients, restarts and duplicates. It is the two records that make it so, and the
\* lock, not the gateway's claim: DuplicateCall comes without one.
THEOREM EffectAtMostOnce == Spec => []AtMostOnce
<1>1. OpsInv => AtMostOnce
  BY DEF OpsInv, Recorded
<1> QED BY OpsAlways, <1>1, PTL

\* What took effect is on record at the supervisor, and a command of the worker in its journal.
THEOREM EffectRecorded == Spec => []EffectIsOnRecord
<1>1. ASSUME OpsInv PROVE EffectIsOnRecord
  <2> SUFFICES ASSUME NEW o \in Ops, effect[o] > 0
               PROVE  book[o] # "absent" /\ (ByWorker(o) => wlog[o] \notin {"absent", "failed"})
    BY DEF EffectIsOnRecord
  <2>1. book[o] # "absent" /\ (ByWorker(o) => task[o] \in {"applied", "done"})
    BY <1>1 DEF OpsInv, Recorded
  <2>2. ByWorker(o) => wlog[o] \notin {"absent", "failed"}
    BY <1>1, <2>1 DEF OpsInv, Recorded
  <2> QED BY <2>1, <2>2
<1> QED BY OpsAlways, <1>1, PTL

-----------------------------------------------------------------------------
(* Receipts tell the truth. One terminal's request at most is ever executed *)
(* for an operation, and what a receipt says is said of every copy of it.  *)

\* The supervisor is executing o for connection h.
Calling(h, o) == call[h].op = o /\ call[h].pc \in {"lock", "prepare", "act", "acted", "worker"}

\* No handler has claimed o.
Unsubmitted(o) == gate[o] \in {"NONE", "PREPARED"}

\* An operation is claimed once: its request is with one handler, then with one task of the
\* supervisor, which finds no row for it. What is asked afterwards is only asked.
Claims ==
    /\ \A o \in Ops : Unsubmitted(o) => book[o] = "absent"
    /\ \A h \in Handlers :
        /\ hand[h].pc \in {"claimed", "executing", "querying"} => ~Unsubmitted(hand[h].op)
        /\ call[h].pc # "none" => ~Unsubmitted(call[h].op)
        /\ hand[h].pc \in {"loaded", "claimed"} => call[h] = NoCall
        /\ hand[h].pc \in {"executing", "querying"} => call[h] = NoCall \/ call[h].op = hand[h].op
        /\ hand[h].pc = "executing" => call[h].pc \notin {"query", "ask"}
        /\ hand[h].pc = "claimed" => book[hand[h].op] = "absent"
        /\ call[h].pc = "lock" => book[call[h].op] = "absent"
    /\ \A g, h \in Handlers :
        /\ hand[h].pc = "claimed" => ~Calling(g, hand[h].op)
        /\ hand[g].pc = "claimed" /\ hand[h].pc = "claimed" /\ hand[g].op = hand[h].op => g = h
        /\ call[h].pc # "none" /\ Calling(h, call[h].op) /\ Calling(g, call[h].op) => g = h

\* Nothing will come of o any more: no task is left to act on it, and the worker has refused
\* what was sent. A start that failed may have had a process.
Dead(o) ==
    \/ kind[o] = "start"
    \/ /\ effect[o] = 0 /\ (o \in sent => wlog[o] = "failed")
       /\ \A h \in Handlers : /\ hand[h].pc = "claimed" => hand[h].op # o
                              /\ call[h].pc \in {"lock", "prepare", "act"} => call[h].op # o

\* Every copy of a result is true: in the three stores, and in the answers on their way.
Truth ==
    /\ \A o \in Ops :
        /\ gate[o] = "SUCCEEDED" \/ book[o] = "completed" \/ wlog[o] = "completed" \/ task[o] = "applied"
           => effect[o] > 0
        /\ gate[o] = "FAILED" \/ book[o] = "failed" => Dead(o)
        /\ wlog[o] # "absent" => o \in sent
    /\ \A h \in Handlers :
        /\ call[h].pc = "acted" => effect[call[h].op] > 0
        /\ call[h].pc = "answered" =>
            /\ call[h].answer = "completed" => effect[call[h].op] > 0
            /\ call[h].answer = "failed" => Dead(call[h].op)
            /\ call[h].answer = "refused" /\ hand[h].pc = "executing" => Dead(call[h].op)

\* A task of the supervisor that goes on, or answers, takes nothing from the others.
LEMMA TaskClaims ==
    ASSUME TypeOK, Known, Claims, NEW h \in Handlers, call[h].pc # "none", UNCHANGED <<hand, gate>>,
           \/ \E a \in Outcomes : Answers(h, a)
           \/ \E p \in {"prepare", "act", "acted", "worker"} : Calling(h, call[h].op) /\ Steps(h, p)
           \/ At(h, "query") /\ Steps(h, "ask"),
           \A o \in Ops : book'[o] = book[o] \/ o = call[h].op,
           book' = book \/ Calling(h, call[h].op) \/ book[call[h].op] # "absent"
    PROVE  Claims'
<1>1. /\ \A g \in Handlers : call'[g].op = call[g].op
      /\ \A g \in Handlers : (call'[g] = call[g] /\ g # h)
                              \/ (g = h /\ call'[g].pc \in CallPcs \ {"none", "lock"})
      /\ call[h].pc \in {"query", "ask"} \/ call'[h].pc \notin {"query", "ask"}
      /\ call'[h].pc = "answered" \/ Calling(h, call[h].op) \/ call'[h].pc = "ask"
  <2> USE DEF TypeOK, CallRecord, CallPcs
  <2>1. CASE \E a \in Outcomes : Answers(h, a)
    <3>1. PICK a \in Outcomes : call' = [call EXCEPT ![h].pc = "answered", ![h].answer = a]
      BY <2>1 DEF Answers
    <3>2. call'[h].pc = "answered" /\ call'[h].op = call[h].op
      BY <3>1
    <3>3. \A g \in Handlers \ {h} : call'[g] = call[g]
      BY <3>1
    <3> QED BY <3>2, <3>3
  <2>2. CASE \E p \in {"prepare", "act", "acted", "worker"} : Calling(h, call[h].op) /\ Steps(h, p)
    BY <2>2 DEF Steps
  <2>3. CASE At(h, "query") /\ Steps(h, "ask")
    BY <2>3 DEF At, Steps
  <2> QED BY <2>1, <2>2, <2>3
<1>2. \A o \in Ops, g \in Handlers : Calling(g, o)' => Calling(g, o)
  BY <1>1 DEF Calling
<1>3. /\ call[h].op \in Ops /\ ~Unsubmitted(call[h].op)
      /\ \A g \in Handlers : call[g].pc # "none" => call[g].op \in Ops
      /\ \A g \in Handlers : hand[g].pc # "idle" => hand[g].op \in Ops
  BY DEF Claims, Known
<1>4. \A g \in Handlers : /\ call'[g].pc = "none" <=> call[g].pc = "none"
                          /\ call'[g].pc = "lock" => call[g].pc = "lock" /\ g # h
  BY <1>1
<1>5. \A o \in Ops : Unsubmitted(o)' <=> Unsubmitted(o)
  BY DEF Unsubmitted
<1>6. \A o \in Ops : Unsubmitted(o)' => book'[o] = "absent"
  BY <1>3, <1>5 DEF Claims
<1>7. ASSUME NEW g \in Handlers
      PROVE  /\ hand'[g].pc \in {"claimed", "executing", "querying"} => ~Unsubmitted(hand[g].op)'
             /\ call'[g].pc # "none" => ~Unsubmitted(call[g].op)'
             /\ hand'[g].pc \in {"loaded", "claimed"} => call'[g] = NoCall
             /\ hand'[g].pc \in {"executing", "querying"} => call'[g] = NoCall \/ call'[g].op = hand'[g].op
             /\ hand'[g].pc = "executing" => call'[g].pc \notin {"query", "ask"}
  BY <1>1, <1>3, <1>4, <1>5 DEF Claims, NoCall
<1>8. ASSUME NEW g \in Handlers
      PROVE  /\ hand'[g].pc = "claimed" => book'[hand'[g].op] = "absent"
             /\ call'[g].pc = "lock" => book'[call'[g].op] = "absent"
  BY <1>1, <1>3, <1>4 DEF Claims, Calling
<1>9. ASSUME NEW f \in Handlers, NEW g \in Handlers
      PROVE  /\ hand'[g].pc = "claimed" => ~Calling(f, hand[g].op)'
             /\ hand'[f].pc = "claimed" /\ hand'[g].pc = "claimed" /\ hand'[f].op = hand'[g].op => f = g
             /\ call'[g].pc # "none" /\ Calling(g, call[g].op)' /\ Calling(f, call[g].op)' => f = g
  BY <1>1, <1>2, <1>3, <1>4 DEF Claims
<1> QED BY <1>6, <1>7, <1>8, <1>9 DEF Claims

\* An answer that counts is a definite status; only silence leaves the operation open.
LEMMA AnswerStatus ==
    /\ \A a \in Outcomes : StatusOf[a] \in {"SUCCEEDED", "FAILED", "UNKNOWN_BUT_QUERYABLE"}
    /\ \A a \in Outcomes : StatusOf[a] = "SUCCEEDED" => a = "completed"
    /\ \A a \in Outcomes : StatusOf[a] = "FAILED" => a \in {"failed", "refused"}
BY DEF Outcomes, StatusOf

\* Every step keeps the claims.
LEMMA ClaimsStep == TypeOK /\ Known /\ Locked /\ Recorded /\ Answered /\ Claims /\ "duplicate" \notin Faults /\ [Next]_vars => Claims'
<1> SUFFICES ASSUME TypeOK, Known, Locked, Recorded, Answered, Claims, "duplicate" \notin Faults, [Next]_vars PROVE Claims'
  OBVIOUS
<1> USE OperationsAssumption DEF TypeOK, Known, Locked, Recorded, AtMostOnce, ByWorker,
       HandlerRecord, CallRecord, CallPcs, Outcomes, Statuses, Final, Claims, Calling, Unsubmitted
<1>1. CASE UNCHANGED vars
  BY <1>1 DEF vars, gatewayVars, supervisorVars, workerVars
<1>2. ASSUME NEW h \in Handlers, ExecuteExpired(h) PROVE Claims'
  BY <1>2 DEF ExecuteExpired, Finish, Leaves, NoHandler, supervisorVars, workerVars
<1>3. ASSUME NEW h \in Handlers, ExecuteClaim(h) PROVE Claims'
  <2> DEFINE o == hand[h].op
  <2>1. o \in Ops /\ hand[h].pc = "loaded" /\ UNCHANGED <<kind, call, book, sent, task, wlog, effect>>
    BY <1>3 DEF ExecuteClaim, supervisorVars, workerVars
  <2>2. CASE gate[o] = "PREPARED"
    <3>1. /\ gate' = [gate EXCEPT ![o] = "PROCESSING"] /\ hand' = [hand EXCEPT ![h].pc = "claimed"]
      BY <1>3, <2>2 DEF ExecuteClaim, Finish, Moves
    <3> QED BY <2>1, <2>2, <3>1
  <2>3. CASE gate[o] # "PREPARED"
    <3>1. gate' = gate /\ hand' = [hand EXCEPT ![h] = NoHandler]
      BY <1>3, <2>3 DEF ExecuteClaim, Leaves
    <3> QED BY <2>1, <3>1 DEF NoHandler
  <2> QED BY <2>2, <2>3
<1>4. ASSUME NEW h \in Handlers, ExecuteSend(h) PROVE Claims'
  BY <1>4 DEF ExecuteSend, Moves, NoCall, workerVars
<1>5. ASSUME NEW h \in Handlers, ExecuteReply(h) PROVE Claims'
  <2>1. call[h].answer \in Outcomes
    BY <1>5 DEF ExecuteReply, Answered
  <2> QED BY <1>5, <2>1, AnswerStatus DEF ExecuteReply, Finish, Leaves, NoHandler, NoCall, workerVars
<1>6. ASSUME NEW h \in Handlers, ExecuteBroken(h) PROVE Claims'
  BY <1>6 DEF ExecuteBroken, Finish, Leaves, NoHandler, supervisorVars, workerVars
<1>7. ASSUME NEW h \in Handlers, ExecuteUncertain(h) PROVE Claims'
  BY <1>7 DEF ExecuteUncertain, Finish, Leaves, NoHandler, supervisorVars, workerVars
<1>8. ASSUME NEW h \in Handlers, QueryReply(h) PROVE Claims'
  BY <1>8 DEF QueryReply, Finish, Leaves, NoHandler, NoCall, StatusOf, workerVars
<1>9. ASSUME NEW h \in Handlers, QueryUncertain(h) PROVE Claims'
  BY <1>9 DEF QueryUncertain, Leaves, NoHandler, NoCall, supervisorVars, workerVars
<1>10. ASSUME NEW h \in Handlers, HandlerDropped(h) PROVE Claims'
  BY <1>10 DEF HandlerDropped, Leaves, NoHandler, supervisorVars, workerVars
<1>11. ASSUME NEW h \in Handlers, Acquire(h) PROVE Claims'
  <2>1. call[h].pc = "lock" /\ call[h].op \in Ops /\ UNCHANGED <<hand, gate, kind, book>>
    BY <1>11 DEF Acquire, At, gatewayVars
  <2>2. Steps(h, "prepare") \/ (Steps(h, "query") /\ book[call[h].op] # "absent")
    BY <1>11 DEF Acquire
  <2>3. CASE Steps(h, "prepare")
    <3>1. Calling(h, call[h].op)
      BY <2>1
    <3> HIDE DEF Claims, Unsubmitted, Recorded, Locked, Calling
    <3> QED BY <2>1, <2>3, <3>1, TaskClaims
  <2>4. CASE Steps(h, "query") /\ book[call[h].op] # "absent"
    <3>1. call' = [call EXCEPT ![h].pc = "query"]
      BY <2>4 DEF Steps
    <3>2. /\ \A g \in Handlers : call'[g].op = call[g].op
          /\ \A g \in Handlers \ {h} : call'[g] = call[g]
          /\ call'[h].pc = "query"
      BY <3>1
    <3> QED BY <2>1, <2>4, <3>2 DEF NoCall
  <2> QED BY <2>2, <2>3, <2>4
<1>12. ASSUME NEW h \in Handlers, PrepareRefuses(h) PROVE Claims'
  BY <1>12, TaskClaims DEF PrepareRefuses, At, gatewayVars
<1>13. ASSUME NEW h \in Handlers, Intent(h) PROVE Claims'
  <2> HIDE DEF Claims, Unsubmitted, Recorded, Locked
  <2> QED BY <1>13, TaskClaims DEF Intent, At, Records, gatewayVars
<1>14. ASSUME NEW h \in Handlers, Act(h) PROVE Claims'
  BY <1>14, TaskClaims DEF Act, At, gatewayVars
<1>15. ASSUME NEW h \in Handlers, ActRecorded(h) PROVE Claims'
  <2> HIDE DEF Claims, Unsubmitted, Recorded, Locked
  <2> QED BY <1>15, TaskClaims DEF ActRecorded, At, Records, gatewayVars
<1>16. ASSUME NEW h \in Handlers, LaunchLost(h) PROVE Claims'
  <2> HIDE DEF Claims, Unsubmitted, Recorded, Locked
  <2> QED BY <1>16, TaskClaims DEF LaunchLost, At, Records, gatewayVars
<1>17. ASSUME NEW h \in Handlers, ActFails(h) PROVE Claims'
  <2> HIDE DEF Claims, Unsubmitted, Recorded, Locked
  <2> QED BY <1>17, TaskClaims DEF ActFails, At, Records, gatewayVars
<1>18. ASSUME NEW h \in Handlers, SendWorker(h) PROVE Claims'
  BY <1>18, TaskClaims DEF SendWorker, At, gatewayVars
<1>19. ASSUME NEW h \in Handlers, WorkerReply(h) PROVE Claims'
  <2> HIDE DEF Claims, Unsubmitted, Recorded, Locked
  <2> QED BY <1>19, TaskClaims DEF WorkerReply, At, Records, gatewayVars
<1>20. ASSUME NEW h \in Handlers, WorkerSilent(h) PROVE Claims'
  <2> HIDE DEF Claims, Unsubmitted, Recorded, Locked
  <2> QED BY <1>20, TaskClaims DEF WorkerSilent, At, Records, gatewayVars
<1>21. ASSUME NEW h \in Handlers, Query(h) PROVE Claims'
  <2>1. At(h, "query") /\ call[h].pc # "none" /\ UNCHANGED <<hand, gate, book>>
    BY <1>21 DEF Query, At, gatewayVars
  <2> HIDE DEF Claims, Unsubmitted, Recorded, Locked, Known, TypeOK, Outcomes
  <2>2. Steps(h, "ask") \/ \E a \in Outcomes : Answers(h, a)
    BY <1>21, QueryCases
  <2> QED BY <2>1, <2>2, TaskClaims
<1>22. ASSUME NEW h \in Handlers, AskReply(h) PROVE Claims'
  <2>1. /\ call[h].pc # "none" /\ book[call[h].op] # "absent" /\ UNCHANGED <<hand, gate>>
        /\ wlog[call[h].op] \in Outcomes /\ Answers(h, wlog[call[h].op])
    BY <1>22 DEF AskReply, At, gatewayVars
  <2>2. \A o \in Ops : book'[o] = book[o] \/ o = call[h].op
    BY <1>22 DEF AskReply, Records
  <2> HIDE DEF Claims, Unsubmitted, Recorded, Locked, Known, TypeOK, Outcomes
  <2> QED BY <2>1, <2>2, TaskClaims
<1>23. ASSUME NEW h \in Handlers, AskSilent(h) PROVE Claims'
  BY <1>23, TaskClaims DEF AskSilent, At, gatewayVars
<1>24. ASSUME NEW h \in Handlers, AnswerUnread(h) PROVE Claims'
  BY <1>24 DEF AnswerUnread, At, NoHandler, NoCall, gatewayVars, workerVars
<1>25. ASSUME NEW h \in Handlers, NEW o \in Ops, ExecuteLoad(h, o) PROVE Claims'
  BY <1>25 DEF ExecuteLoad, Resting, NoHandler, NoCall, supervisorVars, workerVars
<1>26. ASSUME NEW h \in Handlers, NEW o \in Ops, QueryBegin(h, o) PROVE Claims'
  BY <1>26 DEF QueryBegin, Resting, NoHandler, NoCall, workerVars
<1>27. ASSUME NEW h \in Handlers, NEW o \in Ops, DuplicateCall(h, o) PROVE Claims'
  BY <1>27 DEF DuplicateCall, Resting, NoHandler, NoCall, gatewayVars, workerVars
<1>28. ASSUME NEW o \in Ops, Dispatch(o) PROVE Claims'
  BY <1>28 DEF Dispatch, Working, Logs, gatewayVars, supervisorVars
<1>29. ASSUME NEW o \in Ops, Apply(o) PROVE Claims'
  BY <1>29 DEF Apply, gatewayVars, supervisorVars
<1>30. ASSUME NEW o \in Ops, Complete(o) PROVE Claims'
  BY <1>30 DEF Complete, Logs, gatewayVars, supervisorVars
<1>31. ASSUME NEW o \in Ops, Raises(o) PROVE Claims'
  BY <1>31 DEF Raises, Working, Logs, gatewayVars, supervisorVars
<1>32. ASSUME NEW o \in Ops, TtlPasses(o) PROVE Claims'
  BY <1>32 DEF TtlPasses, supervisorVars, workerVars
<1>33. ASSUME NEW o \in Ops, NEW k \in Kinds, Prepare(o, k) PROVE Claims'
  BY <1>33 DEF Prepare, Finish, supervisorVars, workerVars
<1>34. CASE GatewayRestarts
  BY <1>34 DEF GatewayRestarts, NoHandler, supervisorVars, workerVars
<1>35. CASE SupervisorRestarts
  BY <1>35 DEF SupervisorRestarts, NoCall, gatewayVars, workerVars
<1>36. CASE Quiesce
  BY <1>36 DEF Quiesce, gatewayVars, supervisorVars, workerVars
<1>37. CASE EngineEnds
  BY <1>37 DEF EngineEnds, gatewayVars, supervisorVars, workerVars
<1> QED BY <1>1, <1>2, <1>3, <1>4, <1>5, <1>6, <1>7, <1>8, <1>9, <1>10, <1>11, <1>12, <1>13, <1>14,
       <1>15, <1>16, <1>17, <1>18, <1>19, <1>20, <1>21, <1>22, <1>23, <1>24, <1>25, <1>26, <1>27,
       <1>28, <1>29, <1>30, <1>31, <1>32, <1>33, <1>34, <1>35, <1>36, <1>37 DEF Next, HandlerNext,
       CallNext, WorkerNext

\* What the worker refused comes to nothing: the intent is recorded and the command was sent, so
\* that no task acts on it any more.
LEMMA RefusedIsDead ==
    ASSUME TypeOK, Known, Recorded, Claims, Truth, NEW o \in Ops, wlog[o] = "failed"
    PROVE  Dead(o)
<1>1. o \in sent /\ ByWorker(o) /\ book[o] # "absent" /\ task[o] = "none"
  BY DEF Truth, Recorded
<1>2. effect[o] = 0
  BY <1>1 DEF Recorded, TypeOK
<1>3. \A h \in Handlers : hand[h].pc = "claimed" => hand[h].op # o
  BY <1>1 DEF Claims
<1>4. \A h \in Handlers : call[h].pc \in {"lock", "prepare"} => call[h].op # o
  BY <1>1 DEF Claims, Recorded
<1>5. \A h \in Handlers : call[h].pc = "act" => call[h].op # o
  BY <1>1 DEF Recorded
<1> QED BY <1>1, <1>2, <1>3, <1>4, <1>5 DEF Dead

\* A task that gives up before it has acted leaves nothing that could: it is the only one.
LEMMA GivenUpIsDead ==
    ASSUME TypeOK, Known, Recorded, Claims, NEW h \in Handlers, call[h].pc \in {"prepare", "act"},
           NEW a \in Outcomes, Answers(h, a), UNCHANGED <<hand, kind, sent, wlog, effect>>
    PROVE  Dead(call[h].op)'
<1> DEFINE o == call[h].op
<1>1. o \in Ops /\ Calling(h, o)
  BY DEF Known, Calling
<1>2. effect[o] = 0 /\ o \notin sent
  BY <1>1 DEF Recorded, TypeOK
<1>3. \A g \in Handlers : hand[g].pc = "claimed" => hand[g].op # o
  BY <1>1 DEF Claims
<1>4. \A g \in Handlers \ {h} : call[g].pc \in {"lock", "prepare", "act"} => call[g].op # o
  BY <1>1 DEF Claims, Calling
<1>5. /\ call'[h].pc = "answered" /\ call'[h].op = o
      /\ \A g \in Handlers \ {h} : call'[g] = call[g]
  BY DEF Answers, TypeOK, CallRecord
<1> QED BY <1>1, <1>2, <1>3, <1>4, <1>5 DEF Dead

\* What is dead stays dead when a task answers.
LEMMA DeadStays ==
    ASSUME TypeOK, NEW h \in Handlers, NEW a, Answers(h, a), NEW p, Dead(p),
           UNCHANGED <<hand, kind, sent, wlog, effect>>
    PROVE  Dead(p)'
<1>1. call'[h].pc = "answered" /\ \A g \in Handlers \ {h} : call'[g] = call[g]
  BY DEF Answers, TypeOK, CallRecord
<1>2. \A g \in Handlers : call'[g].pc \in {"lock", "prepare", "act"} => call'[g] = call[g]
  BY <1>1
<1> QED BY <1>2 DEF Dead

\* A true answer, and a true result beside it, keep the results true.
LEMMA AnswerTruth ==
    ASSUME TypeOK, Truth, NEW h \in Handlers, NEW a \in Outcomes, Answers(h, a), call[h].op \in Ops,
           UNCHANGED <<hand, gate, kind, sent, task, wlog, effect>>,
           a = "completed" => effect[call[h].op] > 0,
           a = "failed" \/ (a = "refused" /\ hand[h].pc = "executing") => Dead(call[h].op)',
           book' = book \/ (book' = [book EXCEPT ![call[h].op] = a] /\ a # "refused")
    PROVE  Truth'
<1>1. /\ call'[h].pc = "answered" /\ call'[h].op = call[h].op /\ call'[h].answer = a
      /\ \A g \in Handlers \ {h} : call'[g] = call[g]
  BY DEF Answers, TypeOK, CallRecord
<1>2. \A p : Dead(p) => Dead(p)'
  BY DeadStays
<1>3. \A p \in Ops : book'[p] = book[p] \/ (p = call[h].op /\ book'[p] = a)
  BY DEF TypeOK
<1>4. ASSUME NEW p \in Ops
      PROVE  /\ gate'[p] = "SUCCEEDED" \/ book'[p] = "completed" \/ wlog'[p] = "completed" \/ task'[p] = "applied"
                => effect'[p] > 0
             /\ gate'[p] = "FAILED" \/ book'[p] = "failed" => Dead(p)'
             /\ wlog'[p] # "absent" => p \in sent'
  <2> HIDE DEF Dead
  <2> QED BY <1>1, <1>2, <1>3 DEF Truth
<1>5. ASSUME NEW g \in Handlers
      PROVE  /\ call'[g].pc = "acted" => effect'[call'[g].op] > 0
             /\ call'[g].pc = "answered" =>
                 /\ call'[g].answer = "completed" => effect'[call'[g].op] > 0
                 /\ call'[g].answer = "failed" => Dead(call[g].op)'
                 /\ call'[g].answer = "refused" /\ hand'[g].pc = "executing" => Dead(call[g].op)'
  <2>1. CASE g = h
    BY <1>1, <2>1
  <2>2. CASE g # h
    BY <1>1, <1>2, <2>2 DEF Truth
  <2> QED BY <2>1, <2>2
<1> QED BY <1>4, <1>5 DEF Truth

\* Every step keeps the results true.
LEMMA TruthStep == TypeOK /\ Answered /\ Known /\ Locked /\ Recorded /\ Claims /\ Truth /\ "duplicate" \notin Faults /\ [Next]_vars => Truth'
<1> SUFFICES ASSUME TypeOK, Answered, Known, Locked, Recorded, Claims, Truth, "duplicate" \notin Faults, [Next]_vars PROVE Truth'
  OBVIOUS
<1> USE OperationsAssumption DEF TypeOK, Known, Locked, Recorded, AtMostOnce, ByWorker,
       HandlerRecord, CallRecord, CallPcs, Outcomes, Statuses, Final, Claims, Truth, Dead, Calling, Unsubmitted
<1>1. CASE UNCHANGED vars
  BY <1>1 DEF vars, gatewayVars, supervisorVars, workerVars
<1>2. ASSUME NEW h \in Handlers, ExecuteExpired(h) PROVE Truth'
  BY <1>2 DEF ExecuteExpired, Finish, Leaves, NoHandler, supervisorVars, workerVars
<1>3. ASSUME NEW h \in Handlers, ExecuteClaim(h) PROVE Truth'
  <2> DEFINE o == hand[h].op
  <2>1. o \in Ops /\ hand[h].pc = "loaded" /\ UNCHANGED <<kind, call, book, sent, task, wlog, effect>>
    BY <1>3 DEF ExecuteClaim, supervisorVars, workerVars
  <2>2. CASE gate[o] = "PREPARED"
    <3>1. /\ gate' = [gate EXCEPT ![o] = "PROCESSING"] /\ hand' = [hand EXCEPT ![h].pc = "claimed"]
      BY <1>3, <2>2 DEF ExecuteClaim, Finish, Moves
    <3> QED BY <2>1, <2>2, <3>1
  <2>3. CASE gate[o] # "PREPARED"
    <3>1. gate' = gate /\ hand' = [hand EXCEPT ![h] = NoHandler]
      BY <1>3, <2>3 DEF ExecuteClaim, Leaves
    <3> QED BY <2>1, <3>1 DEF NoHandler
  <2> QED BY <2>2, <2>3
<1>4. ASSUME NEW h \in Handlers, ExecuteSend(h) PROVE Truth'
  BY <1>4 DEF ExecuteSend, Moves, NoCall, workerVars
<1>5. ASSUME NEW h \in Handlers, ExecuteReply(h) PROVE Truth'
  <2>1. call[h].answer \in Outcomes
    BY <1>5 DEF ExecuteReply, Answered
  <2> QED BY <1>5, <2>1, AnswerStatus DEF ExecuteReply, Finish, Leaves, NoHandler, NoCall, workerVars
<1>6. ASSUME NEW h \in Handlers, ExecuteBroken(h) PROVE Truth'
  BY <1>6 DEF ExecuteBroken, Finish, Leaves, NoHandler, supervisorVars, workerVars
<1>7. ASSUME NEW h \in Handlers, ExecuteUncertain(h) PROVE Truth'
  BY <1>7 DEF ExecuteUncertain, Finish, Leaves, NoHandler, supervisorVars, workerVars
<1>8. ASSUME NEW h \in Handlers, QueryReply(h) PROVE Truth'
  <2>1. call[h].answer \in Outcomes
    BY <1>8 DEF QueryReply, Answered
  <2>2. CASE call[h].answer \in {"completed", "failed"}
    BY <1>8, <2>2, AnswerStatus DEF QueryReply, Finish, Leaves, NoHandler, NoCall, workerVars
  <2>3. CASE call[h].answer \notin {"completed", "failed"}
    BY <1>8, <2>3 DEF QueryReply, Leaves, NoHandler, NoCall, workerVars
  <2> QED BY <2>2, <2>3
<1>9. ASSUME NEW h \in Handlers, QueryUncertain(h) PROVE Truth'
  BY <1>9 DEF QueryUncertain, Leaves, NoHandler, NoCall, supervisorVars, workerVars
<1>10. ASSUME NEW h \in Handlers, HandlerDropped(h) PROVE Truth'
  BY <1>10 DEF HandlerDropped, Leaves, NoHandler, supervisorVars, workerVars
<1>11. ASSUME NEW h \in Handlers, Acquire(h) PROVE Truth'
  BY <1>11 DEF Acquire, At, Steps, gatewayVars, workerVars
<1>12. ASSUME NEW h \in Handlers, PrepareRefuses(h) PROVE Truth'
  <2>1. /\ call[h].pc = "prepare" /\ call[h].op \in Ops /\ UNCHANGED <<hand, gate, kind, sent, task, wlog, effect>>
        /\ Answers(h, "refused") /\ book' = book
    BY <1>12 DEF PrepareRefuses, At, gatewayVars, workerVars
  <2> HIDE DEF Truth, Dead, Claims, Known, Recorded
  <2>2. Dead(call[h].op)'
    BY <2>1, GivenUpIsDead
  <2> QED BY <2>1, <2>2, AnswerTruth
<1>13. ASSUME NEW h \in Handlers, Intent(h) PROVE Truth'
  BY <1>13 DEF Intent, At, Records, Steps, gatewayVars, workerVars
<1>14. ASSUME NEW h \in Handlers, Act(h) PROVE Truth'
  <2>1. /\ call[h].pc = "act" /\ call[h].op \in Ops /\ UNCHANGED <<hand, gate, kind, sent, task, book, wlog>>
        /\ effect' = [effect EXCEPT ![call[h].op] = @ + 1] /\ call' = [call EXCEPT ![h].pc = "acted"]
    BY <1>14 DEF Act, At, Steps, gatewayVars, workerVars
  <2>2. \A o \in Ops : effect[o] \in Nat /\ effect'[call[h].op] > 0 /\ (effect[o] > 0 => effect'[o] > 0)
                       /\ (o # call[h].op => effect'[o] = effect[o])
    BY <2>1
  <2>3. /\ call'[h].pc = "acted" /\ call'[h].op = call[h].op
        /\ \A g \in Handlers \ {h} : call'[g] = call[g]
    BY <2>1
  <2>4. \A o \in Ops : Dead(o) => Dead(o)'
    BY <2>1, <2>2, <2>3
  <2>5. ASSUME NEW o \in Ops
        PROVE  /\ gate'[o] = "SUCCEEDED" \/ book'[o] = "completed" \/ wlog'[o] = "completed" \/ task'[o] = "applied"
                  => effect'[o] > 0
               /\ gate'[o] = "FAILED" \/ book'[o] = "failed" => Dead(o)'
               /\ wlog'[o] # "absent" => o \in sent'
    <3> HIDE DEF Dead
    <3> QED BY <2>1, <2>2, <2>4
  <2>6. effect'[call'[h].op] > 0
    BY <2>1, <2>2, <2>3
  <2>7. ASSUME NEW g \in Handlers \ {h}, call[g].op \in Ops, call[g].pc \in {"acted", "answered"}
        PROVE  /\ call[g].pc = "acted" => effect'[call[g].op] > 0
               /\ call[g].pc = "answered" =>
                   /\ call[g].answer = "completed" => effect'[call[g].op] > 0
                   /\ call[g].answer = "failed" => Dead(call[g].op)'
                   /\ call[g].answer = "refused" /\ hand'[g].pc = "executing" => Dead(call[g].op)'
    <3> DEFINE o == call[g].op
    <3>1. effect[o] > 0 => effect'[o] > 0
      <4> HIDE DEF TypeOK, Known, Locked, Recorded, Claims, Truth, Dead
      <4> QED BY <2>2, <2>7
    <3>2. Dead(o) => Dead(o)'
      BY <2>3, <2>4, <2>7
    <3>3. hand' = hand /\ call'[g] = call[g]
      BY <2>1, <2>3
    <3> QED BY <2>7, <3>1, <3>2, <3>3
  <2>8. \A g \in Handlers : call[g].pc \in {"acted", "answered"} => call[g].op \in Ops
    OBVIOUS
  <2> QED BY <2>3, <2>5, <2>6, <2>7, <2>8
<1>15. ASSUME NEW h \in Handlers, ActRecorded(h) PROVE Truth'
  <2>1. /\ call[h].pc = "acted" /\ call[h].op \in Ops /\ UNCHANGED <<hand, gate, kind, sent, task, wlog, effect>>
        /\ Answers(h, "completed") /\ book' = [book EXCEPT ![call[h].op] = "completed"]
    BY <1>15 DEF ActRecorded, At, Records, gatewayVars, workerVars
  <2>2. effect[call[h].op] > 0
    BY <2>1
  <2> HIDE DEF Truth, Dead, Claims, Known, Recorded
  <2> QED BY <2>1, <2>2, AnswerTruth
<1>16. ASSUME NEW h \in Handlers, LaunchLost(h) PROVE Truth'
  <2>1. /\ call[h].pc = "acted" /\ call[h].op \in Ops /\ UNCHANGED <<hand, gate, kind, sent, task, wlog, effect>>
        /\ Answers(h, "failed") /\ book' = [book EXCEPT ![call[h].op] = "failed"]
    BY <1>16 DEF LaunchLost, At, Records, gatewayVars, workerVars
  <2>2. Dead(call[h].op)'
    BY <1>16, <2>1 DEF LaunchLost, Answers
  <2> HIDE DEF Truth, Dead, Claims, Known, Recorded
  <2> QED BY <2>1, <2>2, AnswerTruth
<1>17. ASSUME NEW h \in Handlers, ActFails(h) PROVE Truth'
  <2>1. /\ call[h].pc = "act" /\ call[h].op \in Ops /\ UNCHANGED <<hand, gate, kind, sent, task, wlog, effect>>
        /\ Answers(h, "failed") /\ book' = [book EXCEPT ![call[h].op] = "failed"]
    BY <1>17 DEF ActFails, At, Records, gatewayVars, workerVars
  <2> HIDE DEF Truth, Dead, Claims, Known, Recorded
  <2>2. Dead(call[h].op)'
    BY <2>1, GivenUpIsDead
  <2> QED BY <2>1, <2>2, AnswerTruth
<1>18. ASSUME NEW h \in Handlers, SendWorker(h) PROVE Truth'
  BY <1>18 DEF SendWorker, At, Steps, gatewayVars, workerVars
<1>19. ASSUME NEW h \in Handlers, WorkerReply(h) PROVE Truth'
  <2>1. /\ call[h].pc = "worker" /\ call[h].op \in Ops /\ UNCHANGED <<hand, gate, kind, sent, task, wlog, effect>>
        /\ Answers(h, wlog[call[h].op]) /\ book' = [book EXCEPT ![call[h].op] = wlog[call[h].op]]
    BY <1>19 DEF WorkerReply, At, Records, gatewayVars, workerVars
  <2>2. wlog[call[h].op] = "completed" => effect[call[h].op] > 0
    BY <2>1
  <2>3. wlog[call[h].op] \in {"completed", "failed", "unknown"}
    BY <1>19 DEF WorkerReply
  <2> HIDE DEF Truth, Claims, Known, Recorded
  <2>4. wlog[call[h].op] = "failed" => Dead(call[h].op)'
    <3> SUFFICES ASSUME wlog[call[h].op] = "failed" PROVE Dead(call[h].op)'
      OBVIOUS
    <3>1. Dead(call[h].op)
      <4> HIDE DEF Dead
      <4> QED BY <2>1, RefusedIsDead
    <3>2. call'[h].op = call[h].op
      BY <2>1 DEF Answers
    <3>3. ASSUME NEW p, Dead(p) PROVE Dead(p)'
      <4> HIDE DEF Dead, TypeOK
      <4> QED BY <2>1, <3>3, DeadStays
    <3> HIDE DEF Dead
    <3> QED BY <3>1, <3>2, <3>3
  <2>5. PICK a \in Outcomes : a = wlog[call[h].op]
    BY <2>3
  <2>6. a # "refused"
    BY <2>3, <2>5
  <2> HIDE DEF Dead, TypeOK, Outcomes
  <2> QED BY <2>1, <2>2, <2>4, <2>5, <2>6, AnswerTruth
<1>20. ASSUME NEW h \in Handlers, WorkerSilent(h) PROVE Truth'
  <2>1. /\ call[h].pc = "worker" /\ call[h].op \in Ops /\ UNCHANGED <<hand, gate, kind, sent, task, wlog, effect>>
        /\ Answers(h, "unknown") /\ book' = [book EXCEPT ![call[h].op] = "unknown"]
    BY <1>20 DEF WorkerSilent, At, Records, gatewayVars, workerVars
  <2> HIDE DEF Truth, Dead, Claims, Known, Recorded
  <2> QED BY <2>1, AnswerTruth
<1>21. ASSUME NEW h \in Handlers, Query(h) PROVE Truth'
  <2> DEFINE o == call[h].op
  <2>1. o \in Ops /\ call[h].pc = "query" /\ UNCHANGED <<kind, gate, hand, book, sent, task, wlog, effect>>
    BY <1>21 DEF Query, At, gatewayVars, workerVars
  <2>2. CASE Steps(h, "ask")
    <3>1. \A g \in Handlers : /\ call'[g].op = call[g].op
                              /\ call'[g] = call[g] \/ (call[g].pc = "query" /\ call'[g].pc = "ask")
      BY <2>1, <2>2 DEF Steps
    <3> HIDE DEF Claims
    <3> QED BY <2>1, <3>1
  <2>3. CASE book[o] = "absent" /\ Answers(h, "refused")
    <3>1. hand[h].pc # "executing"
      BY <2>1
    <3> HIDE DEF Truth, Dead, Claims, Known, Recorded
    <3> QED BY <2>1, <2>3, <3>1, AnswerTruth
  <2>4. CASE Open(o) /\ Answers(h, "unknown")
    <3> HIDE DEF Truth, Dead, Claims, Known, Recorded
    <3> QED BY <2>1, <2>4, AnswerTruth
  <2>5. CASE book[o] \in {"completed", "failed"} /\ Answers(h, book[o])
    <3>1. /\ book[o] = "completed" => effect[o] > 0
          /\ book[o] = "failed" => Dead(o)
      <4> HIDE DEF Dead
      <4> QED BY <2>1
    <3>2. Dead(o) => Dead(call[h].op)'
      <4>1. call'[h].op = o
        BY <2>5 DEF Answers
      <4>2. ASSUME NEW p, Dead(p) PROVE Dead(p)'
        <5> HIDE DEF TypeOK, Dead, Truth, Claims, Known, Recorded
        <5> QED BY <2>1, <2>5, <4>2, DeadStays
      <4> HIDE DEF Dead
      <4> QED BY <4>1, <4>2
    <3> HIDE DEF Truth, Dead, Claims, Known, Recorded
    <3> QED BY <2>1, <2>5, <3>1, <3>2, AnswerTruth
  <2>6. \/ Steps(h, "ask") \/ (book[o] = "absent" /\ Answers(h, "refused"))
        \/ (Open(o) /\ Answers(h, "unknown")) \/ (book[o] \in {"completed", "failed"} /\ Answers(h, book[o]))
    <3>1. CASE Open(o)
      BY <1>21, <3>1 DEF Query, Open
    <3>2. CASE ~Open(o)
      BY <1>21, <2>1, <3>2 DEF Query, Open
    <3> QED BY <3>1, <3>2
  <2> QED BY <2>2, <2>3, <2>4, <2>5, <2>6
<1>22. ASSUME NEW h \in Handlers, AskReply(h) PROVE Truth'
  <2>1. /\ call[h].pc = "ask" /\ call[h].op \in Ops /\ UNCHANGED <<hand, gate, kind, sent, task, wlog, effect>>
        /\ Answers(h, wlog[call[h].op]) /\ book' = [book EXCEPT ![call[h].op] = wlog[call[h].op]]
    BY <1>22 DEF AskReply, At, Records, gatewayVars, workerVars
  <2>2. wlog[call[h].op] = "completed" => effect[call[h].op] > 0
    BY <2>1
  <2>3. wlog[call[h].op] \in {"completed", "failed", "unknown"}
    BY <1>22 DEF AskReply
  <2> HIDE DEF Truth, Claims, Known, Recorded
  <2>4. wlog[call[h].op] = "failed" => Dead(call[h].op)'
    <3> SUFFICES ASSUME wlog[call[h].op] = "failed" PROVE Dead(call[h].op)'
      OBVIOUS
    <3>1. Dead(call[h].op)
      <4> HIDE DEF Dead
      <4> QED BY <2>1, RefusedIsDead
    <3>2. call'[h].op = call[h].op
      BY <2>1 DEF Answers
    <3>3. ASSUME NEW p, Dead(p) PROVE Dead(p)'
      <4> HIDE DEF Dead, TypeOK
      <4> QED BY <2>1, <3>3, DeadStays
    <3> HIDE DEF Dead
    <3> QED BY <3>1, <3>2, <3>3
  <2>5. PICK a \in Outcomes : a = wlog[call[h].op]
    BY <2>3
  <2>6. a # "refused"
    BY <2>3, <2>5
  <2> HIDE DEF Dead, TypeOK, Outcomes
  <2> QED BY <2>1, <2>2, <2>4, <2>5, <2>6, AnswerTruth
<1>23. ASSUME NEW h \in Handlers, AskSilent(h) PROVE Truth'
  <2>1. /\ call[h].pc = "ask" /\ call[h].op \in Ops /\ UNCHANGED <<hand, gate, kind, sent, task, wlog, effect>>
        /\ Answers(h, "unknown") /\ book' = book
    BY <1>23 DEF AskSilent, At, gatewayVars, workerVars
  <2> HIDE DEF Truth, Dead, Claims, Known, Recorded
  <2> QED BY <2>1, AnswerTruth
<1>24. ASSUME NEW h \in Handlers, AnswerUnread(h) PROVE Truth'
  BY <1>24 DEF AnswerUnread, At, NoHandler, NoCall, gatewayVars, workerVars
<1>25. ASSUME NEW h \in Handlers, NEW o \in Ops, ExecuteLoad(h, o) PROVE Truth'
  BY <1>25 DEF ExecuteLoad, Resting, NoHandler, NoCall, supervisorVars, workerVars
<1>26. ASSUME NEW h \in Handlers, NEW o \in Ops, QueryBegin(h, o) PROVE Truth'
  BY <1>26 DEF QueryBegin, Resting, NoHandler, NoCall, workerVars
<1>27. ASSUME NEW h \in Handlers, NEW o \in Ops, DuplicateCall(h, o) PROVE Truth'
  BY <1>27 DEF DuplicateCall, Resting, NoHandler, NoCall, gatewayVars, workerVars
<1>28. ASSUME NEW o \in Ops, Dispatch(o) PROVE Truth'
  BY <1>28 DEF Dispatch, Working, Logs, gatewayVars, supervisorVars
<1>29. ASSUME NEW o \in Ops, Apply(o) PROVE Truth'
  <2>1. /\ task[o] = "accepted" /\ UNCHANGED <<kind, hand, gate, call, book, sent, wlog>>
        /\ task' = [task EXCEPT ![o] = "applied"] /\ effect' = [effect EXCEPT ![o] = @ + 1]
    BY <1>29 DEF Apply, gatewayVars, supervisorVars
  <2>2. o \in sent /\ wlog[o] # "failed" /\ (Dead(o) => kind[o] = "start")
    BY <2>1 DEF Recorded, Dead
  <2>3. /\ \A p \in Ops : effect[p] > 0 => effect'[p] > 0
        /\ effect'[o] > 0
        /\ \A p \in Ops : p # o => effect'[p] = effect[p] /\ task'[p] = task[p]
    BY <2>1 DEF TypeOK
  <2>4. \A p \in Ops : Dead(p) => Dead(p)'
    BY <2>1, <2>2, <2>3 DEF Dead
  <2>5. \A g \in Handlers : call[g].pc # "none" => call[g].op \in Ops
    BY DEF Known
  <2> HIDE DEF Dead, TypeOK, Known, Claims, Recorded, Locked
  <2> QED BY <2>1, <2>3, <2>4, <2>5 DEF Truth
<1>30. ASSUME NEW o \in Ops, Complete(o) PROVE Truth'
  BY <1>30 DEF Complete, Logs, gatewayVars, supervisorVars
<1>31. ASSUME NEW o \in Ops, Raises(o) PROVE Truth'
  BY <1>31 DEF Raises, Working, Logs, gatewayVars, supervisorVars
<1>32. ASSUME NEW o \in Ops, TtlPasses(o) PROVE Truth'
  <2>1. UNCHANGED <<kind, hand, gate, call, book, sent, task, wlog, effect>>
    BY <1>32 DEF TtlPasses, supervisorVars, workerVars
  <2> HIDE DEF TypeOK, Known, Claims, Recorded, Locked
  <2> QED BY <2>1 DEF Truth, Dead
<1>33. ASSUME NEW o \in Ops, NEW k \in Kinds, Prepare(o, k) PROVE Truth'
  BY <1>33 DEF Prepare, Finish, supervisorVars, workerVars
<1>34. CASE GatewayRestarts
  BY <1>34 DEF GatewayRestarts, NoHandler, supervisorVars, workerVars
<1>35. CASE SupervisorRestarts
  BY <1>35 DEF SupervisorRestarts, NoCall, gatewayVars, workerVars
<1>36. CASE Quiesce
  <2>1. UNCHANGED <<kind, hand, gate, call, book, sent, task, wlog, effect>>
    BY <1>36 DEF Quiesce, gatewayVars, supervisorVars, workerVars
  <2> HIDE DEF TypeOK, Known, Claims, Recorded, Locked
  <2> QED BY <2>1 DEF Truth, Dead
<1>37. CASE EngineEnds
  <2>1. UNCHANGED <<kind, hand, gate, call, book, sent, task, wlog, effect>>
    BY <1>37 DEF EngineEnds, gatewayVars, supervisorVars, workerVars
  <2> HIDE DEF TypeOK, Known, Claims, Recorded, Locked
  <2> QED BY <2>1 DEF Truth, Dead
<1> HIDE DEF TypeOK, Known, Claims, Recorded, Locked, Truth
<1>38. ASSUME NEW h \in Handlers, HandlerNext(h) PROVE Truth'
  BY <1>38, <1>2, <1>3, <1>4, <1>5, <1>6, <1>7, <1>8, <1>9 DEF HandlerNext
<1>39. ASSUME NEW h \in Handlers, CallNext(h) PROVE Truth'
  BY <1>39, <1>11, <1>12, <1>13, <1>14, <1>15, <1>16, <1>17, <1>18, <1>19, <1>20, <1>21, <1>22,
     <1>23, <1>24 DEF CallNext
<1>40. ASSUME NEW o \in Ops, WorkerNext(o) PROVE Truth'
  BY <1>40, <1>28, <1>29, <1>30, <1>31 DEF WorkerNext
<1> QED BY <1>1, <1>10, <1>25, <1>26, <1>27, <1>32, <1>33, <1>34, <1>35, <1>36, <1>37, <1>38, <1>39,
       <1>40 DEF Next

\* Both hold initially.
LEMMA TruthStart == Init => Claims /\ Truth
BY DEF Init, Claims, Truth, Calling, Unsubmitted, Dead, NoHandler, NoCall

\* What they say of a receipt.
LEMMA TruthTells == OpsInv /\ Truth => ReceiptsAreTrue
<1> SUFFICES ASSUME OpsInv, Truth, NEW o \in Ops
             PROVE  /\ gate[o] = "SUCCEEDED" => effect[o] = 1
                    /\ gate[o] = "FAILED" => effect[o] = 0 \/ kind[o] = "start"
  BY DEF ReceiptsAreTrue
<1>1. effect[o] \in Nat /\ effect[o] <= 1
  BY DEF OpsInv, TypeOK, Recorded, AtMostOnce
<1> QED BY <1>1 DEF Truth, Dead

\* Receipts are true for any number of operations, terminals and restarts, whichever replies are
\* lost, as long as only the gateway submits operations to the supervisor.
THEOREM TrueReceipts ==
    ASSUME "duplicate" \notin Faults
    PROVE  Spec => []ReceiptsAreTrue
<1>1. OpsInv /\ Claims /\ Truth /\ [Next]_vars => (Claims /\ Truth)'
  BY ClaimsStep, TruthStep DEF OpsInv
<1> QED BY OpsAlways, TruthStart, TruthTells, <1>1, PTL DEF Spec
=============================================================================
