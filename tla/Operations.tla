----------------------------- MODULE Operations -----------------------------
(***************************************************************************)
(* One control operation on its way from a terminal to the engine, and its *)
(* receipt on the way back. Three stores, each with a row per operation    *)
(* identifier, are written by tasks that die at different times:           *)
(*   - the gateway's OperationStore (gate), by concurrent HTTP handlers    *)
(*     (services/gateway/src/lib.rs);                                      *)
(*   - the supervisor's operations table (book), by asyncio tasks of which *)
(*     only `execute` holds self.lock (server/group_runtime.py);           *)
(*   - the worker's ControlServer journal (wlog) (engine/control.py).      *)
(* A handler waits for the supervisor on a connection of its own: call[h]  *)
(* is the supervisor's task for it, and outlives a handler that gave up.   *)
(***************************************************************************)
EXTENDS Naturals, FiniteSets

CONSTANTS
    Ops,            \* operation identifiers
    Handlers,       \* concurrent gateway requests, each with one connection
    Kinds,          \* the kinds of operation this instance prepares
    MaxRestarts,    \* bound: restarts of the gateway and of the supervisor
    Faults          \* what may go wrong in this instance

\* "control" stands for halt, reduce and resume, which `receipt` reconciles with the worker,
\* "order" for cancel and flatten, which it does not.
ASSUME OperationsAssumption ==
    /\ Kinds \subseteq {"start", "stop", "control", "order"}
    /\ MaxRestarts \in Nat
    /\ Faults \subseteq {"expiry", "dropped", "duplicate", "engine_ends", "raises", "slow"}
    /\ "none" \notin Handlers

VARIABLES
    kind,       \* the action of each prepared operation
    gate,       \* status in the gateway's store
    expired,    \* operations older than OPERATION_TTL_SECONDS
    hand,       \* gateway handlers
    call,       \* supervisor tasks, one per connection
    lock,       \* the task that holds the supervisor's self.lock
    book,       \* result in the supervisor's operations table; "null" is intent only
    sent,       \* commands written to the worker's socket
    task,       \* the worker's progress with each command
    wlog,       \* status in the worker's journal
    engine,     \* "up", "closing" once the control server quiesces, "gone"
    restarts,
    effect      \* how often each operation took effect

gatewayVars == <<kind, gate, expired, hand>>
supervisorVars == <<call, lock, book>>
workerVars == <<task, wlog>>
vars == <<gatewayVars, supervisorVars, sent, workerVars, engine, restarts, effect>>

NoHandler == [pc |-> "idle", op |-> "none"]
NoCall == [pc |-> "none", op |-> "none", answer |-> "none"]
Final == {"SUCCEEDED", "FAILED", "EXPIRED"}

Init ==
    /\ kind = [o \in Ops |-> "none"] /\ gate = [o \in Ops |-> "NONE"]
    /\ expired = {} /\ hand = [h \in Handlers |-> NoHandler]
    /\ call = [h \in Handlers |-> NoCall] /\ lock = "none"
    /\ book = [o \in Ops |-> "absent"] /\ sent = {}
    /\ task = [o \in Ops |-> "none"] /\ wlog = [o \in Ops |-> "absent"]
    /\ engine = "up" /\ restarts = 0 /\ effect = [o \in Ops |-> 0]

-----------------------------------------------------------------------------
(* The gateway.                                                            *)

\* finish: the status is written whatever it was.
Finish(o, status) == gate' = [gate EXCEPT ![o] = status]

Moves(h, pc) == hand' = [hand EXCEPT ![h].pc = pc]
Leaves(h) == hand' = [hand EXCEPT ![h] = NoHandler]
Resting(h) == hand[h] = NoHandler /\ call[h] = NoCall

\* prepare_operation inserts the row; the supervisor's prepare changes nothing here.
Prepare(o, k) ==
    /\ gate[o] = "NONE"
    /\ kind' = [kind EXCEPT ![o] = k] /\ Finish(o, "PREPARED")
    /\ UNCHANGED <<expired, hand, supervisorVars, sent, workerVars, engine, restarts, effect>>

TtlPasses(o) ==
    /\ "expiry" \in Faults /\ gate[o] # "NONE" /\ o \notin expired
    /\ expired' = expired \cup {o}
    /\ UNCHANGED <<kind, gate, hand, supervisorVars, sent, workerVars, engine, restarts, effect>>

\* begin loads the row; any status but PREPARED is returned as the receipt.
ExecuteLoad(h, o) ==
    /\ Resting(h) /\ gate[o] = "PREPARED"
    /\ hand' = [hand EXCEPT ![h] = [pc |-> "loaded", op |-> o]]
    /\ UNCHANGED <<kind, gate, expired, supervisorVars, sent, workerVars, engine, restarts, effect>>

\* begin finds the deadline passed, after the row was loaded.
ExecuteExpired(h) ==
    /\ hand[h].pc = "loaded" /\ hand[h].op \in expired
    /\ Finish(hand[h].op, "EXPIRED") /\ Leaves(h)
    /\ UNCHANGED <<kind, expired, supervisorVars, sent, workerVars, engine, restarts, effect>>

\* begin claims the operation if it is still PREPARED, and otherwise returns its receipt.
ExecuteClaim(h) ==
    /\ hand[h].pc = "loaded" /\ hand[h].op \notin expired
    /\ IF gate[hand[h].op] = "PREPARED"
       THEN Finish(hand[h].op, "PROCESSING") /\ Moves(h, "claimed")
       ELSE UNCHANGED gate /\ Leaves(h)
    /\ UNCHANGED <<kind, expired, supervisorVars, sent, workerVars, engine, restarts, effect>>

\* socket_request connects and writes the request.
ExecuteSend(h) ==
    /\ hand[h].pc = "claimed"
    /\ Moves(h, "executing")
    /\ call' = [call EXCEPT ![h] = [NoCall EXCEPT !.pc = "lock", !.op = hand[h].op]]
    /\ UNCHANGED <<kind, gate, expired, lock, book, sent, workerVars, engine, restarts, effect>>

\* How execute_operation reads the supervisor's answer; an error reply is a refusal.
StatusOf == [completed |-> "SUCCEEDED", failed |-> "FAILED", refused |-> "FAILED",
             unknown |-> "UNKNOWN_BUT_QUERYABLE"]

ExecuteReply(h) ==
    /\ hand[h].pc = "executing" /\ call[h].pc = "answered"
    /\ Finish(hand[h].op, StatusOf[call[h].answer]) /\ Leaves(h)
    /\ call' = [call EXCEPT ![h] = NoCall]
    /\ UNCHANGED <<kind, expired, lock, book, sent, workerVars, engine, restarts, effect>>

\* The connection breaks before the supervisor has read the request.
ExecuteBroken(h) ==
    /\ hand[h].pc = "claimed"
    /\ Finish(hand[h].op, "FAILED") /\ Leaves(h)
    /\ UNCHANGED <<kind, expired, supervisorVars, sent, workerVars, engine, restarts, effect>>

\* No connection, no answer within 60 seconds, or the connection ends without one.
ExecuteUncertain(h) ==
    /\ hand[h].pc \in {"claimed", "executing"}
    /\ Finish(hand[h].op, "UNKNOWN_BUT_QUERYABLE") /\ Leaves(h)
    /\ UNCHANGED <<kind, expired, supervisorVars, sent, workerVars, engine, restarts, effect>>

\* get_operation asks the supervisor while the outcome is open.
QueryBegin(h, o) ==
    /\ Resting(h) /\ gate[o] \in {"PROCESSING", "UNKNOWN_BUT_QUERYABLE"}
    /\ hand' = [hand EXCEPT ![h] = [pc |-> "querying", op |-> o]]
    /\ call' = [call EXCEPT ![h] = [NoCall EXCEPT !.pc = "query", !.op = o]]
    /\ UNCHANGED <<kind, gate, expired, lock, book, sent, workerVars, engine, restarts, effect>>

\* Only a definite answer is written.
QueryReply(h) ==
    /\ hand[h].pc = "querying" /\ call[h].pc = "answered"
    /\ IF call[h].answer \in {"completed", "failed"}
       THEN Finish(hand[h].op, StatusOf[call[h].answer]) ELSE UNCHANGED gate
    /\ Leaves(h) /\ call' = [call EXCEPT ![h] = NoCall]
    /\ UNCHANGED <<kind, expired, lock, book, sent, workerVars, engine, restarts, effect>>

\* The connection ends, or the supervisor takes longer than 60 seconds for a receipt, which
\* needs no lock and asks the worker for a few seconds at most.
QueryUncertain(h) ==
    /\ hand[h].pc = "querying" /\ (call[h] = NoCall \/ "slow" \in Faults)
    /\ Leaves(h)
    /\ UNCHANGED <<kind, gate, expired, supervisorVars, sent, workerVars, engine, restarts, effect>>

\* The client goes away: the handler is dropped where it awaits.
HandlerDropped(h) ==
    /\ "dropped" \in Faults /\ hand[h].pc \in {"claimed", "executing"}
    /\ Leaves(h)
    /\ UNCHANGED <<kind, gate, expired, supervisorVars, sent, workerVars, engine, restarts, effect>>

\* Another client of the supervisor's socket submits the same identifier.
DuplicateCall(h, o) ==
    /\ "duplicate" \in Faults /\ Resting(h) /\ kind[o] # "none"
    /\ call' = [call EXCEPT ![h] = [NoCall EXCEPT !.pc = "lock", !.op = o]]
    /\ UNCHANGED <<gatewayVars, lock, book, sent, workerVars, engine, restarts, effect>>

\* OperationStore::initialize after a restart; connections are closed with the process.
GatewayRestarts ==
    /\ restarts < MaxRestarts /\ restarts' = restarts + 1
    /\ hand' = [h \in Handlers |-> NoHandler]
    /\ gate' = [o \in Ops |-> IF gate[o] = "PROCESSING" THEN "UNKNOWN_BUT_QUERYABLE" ELSE gate[o]]
    /\ UNCHANGED <<kind, expired, supervisorVars, sent, workerVars, engine, effect>>

-----------------------------------------------------------------------------
(* The supervisor.                                                         *)

At(h, pc) == call[h].pc = pc
Steps(h, pc) == call' = [call EXCEPT ![h].pc = pc]

\* The task answers and lets go of the lock if it holds it.
Answers(h, answer) ==
    /\ call' = [call EXCEPT ![h].pc = "answered", ![h].answer = answer]
    /\ lock' = IF lock = h THEN "none" ELSE lock

Records(o, result) == book' = [book EXCEPT ![o] = result]

\* Fault seeded for AtMostOnce: a known identifier is executed again.
Acquire_NoPrior(h) ==
    /\ At(h, "lock") /\ lock = "none"
    /\ lock' = h /\ Steps(h, "prepare")
    /\ UNCHANGED <<gatewayVars, book, sent, workerVars, engine, restarts, effect>>

\* execute takes the lock; a known identifier only gets its receipt.
Acquire(h) ==
    /\ At(h, "lock") /\ lock = "none"
    /\ lock' = h
    /\ Steps(h, IF book[call[h].op] = "absent" THEN "prepare" ELSE "query")
    /\ UNCHANGED <<gatewayVars, book, sent, workerVars, engine, restarts, effect>>

PrepareRefuses(h) ==
    /\ At(h, "prepare") /\ Answers(h, "refused")
    /\ UNCHANGED <<gatewayVars, book, sent, workerVars, engine, restarts, effect>>

\* Fault seeded for EffectIsOnRecord: the intent is not committed.
Intent_Unrecorded(h) ==
    /\ At(h, "prepare") /\ Steps(h, "act")
    /\ UNCHANGED <<gatewayVars, lock, book, sent, workerVars, engine, restarts, effect>>

\* The intent is committed before anything else happens.
Intent(h) ==
    /\ At(h, "prepare") /\ Records(call[h].op, "null") /\ Steps(h, "act")
    /\ UNCHANGED <<gatewayVars, lock, sent, workerVars, engine, restarts, effect>>

ByWorker(o) == kind[o] \in {"control", "order"}

\* launch creates the process, control(stop) signals it ...
Act(h) ==
    /\ At(h, "act") /\ ~ByWorker(call[h].op)
    /\ effect' = [effect EXCEPT ![call[h].op] = @ + 1] /\ Steps(h, "acted")
    /\ UNCHANGED <<gatewayVars, lock, book, sent, workerVars, engine, restarts>>

\* ... and the result is committed.
ActRecorded(h) ==
    /\ At(h, "acted") /\ Records(call[h].op, "completed") /\ Answers(h, "completed")
    /\ UNCHANGED <<gatewayVars, sent, workerVars, engine, restarts, effect>>

\* A process that is gone again before launch could look it up is reported as failed.
LaunchLost(h) ==
    /\ At(h, "acted") /\ kind[call[h].op] = "start"
    /\ Records(call[h].op, "failed") /\ Answers(h, "failed")
    /\ UNCHANGED <<gatewayVars, sent, workerVars, engine, restarts, effect>>

\* The process cannot be created or is not owned (any more).
ActFails(h) ==
    /\ At(h, "act") /\ Records(call[h].op, "failed") /\ Answers(h, "failed")
    /\ UNCHANGED <<gatewayVars, sent, workerVars, engine, restarts, effect>>

\* control writes the command to the worker's socket.
SendWorker(h) ==
    /\ At(h, "act") /\ ByWorker(call[h].op) /\ engine # "gone"
    /\ sent' = sent \cup {call[h].op} /\ Steps(h, "worker")
    /\ UNCHANGED <<gatewayVars, lock, book, workerVars, engine, restarts, effect>>

WorkerReply(h) ==
    /\ At(h, "worker") /\ engine # "gone"
    /\ wlog[call[h].op] \in {"completed", "failed", "unknown"}
    /\ Records(call[h].op, wlog[call[h].op]) /\ Answers(h, wlog[call[h].op])
    /\ UNCHANGED <<gatewayVars, sent, workerVars, engine, restarts, effect>>

\* Fault seeded for ReceiptsAreTrue: silence is taken for failure.
WorkerSilent_Failed(h) ==
    /\ At(h, "worker") /\ Records(call[h].op, "failed") /\ Answers(h, "failed")
    /\ UNCHANGED <<gatewayVars, sent, workerVars, engine, restarts, effect>>

\* No reply within three seconds: the outcome is unknown, never failed.
WorkerSilent(h) ==
    /\ At(h, "worker") /\ Records(call[h].op, "unknown") /\ Answers(h, "unknown")
    /\ UNCHANGED <<gatewayVars, sent, workerVars, engine, restarts, effect>>

\* receipt: an open result of a reconciled kind is looked up at the worker.
Open(o) == book[o] \in {"null", "unknown"}

\* Fault seeded for CompletedIsReported: the worker is never asked.
Query_TableOnly(h) ==
    /\ At(h, "query")
    /\ Answers(h, CASE book[call[h].op] = "absent" -> "refused"
                     [] Open(call[h].op)           -> "unknown"
                     [] OTHER                      -> book[call[h].op])
    /\ UNCHANGED <<gatewayVars, book, sent, workerVars, engine, restarts, effect>>

Query(h) ==
    /\ At(h, "query")
    /\ LET o == call[h].op
       IN  IF Open(o) /\ kind[o] = "control" THEN Steps(h, "ask") /\ UNCHANGED lock
           ELSE Answers(h, CASE book[o] = "absent" -> "refused"
                             [] Open(o)            -> "unknown"
                             [] OTHER              -> book[o])
    /\ UNCHANGED <<gatewayVars, book, sent, workerVars, engine, restarts, effect>>

\* The worker's socket or, once it is gone, its journal holds a definite result, which is
\* stored. The task has not held the row since it read it.
AskReply(h) ==
    /\ At(h, "ask") /\ wlog[call[h].op] \in {"completed", "failed"}
    /\ Records(call[h].op, wlog[call[h].op]) /\ Answers(h, wlog[call[h].op])
    /\ UNCHANGED <<gatewayVars, sent, workerVars, engine, restarts, effect>>

\* No definite result, or no answer within a second.
AskSilent(h) ==
    /\ At(h, "ask") /\ Answers(h, "unknown")
    /\ UNCHANGED <<gatewayVars, book, sent, workerVars, engine, restarts, effect>>

\* Nobody reads the answer any more.
AnswerUnread(h) ==
    /\ At(h, "answered") /\ hand[h] = NoHandler
    /\ call' = [call EXCEPT ![h] = NoCall]
    /\ UNCHANGED <<gatewayVars, lock, book, sent, workerVars, engine, restarts, effect>>

\* A restart leaves only the table, in which a missing result becomes unknown; the cgroup
\* takes the worker along.
SupervisorRestarts ==
    /\ restarts < MaxRestarts /\ restarts' = restarts + 1
    /\ call' = [h \in Handlers |-> NoCall] /\ lock' = "none"
    /\ book' = [o \in Ops |-> IF book[o] = "null" THEN "unknown" ELSE book[o]]
    /\ engine' = "gone"
    /\ UNCHANGED <<gatewayVars, sent, workerVars, effect>>

-----------------------------------------------------------------------------
(* The worker: ControlServer.dispatch, one command at a time.              *)

Working == {o \in Ops : task[o] \in {"accepted", "applied"}}

Logs(o, status) == wlog' = [wlog EXCEPT ![o] = status]

\* Intent is committed first; a control server that quiesces refuses.
Dispatch(o) ==
    /\ o \in sent /\ wlog[o] = "absent" /\ engine # "gone" /\ Working = {}
    /\ IF engine = "closing" THEN Logs(o, "failed") /\ UNCHANGED task
       ELSE Logs(o, "processing") /\ task' = [task EXCEPT ![o] = "accepted"]
    /\ UNCHANGED <<gatewayVars, supervisorVars, sent, engine, restarts, effect>>

Apply(o) ==
    /\ task[o] = "accepted" /\ engine # "gone"
    /\ task' = [task EXCEPT ![o] = "applied"] /\ effect' = [effect EXCEPT ![o] = @ + 1]
    /\ UNCHANGED <<gatewayVars, supervisorVars, sent, wlog, engine, restarts>>

Complete(o) ==
    /\ task[o] = "applied" /\ engine # "gone"
    /\ task' = [task EXCEPT ![o] = "done"] /\ Logs(o, "completed")
    /\ UNCHANGED <<gatewayVars, supervisorVars, sent, engine, restarts, effect>>

\* A handler that raises may have taken effect.
Raises(o) ==
    /\ "raises" \in Faults /\ o \in Working /\ engine # "gone"
    /\ task' = [task EXCEPT ![o] = "done"] /\ Logs(o, "unknown")
    /\ UNCHANGED <<gatewayVars, supervisorVars, sent, engine, restarts, effect>>

Quiesce ==
    /\ "engine_ends" \in Faults /\ engine = "up"
    /\ engine' = "closing"
    /\ UNCHANGED <<gatewayVars, supervisorVars, sent, workerVars, restarts, effect>>

\* The worker ends or is killed, with whatever it was doing.
EngineEnds ==
    /\ "engine_ends" \in Faults /\ engine # "gone"
    /\ engine' = "gone"
    /\ UNCHANGED <<gatewayVars, supervisorVars, sent, workerVars, restarts, effect>>

-----------------------------------------------------------------------------
HandlerNext(h) ==
    \/ ExecuteExpired(h) \/ ExecuteClaim(h) \/ ExecuteSend(h) \/ ExecuteReply(h)
    \/ ExecuteBroken(h) \/ ExecuteUncertain(h) \/ QueryReply(h) \/ QueryUncertain(h)

CallNext(h) ==
    \/ Acquire(h) \/ PrepareRefuses(h) \/ Intent(h) \/ Act(h) \/ ActRecorded(h)
    \/ LaunchLost(h) \/ ActFails(h)
    \/ SendWorker(h) \/ WorkerReply(h) \/ WorkerSilent(h)
    \/ Query(h) \/ AskReply(h) \/ AskSilent(h) \/ AnswerUnread(h)

WorkerNext(o) == Dispatch(o) \/ Apply(o) \/ Complete(o) \/ Raises(o)

Next ==
    \/ \E h \in Handlers :
        \/ HandlerNext(h) \/ CallNext(h) \/ HandlerDropped(h)
        \/ \E o \in Ops : ExecuteLoad(h, o) \/ QueryBegin(h, o) \/ DuplicateCall(h, o)
    \/ \E o \in Ops : WorkerNext(o) \/ TtlPasses(o) \/ \E k \in Kinds : Prepare(o, k)
    \/ GatewayRestarts \/ SupervisorRestarts \/ Quiesce \/ EngineEnds

Spec == Init /\ [][Next]_vars

\* Handlers, supervisor tasks and the worker keep running, a terminal keeps querying an open
\* operation, and a worker that is asked again and again sometimes answers in time.
Fairness ==
    /\ \A h \in Handlers : WF_vars(HandlerNext(h)) /\ WF_vars(CallNext(h))
    /\ \A o \in Ops : WF_vars(WorkerNext(o))
    /\ \A o \in Ops : SF_vars(\E h \in Handlers : QueryBegin(h, o))
    /\ \A h \in Handlers : SF_vars(AskReply(h))

FairSpec == Spec /\ Fairness

-----------------------------------------------------------------------------
CallPcs == {"none", "lock", "prepare", "act", "acted", "worker", "query", "ask", "answered"}
Outcomes == {"refused", "completed", "failed", "unknown"}

Statuses == Final \cup {"NONE", "PREPARED", "PROCESSING", "UNKNOWN_BUT_QUERYABLE"}
HandlerRecord == [pc : {"idle", "loaded", "claimed", "executing", "querying"}, op : Ops \cup {"none"}]
CallRecord == [pc : CallPcs, op : Ops \cup {"none"}, answer : Outcomes \cup {"none"}]

TypeOK ==
    /\ kind \in [Ops -> Kinds \cup {"none"}]
    /\ gate \in [Ops -> Statuses]
    /\ expired \subseteq Ops /\ sent \subseteq Ops
    /\ hand \in [Handlers -> HandlerRecord] /\ call \in [Handlers -> CallRecord]
    /\ lock \in Handlers \cup {"none"}
    /\ book \in [Ops -> {"absent", "null", "completed", "failed", "unknown"}]
    /\ task \in [Ops -> {"none", "accepted", "applied", "done"}]
    /\ wlog \in [Ops -> {"absent", "processing", "completed", "failed", "unknown"}]
    /\ engine \in {"up", "closing", "gone"} /\ restarts \in Nat /\ effect \in [Ops -> Nat]

\* An operation takes effect at most once, whatever is retried, duplicated or restarted
\* between the terminal and the engine (begin's claim, execute's prior row, dispatch).
AtMostOnce == \A o \in Ops : effect[o] <= 1

\* Receipts tell the truth: a success took effect, and a failure took none and never will,
\* so that an operator may safely prepare a new operation. A failed start may have had a
\* process, which is gone.
ReceiptsAreTrue ==
    \A o \in Ops :
        /\ gate[o] = "SUCCEEDED" => effect[o] = 1
        /\ gate[o] = "FAILED" => effect[o] = 0 \/ kind[o] = "start"

\* What took effect can be found out about: intent is on record at the supervisor and, for
\* a command of the worker, in its journal, before the effect (execute, dispatch).
EffectIsOnRecord ==
    \A o \in Ops : effect[o] > 0 =>
        /\ book[o] # "absent"
        /\ ByWorker(o) => wlog[o] \notin {"absent", "failed"}

\* An operation shown as expired was not executed.
ExpiredWasNotExecuted == \A o \in Ops : gate[o] = "EXPIRED" => effect[o] = 0

\* A command the worker completed is reported as succeeded in the end, and for good, however
\* many replies were lost on the way (get_operation, receipt, stored_worker_receipt).
CompletedIsReported ==
    \A o \in Ops : (kind[o] = "control" /\ wlog[o] = "completed") ~> [](gate[o] = "SUCCEEDED")
=============================================================================
