--------------------------- MODULE WorkerControl ---------------------------
(***************************************************************************)
(* The two threads of a live worker (live_hft_worker.py): the control      *)
(* thread with ControlServer (control.py), and the engine thread with      *)
(* NativeControls (live_controls.py), which applies commands between polls *)
(* of the node and sells the run's inventory when told to flatten.         *)
(*                                                                         *)
(* One instrument, counted in lots. The node's risk engine, its strategies *)
(* and the venue are modelled from how this code uses them.                *)
(***************************************************************************)
EXTENDS Integers, Sequences

CONSTANTS
    Ops,          \* operations the supervisor may send
    Commands,     \* the commands among "halt" (or cancel), "reduce", "resume", "flatten", "stop"
    Modes,        \* "native": a grid; "allocation": a feed whose strategy trades to a target;
                  \* "continuous": ContinuousExecutor
    QueueMax,     \* 32 in the code
    MaxAttempts,  \* 16 in the code: orders of a flatten
    MaxHeld       \* bound: lots the run holds

ASSUME WorkerAssumption ==
    /\ Commands \subseteq {"halt", "reduce", "resume", "flatten", "stop"}
    /\ Modes \subseteq {"native", "allocation", "continuous"}
    /\ QueueMax \in Nat \ {0} /\ MaxAttempts \in Nat \ {0} /\ MaxHeld \in Nat \ {0}

VARIABLES
    journal, cmd, task, server,             \* the control thread; an operation's task ends in its future
    queue, closed, stop, state,             \* shared by the threads
    engine, applying, trading, paused,      \* the engine thread, the risk engine's state, the strategies
    flatten, denied, error,
    order, held, ledger, own,               \* orders, what fills left, allocated_positions, the strategy's ledger
    mode,
    applied, partial, late                  \* history: commands applied whole, those that raised after a
                                            \* change, those queued after close()

controlVars == <<journal, cmd, task, server>>
marketVars == <<order, held, ledger, own>>
nodeVars == <<trading, paused, flatten, denied, error, marketVars, mode>>
historyVars == <<applied, partial, late>>
vars == <<controlVars, queue, closed, stop, state, engine, applying, nodeVars, historyVars>>

NoFlatten == [phase |-> "none", attempts |-> 0, overdue |-> FALSE]
NoOrder == [status |-> "none", side |-> "none", lots |-> 0]
Traders == {"strategy", "operator"}

Init ==
    /\ journal = [o \in Ops |-> "absent"] /\ cmd = [o \in Ops |-> "none"]
    /\ task = [o \in Ops |-> "none"] /\ server = "up"
    /\ queue = <<>> /\ closed = FALSE /\ stop = FALSE /\ state = "STARTING"
    /\ engine = "starting" /\ applying = "none" /\ trading = "ACTIVE" /\ paused = FALSE
    /\ flatten = NoFlatten /\ denied = FALSE /\ error = FALSE
    /\ order = [t \in Traders |-> NoOrder]
    /\ held \in 0 .. MaxHeld /\ ledger = held /\ mode \in Modes /\ own = (IF mode = "native" THEN 0 ELSE held)
    /\ applied = {} /\ partial = {} /\ late = {}

-----------------------------------------------------------------------------
(* The control thread.                                                     *)

\* dispatch holds its lock while a handler runs.
Holding == {"put", "stopping", "future", "result", "error"}
LockFree == \A o \in Ops : task[o] \notin Holding

\* A connection brings a command.
Arrive(o, c) ==
    /\ server # "stopped" /\ task[o] = "none"
    /\ cmd' = [cmd EXCEPT ![o] = c] /\ task' = [task EXCEPT ![o] = "lock"]
    /\ UNCHANGED <<journal, server, queue, closed, stop, state, engine, applying, nodeVars, historyVars>>

Answer(o, status) == journal' = [journal EXCEPT ![o] = status] /\ task' = [task EXCEPT ![o] = "done"]

\* dispatch commits the intent and calls the handler: request looks at closed, request_stop
\* sets the event.
Dispatch(o) ==
    /\ task[o] = "lock" /\ LockFree
    /\ IF server # "up" THEN Answer(o, "failed") /\ UNCHANGED stop
       ELSE IF cmd[o] = "stop"
       THEN /\ journal' = [journal EXCEPT ![o] = "processing"] /\ stop' = TRUE
            /\ task' = [task EXCEPT ![o] = "stopping"]
       ELSE IF closed THEN Answer(o, "unknown") /\ UNCHANGED stop
       ELSE /\ journal' = [journal EXCEPT ![o] = "processing"] /\ UNCHANGED stop
            /\ task' = [task EXCEPT ![o] = "put"]
    /\ UNCHANGED <<cmd, server, queue, closed, state, engine, applying, nodeVars, historyVars>>

\* The rest of request_stop.
StopShown(o) ==
    /\ task[o] = "stopping" /\ state' = "STOPPING" /\ Answer(o, "completed") /\ applied' = applied \cup {o}
    /\ UNCHANGED <<cmd, server, queue, closed, stop, engine, applying, nodeVars, partial, late>>

\* The rest of request: the engine thread may have closed the controls meanwhile.
Put(o) ==
    /\ task[o] = "put"
    /\ IF Len(queue) < QueueMax
       THEN /\ queue' = Append(queue, o) /\ task' = [task EXCEPT ![o] = "future"]
            /\ late' = IF closed THEN late \cup {o} ELSE late
            /\ UNCHANGED journal
       ELSE Answer(o, "unknown") /\ UNCHANGED <<queue, late>>
    /\ UNCHANGED <<cmd, server, closed, stop, state, engine, applying, nodeVars, applied, partial>>

\* Seeded fault: an exception of the handler is a rejection.
Resolve_Failed(o) ==
    /\ task[o] \in {"result", "error"}
    /\ Answer(o, IF task[o] = "result" THEN "completed" ELSE "failed")
    /\ UNCHANGED <<cmd, server, queue, closed, stop, state, engine, applying, nodeVars, historyVars>>

\* The future is done: dispatch records the receipt.
Resolve(o) ==
    /\ task[o] \in {"result", "error"}
    /\ Answer(o, IF task[o] = "result" THEN "completed" ELSE "unknown")
    /\ UNCHANGED <<cmd, server, queue, closed, stop, state, engine, applying, nodeVars, historyVars>>

\* control.stop() once the engine thread has finished: quiesce, ...
Quiesce ==
    /\ server = "up" /\ engine \in {"finished", "exited"} /\ server' = "closing"
    /\ UNCHANGED <<journal, cmd, task, queue, closed, stop, state, engine, applying, nodeVars, historyVars>>

\* ... then the requests under way end, and the thread.
ServerStops ==
    /\ server = "closing" /\ (\A o \in Ops : task[o] \in {"none", "done"}) /\ server' = "stopped"
    /\ UNCHANGED <<journal, cmd, task, queue, closed, stop, state, engine, applying, nodeVars, historyVars>>

-----------------------------------------------------------------------------
(* The engine thread: commands.                                            *)

InProgress == flatten.phase \in {"cancelling", "reducing"}

\* cancel_owned: orders the venue does not know yet are left for the next poll.
Cancelled == [t \in Traders |-> IF order[t].status = "open" THEN [order[t] EXCEPT !.status = "cancelling"]
                                ELSE order[t]]

\* Seeded fault: resume does not look at flatten.
Refused_Resume(c) ==
    \/ stop
    \/ c = "resume" /\ state \notin {"HALTED", "REDUCING"}
    \/ c = "flatten" /\ InProgress

Refused(c) ==
    \/ stop
    \/ c = "resume" /\ (flatten # NoFlatten \/ state \notin {"HALTED", "REDUCING"})
    \/ c = "flatten" /\ InProgress

\* process takes a command and apply looks at what it depends on.
Process ==
    /\ engine = "loop" /\ queue # <<>>
    /\ queue' = Tail(queue)
    /\ IF Refused(cmd[Head(queue)])
       THEN task' = [task EXCEPT ![Head(queue)] = "error"] /\ UNCHANGED <<engine, applying>>
       ELSE engine' = "apply" /\ applying' = Head(queue) /\ UNCHANGED task
    /\ UNCHANGED <<journal, cmd, server, closed, stop, state, nodeVars, historyVars>>

SetTrading(s) == trading' = s /\ state' = s

\* stop_strategies and cancel_owned.
Pause == paused' = TRUE /\ order' = Cancelled

\* What reconcile_allocation sets the ledger of an allocation feed to.
Reconciled == IF mode = "allocation" THEN ledger ELSE own

ApplyHalt == SetTrading("HALTED") /\ Pause /\ UNCHANGED <<flatten, own>>

\* Strategies of a feed go on, to sell only.
ApplyReduce ==
    /\ SetTrading("REDUCING") /\ order' = Cancelled /\ paused' = (mode = "native")
    /\ own' = Reconciled
    /\ UNCHANGED flatten

ApplyResume ==
    /\ SetTrading("ACTIVE") /\ paused' = FALSE
    /\ own' = Reconciled
    /\ UNCHANGED <<flatten, order>>

ApplyFlatten ==
    /\ SetTrading("REDUCING") /\ Pause
    /\ flatten' = [NoFlatten EXCEPT !.phase = "cancelling"]
    /\ UNCHANGED own

Apply ==
    /\ engine = "apply" /\ engine' = "loop" /\ applying' = "none"
    /\ CASE cmd[applying] = "halt"    -> ApplyHalt
         [] cmd[applying] = "reduce"  -> ApplyReduce
         [] cmd[applying] = "resume"  -> ApplyResume
         [] cmd[applying] = "flatten" -> ApplyFlatten
    /\ task' = [task EXCEPT ![applying] = "result"] /\ applied' = applied \cup {applying}
    /\ UNCHANGED <<journal, cmd, server, queue, closed, stop, denied, error, held, ledger, mode, partial, late>>

\* What raises may have changed something, or not.
Raised(changed) ==
    /\ engine' = "loop" /\ applying' = "none" /\ task' = [task EXCEPT ![applying] = "error"]
    /\ partial' = IF changed THEN partial \cup {applying} ELSE partial
    /\ UNCHANGED <<journal, cmd, server, queue, closed, stop, flatten, denied, error, held, ledger, mode, applied,
                   late>>

\* stop_strategies raises, so that not all are paused, or cancel_owned does between orders.
PauseRaises ==
    \/ UNCHANGED <<paused, order>>
    \/ paused' = TRUE
       /\ \E T \in SUBSET Traders : order' = [t \in Traders |-> IF t \in T THEN Cancelled[t] ELSE order[t]]

\* start_strategies raises: when it reconciles, or with none or some of the strategies resumed.
StartRaises(stopped) ==
    \/ paused' = stopped /\ own' = own
    \/ paused' \in {stopped, FALSE} /\ own' = Reconciled

\* halt, reduce or flatten raises: in set_trading_state, with nothing changed; in what follows
\* it; or where the strategies of a feed are to go on.
ApplyRaises ==
    /\ engine = "apply" /\ cmd[applying] # "resume"
    /\ \/ Raised(FALSE) /\ UNCHANGED <<trading, state, paused, order, own>>
       \/ /\ Raised(TRUE) /\ SetTrading(IF cmd[applying] = "halt" THEN "HALTED" ELSE "REDUCING")
          /\ PauseRaises /\ UNCHANGED own
       \/ /\ Raised(TRUE) /\ cmd[applying] = "reduce" /\ mode # "native" /\ SetTrading("REDUCING")
          /\ order' = Cancelled /\ StartRaises(TRUE)

\* The risk engine refuses to resume, or a strategy fails to and trading is halted again,
\* which may raise, too.
ResumeRaises ==
    /\ engine = "apply" /\ cmd[applying] = "resume" /\ UNCHANGED order
    /\ \/ Raised(FALSE) /\ UNCHANGED <<trading, state, paused, own>>
       \/ Raised(TRUE) /\ state' = "HALTED" /\ trading' \in {"HALTED", "ACTIVE"} /\ StartRaises(paused)

-----------------------------------------------------------------------------
(* The engine thread: strategies and venue (external), as node.poll runs them. *)

OpenOrders == {t \in Traders : order[t].status # "none"}

Submitted(t, s, n) == [order EXCEPT ![t] = [status |-> "new", side |-> s, lots |-> n]]

\* The risk engine lets through what trading allows; the strategies of a feed look at state, too.
MayTrade(s) ==
    /\ trading = "ACTIVE" \/ (trading = "REDUCING" /\ s = "sell")
    /\ mode # "native" => state = "ACTIVE" \/ (state = "REDUCING" /\ s = "sell")

\* What the strategy believes it may sell.
Sellable == IF mode = "native" THEN held ELSE own

StrategySubmits(s) ==
    /\ engine = "loop" /\ ~paused /\ order["strategy"] = NoOrder /\ MayTrade(s)
    /\ IF s = "sell" THEN Sellable > 0 ELSE held < MaxHeld
    /\ order' = Submitted("strategy", s, 1)
    /\ UNCHANGED <<controlVars, queue, closed, stop, state, engine, applying, trading, paused, flatten, denied, error,
                   held, ledger, own, mode, historyVars>>

VenueAccepts(t) ==
    /\ engine = "loop" /\ order[t].status = "new"
    /\ order' = [order EXCEPT ![t].status = "open"]
    /\ UNCHANGED <<controlVars, queue, closed, stop, state, engine, applying, trading, paused, flatten, denied, error,
                   held, ledger, own, mode, historyVars>>

\* An order ends, filled in part, in full or not at all. A strategy hears of its own fills.
VenueEnds(t, n) ==
    /\ engine = "loop" /\ order[t].status # "none" /\ n \in 0 .. order[t].lots
    /\ order[t].status = "new" => n = 0
    /\ LET change == IF order[t].side = "buy" THEN n ELSE -n
       IN  held' = held + change /\ own' = IF t = "strategy" /\ mode # "native" THEN own + change ELSE own
    /\ order' = [order EXCEPT ![t] = NoOrder]
    /\ UNCHANGED <<controlVars, queue, closed, stop, state, engine, applying, trading, paused, flatten, denied, error,
                   ledger, mode, historyVars>>

-----------------------------------------------------------------------------
(* The engine thread: runtime.update and NativeControls.poll, which follow one another. *)

\* allocated_positions as update computes it.
Allocated == IF mode = "continuous" THEN own ELSE held

Polling ==
    /\ engine = "loop" /\ ledger' = Allocated
    /\ UNCHANGED <<controlVars, queue, closed, stop, engine, applying, paused, error, held, own, mode, historyVars>>

Retried == IF state = "HALTED" \/ flatten.phase = "cancelling" THEN Cancelled ELSE order

\* No flatten is under way, or it waits for orders to end.
PollWaits ==
    /\ Polling
    /\ ~InProgress \/ (~flatten.overdue /\ OpenOrders # {})
    /\ order' = Retried
    /\ UNCHANGED <<state, trading, flatten, denied>>

\* Seeded fault: the deadline is looked at once there are no open orders.
FlattenTimesOut_NoOrders ==
    /\ Polling /\ InProgress /\ flatten.overdue /\ OpenOrders = {}
    /\ flatten' = [flatten EXCEPT !.phase = "incomplete"] /\ SetTrading("HALTED") /\ order' = Cancelled
    /\ UNCHANGED denied

FlattenTimesOut ==
    /\ Polling /\ InProgress /\ flatten.overdue
    /\ flatten' = [flatten EXCEPT !.phase = "incomplete"] /\ SetTrading("HALTED") /\ order' = Cancelled
    /\ UNCHANGED denied

\* Seeded fault: poll does not wait for the orders it cancelled.
Reducing_OpenOrders == Polling /\ InProgress /\ ~flatten.overdue

Reducing == Polling /\ InProgress /\ ~flatten.overdue /\ OpenOrders = {}

FlattenCompletes ==
    /\ Reducing /\ Allocated <= 0
    /\ flatten' = [flatten EXCEPT !.phase = "completed"] /\ SetTrading("HALTED")
    /\ UNCHANGED <<order, denied>>

\* The attempts are used up, or there is no fresh quote or balance.
FlattenWaits ==
    /\ Reducing /\ Allocated > 0
    /\ flatten' = [flatten EXCEPT !.phase = "reducing"]
    /\ UNCHANGED <<state, trading, order, denied>>

\* Seeded fault: one attempt too many.
FlattenSubmits_OneMore(n) ==
    /\ Reducing /\ n <= Allocated /\ flatten.attempts <= MaxAttempts
    /\ flatten' = [flatten EXCEPT !.phase = "reducing", !.attempts = @ + 1]
    /\ IF trading = "HALTED" THEN denied' = (denied \/ mode # "continuous") /\ UNCHANGED order
       ELSE order' = Submitted("operator", "sell", n) /\ UNCHANGED denied
    /\ UNCHANGED <<state, trading>>

\* A sell order of at most the allocation; the risk engine denies it while halted. The
\* orders that update counts are the executor's own when there is one.
FlattenSubmits(n) ==
    /\ Reducing /\ n <= Allocated /\ flatten.attempts < MaxAttempts
    /\ flatten' = [flatten EXCEPT !.phase = "reducing", !.attempts = @ + 1]
    /\ IF trading = "HALTED" THEN denied' = (denied \/ mode # "continuous") /\ UNCHANGED order
       ELSE order' = Submitted("operator", "sell", n) /\ UNCHANGED denied
    /\ UNCHANGED <<state, trading>>

Poll == PollWaits \/ FlattenTimesOut \/ FlattenCompletes \/ FlattenWaits \/ \E n \in 1 .. MaxHeld : FlattenSubmits(n)

\* Sixty seconds after the flatten.
FlattenOverdue ==
    /\ InProgress /\ ~flatten.overdue /\ flatten' = [flatten EXCEPT !.overdue = TRUE]
    /\ UNCHANGED <<controlVars, queue, closed, stop, state, engine, applying, trading, paused, denied, error,
                   marketVars, mode, historyVars>>

\* An order of the executor is denied: the worker halts itself.
RiskHalt ==
    /\ engine = "loop" /\ mode = "continuous" /\ order["strategy"].status = "new" /\ ~stop
    /\ SetTrading("HALTED") /\ paused' = TRUE /\ order' = [Cancelled EXCEPT !["strategy"] = NoOrder]
    /\ UNCHANGED <<controlVars, queue, closed, stop, engine, applying, flatten, denied, error, held, ledger, own, mode,
                   historyVars>>

\* Halting itself raises on its way, and the worker ends.
RiskHaltRaises ==
    /\ engine = "loop" /\ mode = "continuous" /\ order["strategy"].status = "new" /\ ~stop
    /\ engine' = "closing" /\ state' = "ERROR" /\ error' = TRUE /\ trading' = "HALTED" /\ PauseRaises
    /\ UNCHANGED <<controlVars, queue, closed, stop, applying, flatten, denied, held, ledger, own, mode, historyVars>>

-----------------------------------------------------------------------------
(* The engine thread: start and end.                                       *)

NodeStarts ==
    /\ engine = "starting" /\ engine' = "loop" /\ state' = "ACTIVE"
    /\ UNCHANGED <<controlVars, queue, closed, stop, applying, nodeVars, historyVars>>

\* SIGTERM.
Signal ==
    /\ ~stop /\ engine # "exited" /\ stop' = TRUE
    /\ UNCHANGED <<controlVars, queue, closed, state, engine, applying, nodeVars, historyVars>>

\* Stopped, or the run's time is over.
LoopEnds ==
    /\ engine = "loop" /\ engine' = "closing"
    /\ UNCHANGED <<controlVars, queue, closed, stop, state, applying, nodeVars, historyVars>>

\* The node does not start, a feed fails or an order was denied.
LoopFails ==
    /\ engine = "starting" \/ (engine = "loop" /\ (denied \/ mode # "native"))
    /\ engine' = "closing" /\ state' = "ERROR" /\ error' = TRUE
    /\ UNCHANGED <<controlVars, queue, closed, stop, applying, trading, paused, flatten, denied, marketVars, mode,
                   historyVars>>

\* controls.close()
Close ==
    /\ engine = "closing" /\ engine' = "draining" /\ closed' = TRUE
    /\ UNCHANGED <<controlVars, queue, stop, state, applying, nodeVars, historyVars>>

\* Seeded fault: the futures get a result.
Drain_Result ==
    /\ engine = "draining" /\ queue # <<>>
    /\ queue' = Tail(queue) /\ task' = [task EXCEPT ![Head(queue)] = "result"]
    /\ UNCHANGED <<journal, cmd, server, closed, stop, state, engine, applying, nodeVars, historyVars>>

Drain ==
    /\ engine = "draining" /\ queue # <<>>
    /\ queue' = Tail(queue) /\ task' = [task EXCEPT ![Head(queue)] = "error"]
    /\ UNCHANGED <<journal, cmd, server, closed, stop, state, engine, applying, nodeVars, historyVars>>

\* Seeded fault: close leaves the queue as it is.
NodeStops_Queued ==
    /\ engine = "draining" /\ engine' = "finished"
    /\ state' = IF error THEN "ERROR" ELSE "STOPPED"
    /\ order' = [t \in Traders |-> NoOrder]
    /\ UNCHANGED <<controlVars, queue, closed, stop, applying, trading, paused, flatten, denied, error,
                   held, ledger, own, mode, historyVars>>

\* The queue is empty: the node is stopped and disposed of with its orders, and the control
\* thread told.
NodeStops ==
    /\ engine = "draining" /\ queue = <<>> /\ engine' = "finished"
    /\ state' = IF error THEN "ERROR" ELSE "STOPPED"
    /\ order' = [t \in Traders |-> NoOrder]
    /\ UNCHANGED <<controlVars, queue, closed, stop, applying, trading, paused, flatten, denied, error,
                   held, ledger, own, mode, historyVars>>

\* join with its timeout, and the final files.
Exit ==
    /\ engine = "finished" /\ engine' = "exited"
    /\ UNCHANGED <<controlVars, queue, closed, stop, state, applying, nodeVars, historyVars>>

-----------------------------------------------------------------------------
ControlStep == \/ \E o \in Ops : Dispatch(o) \/ StopShown(o) \/ Put(o) \/ Resolve(o)
               \/ Quiesce \/ ServerStops

Shutdown == Close \/ Drain \/ NodeStops \/ Exit

Next ==
    \/ ControlStep \/ \E o \in Ops, c \in Commands : Arrive(o, c)
    \/ Process \/ Apply \/ ApplyRaises \/ ResumeRaises
    \/ \E s \in {"buy", "sell"} : StrategySubmits(s)
    \/ \E t \in Traders : VenueAccepts(t) \/ \E n \in 0 .. MaxHeld : VenueEnds(t, n)
    \/ Poll \/ FlattenOverdue \/ RiskHalt \/ RiskHaltRaises
    \/ NodeStarts \/ Signal \/ LoopEnds \/ LoopFails \/ Shutdown

Spec == Init /\ [][Next]_vars

\* Both threads run, the loop polls and looks at stop again and again, and time passes.
Fairness ==
    /\ WF_vars(ControlStep) /\ WF_vars(NodeStarts) /\ WF_vars(Process) /\ WF_vars(Apply)
    /\ WF_vars(Poll) /\ WF_vars(FlattenOverdue) /\ WF_vars(stop /\ LoopEnds) /\ WF_vars(Shutdown)

FairSpec == Spec /\ Fairness

-----------------------------------------------------------------------------
TypeOK ==
    /\ journal \in [Ops -> {"absent", "processing", "completed", "unknown", "failed"}]
    /\ cmd \in [Ops -> Commands \cup {"none"}]
    /\ task \in [Ops -> Holding \cup {"none", "lock", "done"}] /\ server \in {"up", "closing", "stopped"}
    /\ queue \in Seq(Ops) /\ closed \in BOOLEAN /\ stop \in BOOLEAN
    /\ state \in {"STARTING", "ACTIVE", "REDUCING", "HALTED", "STOPPING", "STOPPED", "ERROR"}
    /\ engine \in {"starting", "loop", "apply", "closing", "draining", "finished", "exited"}
    /\ applying \in Ops \cup {"none"} /\ trading \in {"ACTIVE", "REDUCING", "HALTED"} /\ paused \in BOOLEAN
    /\ flatten \in [phase : {"none", "cancelling", "reducing", "completed", "incomplete"},
                    attempts : 0 .. MaxAttempts, overdue : BOOLEAN]
    /\ denied \in BOOLEAN /\ error \in BOOLEAN
    /\ order \in [Traders -> [status : {"none", "new", "open", "cancelling"},
                              side : {"none", "buy", "sell"}, lots : 0 .. MaxHeld]]
    /\ held \in Int /\ ledger \in Int /\ own \in Int /\ mode \in Modes
    /\ applied \subseteq Ops /\ partial \subseteq Ops /\ late \subseteq Ops

\* A receipt says what happened to the command, whichever thread was where when the worker
\* stopped and wherever a handler raised: completed commands were applied whole; failed and
\* unknown ones were not; and a command that changed something before it raised is unknown, never
\* "a definitive rejection" (control.py: dispatch; process, close).
ReceiptsMatch ==
    \A o \in Ops : /\ journal[o] = "completed" => o \in applied
                   /\ journal[o] \in {"failed", "unknown"} => o \notin applied
                   /\ o \in partial => journal[o] \in {"processing", "unknown"}

\* Once inventory was sold by a flatten the run does not trade freely again, whatever is
\* commanded after it (apply's refusal of resume, poll's ends).
NoFreeTradingAfterFlatten == flatten # NoFlatten => trading # "ACTIVE" /\ state # "ACTIVE"

\* A flatten of a run without a feed sells no more than the run's own inventory, although
\* orders of the strategy may still fill while it waits (poll: "no repeated sell against an
\* older snapshot").
FlattenWithinAllocation == mode = "native" => held >= 0

\* "Cash reductions use this run's allocation ledger, not the complete exchange wallet":
\* the run never sells more than it holds (live_controls.py).
NeverOversold == held >= 0

\* A flatten ends, even if the venue never answers (poll's deadline).
FlattenEnds == InProgress ~> (~InProgress \/ engine \notin {"loop", "apply"})

\* A worker that is told to stop ends, unless a command came into the queue after close()
\* emptied it: its dispatch then waits for ever, and quiesce for it.
WorkerEnds == stop ~> (engine = "exited" /\ (server = "stopped" \/ late # {}))
=============================================================================
