------------------------- MODULE WorkerControlProofs -------------------------
(***************************************************************************)
(* Proofs about the threads of a live worker: what WorkerControl promises  *)
(* for any number of operations, any queue, attempts and inventory, and    *)
(* however the threads, the strategy and the venue interleave.             *)
(***************************************************************************)
EXTENDS WorkerControl, TLAPS

\* One command is under way at a time, whichever thread has it: dispatch holds its lock until
\* the engine thread has answered.
Dispatched ==
    /\ \A o, q \in Ops : task[o] \in Holding /\ task[q] \in Holding => o = q
    /\ queue = <<>> \/ (engine # "apply" /\ \E o \in Ops : queue = <<o>> /\ task[o] = "future")
    /\ engine = "apply" => applying \in Ops /\ task[applying] = "future"
    /\ \A o \in Ops : /\ task[o] \in {"put", "future"} => cmd[o] \in Commands \ {"stop"}
                      /\ task[o] = "lock" => cmd[o] \in Commands

\* What was applied is what has a result, in the future or in the journal; what raised after a
\* change has an exception, or is unknown.
Recorded ==
    \A o \in Ops : /\ task[o] # "done" => journal[o] \in {"absent", "processing"}
                   /\ task[o] \in Holding => journal[o] = "processing"
                   /\ o \in partial => task[o] = "error" \/ (task[o] = "done" /\ journal[o] = "unknown")
                   /\ o \in applied <=> task[o] = "result" \/ journal[o] = "completed"

\* After a flatten nothing resumes trading. The operator's orders are those of a flatten, and
\* a native run's strategies are paused then.
Flattened ==
    /\ engine = "starting" => flatten = NoFlatten
    /\ engine = "apply" /\ cmd[applying] = "resume" => flatten = NoFlatten
    /\ NoFreeTradingAfterFlatten
    /\ order["operator"].status # "none" => flatten # NoFlatten
    /\ flatten # NoFlatten /\ mode = "native" => paused

\* So a native run has one order at a time, and it sells no more than is held.
Covered ==
    mode = "native" =>
        /\ held >= 0
        /\ \A t \in Traders : order[t].status # "none" =>
             order[t].side # "none" /\ (order[t].side = "sell" => order[t].lots <= held)
        /\ \E t \in Traders : order[t].status = "none"

WorkerInv == TypeOK /\ Dispatched /\ Recorded /\ Flattened /\ Covered

-----------------------------------------------------------------------------
(* Types, of the control thread with what it shares, and of the engine thread. *)

Order == [status : {"none", "new", "open", "cancelling"}, side : {"none", "buy", "sell"}, lots : 0 .. MaxHeld]
Flatten == [phase : {"none", "cancelling", "reducing", "completed", "incomplete"},
            attempts : 0 .. MaxAttempts, overdue : BOOLEAN]

ControlTypes ==
    /\ journal \in [Ops -> {"absent", "processing", "completed", "unknown", "failed"}]
    /\ cmd \in [Ops -> Commands \cup {"none"}]
    /\ task \in [Ops -> Holding \cup {"none", "lock", "done"}] /\ server \in {"up", "closing", "stopped"}
    /\ queue \in Seq(Ops) /\ closed \in BOOLEAN /\ stop \in BOOLEAN
    /\ engine \in {"starting", "loop", "apply", "closing", "draining", "finished", "exited"}
    /\ applying \in Ops \cup {"none"} /\ applied \subseteq Ops /\ partial \subseteq Ops /\ late \subseteq Ops

NodeTypes ==
    /\ state \in {"STARTING", "ACTIVE", "REDUCING", "HALTED", "STOPPING", "STOPPED", "ERROR"}
    /\ trading \in {"ACTIVE", "REDUCING", "HALTED"} /\ paused \in BOOLEAN
    /\ flatten \in Flatten /\ denied \in BOOLEAN /\ error \in BOOLEAN
    /\ order \in [Traders -> Order] /\ held \in Int /\ ledger \in Int /\ own \in Int /\ mode \in Modes

LEMMA TypeParts == TypeOK <=> ControlTypes /\ NodeTypes
BY DEF TypeOK, ControlTypes, NodeTypes, Order, Flatten

\* Cancelling keeps what an order is for.
LEMMA CancelledOrders ==
    ASSUME TypeOK
    PROVE  /\ Cancelled \in [Traders -> Order]
           /\ \A t \in Traders : /\ Cancelled[t].side = order[t].side /\ Cancelled[t].lots = order[t].lots
                                 /\ Cancelled[t].status = "none" <=> order[t].status = "none"
<1>1. \A t \in Traders : /\ order[t] \in Order /\ [order[t] EXCEPT !.status = "cancelling"] \in Order
                        /\ [order[t] EXCEPT !.status = "cancelling"].status = "cancelling"
                        /\ [order[t] EXCEPT !.status = "cancelling"].side = order[t].side
                        /\ [order[t] EXCEPT !.status = "cancelling"].lots = order[t].lots
  BY DEF TypeOK, Order
<1> QED BY <1>1 DEF Cancelled

\* A submitted order is the trader's only one.
LEMMA SubmittedOrders ==
    ASSUME TypeOK, NEW t \in Traders, NEW s \in {"buy", "sell"}, NEW n \in 0 .. MaxHeld
    PROVE  /\ Submitted(t, s, n) \in [Traders -> Order]
           /\ Submitted(t, s, n)[t].status = "new" /\ Submitted(t, s, n)[t].side = s /\ Submitted(t, s, n)[t].lots = n
           /\ \A u \in Traders : u # t => Submitted(t, s, n)[u] = order[u]
BY DEF TypeOK, Submitted, Order

\* An order that has ended, or is none.
LEMMA NoOrders == NoOrder \in Order /\ NoOrder.status = "none" /\ NoOrder.side = "none" /\ NoOrder.lots = 0
BY WorkerAssumption DEF NoOrder, Order

\* A flatten is told from none by its phase.
LEMMA Flattens ==
    /\ NoFlatten \in Flatten
    /\ [NoFlatten EXCEPT !.phase = "cancelling"] \in Flatten
    /\ \A f \in Flatten : f.phase # "none" => f # NoFlatten
    /\ [NoFlatten EXCEPT !.phase = "cancelling"] # NoFlatten
<1>1. NoFlatten \in Flatten /\ NoFlatten.phase = "none"
  BY WorkerAssumption DEF NoFlatten, Flatten
<1>2. /\ [NoFlatten EXCEPT !.phase = "cancelling"] \in Flatten
      /\ [NoFlatten EXCEPT !.phase = "cancelling"].phase = "cancelling"
  BY <1>1 DEF Flatten
<1> QED BY <1>1, <1>2

\* What poll writes to a flatten.
LEMMA FlattenWrites ==
    ASSUME NEW f \in Flatten
    PROVE  /\ \A p \in {"reducing", "completed", "incomplete"} :
                /\ [f EXCEPT !.phase = p] \in Flatten /\ [f EXCEPT !.phase = p] # NoFlatten
           /\ f.attempts < MaxAttempts =>
                /\ [f EXCEPT !.phase = "reducing", !.attempts = @ + 1] \in Flatten
                /\ [f EXCEPT !.phase = "reducing", !.attempts = @ + 1] # NoFlatten
           /\ [f EXCEPT !.overdue = TRUE] \in Flatten
           /\ f.phase # "none" => [f EXCEPT !.overdue = TRUE] # NoFlatten
<1>1. \A p \in {"reducing", "completed", "incomplete"} :
           [f EXCEPT !.phase = p] \in Flatten /\ [f EXCEPT !.phase = p].phase = p
  BY DEF Flatten
<1>2. /\ [f EXCEPT !.overdue = TRUE] \in Flatten
      /\ [f EXCEPT !.overdue = TRUE].phase = f.phase
  BY DEF Flatten
<1>3. ASSUME f.attempts < MaxAttempts
      PROVE  /\ [f EXCEPT !.phase = "reducing", !.attempts = @ + 1] \in Flatten
             /\ [f EXCEPT !.phase = "reducing", !.attempts = @ + 1].phase = "reducing"
  <2> DEFINE n == f.attempts + 1
  <2>1. n \in 0 .. MaxAttempts
    BY <1>3, WorkerAssumption DEF Flatten
  <2> HIDE DEF n
  <2>2. /\ [f EXCEPT !.phase = "reducing", !.attempts = n] \in Flatten
        /\ [f EXCEPT !.phase = "reducing", !.attempts = n].phase = "reducing"
    BY <2>1 DEF Flatten
  <2> QED BY <2>2 DEF n
<1>4. \A g \in Flatten : g.phase # "none" => g # NoFlatten
  BY Flattens
<1> QED BY <1>1, <1>2, <1>3, <1>4

\* A queue of one.
LEMMA OneQueued ==
    ASSUME NEW o \in Ops
    PROVE  /\ Append(<<>>, o) = <<o>> /\ Len(<<o>>) = 1 /\ Head(<<o>>) = o /\ Tail(<<o>>) = <<>>
           /\ <<o>> # <<>> /\ <<o>> \in Seq(Ops) /\ <<>> \in Seq(Ops) /\ Len(<<>>) = 0
OBVIOUS

-----------------------------------------------------------------------------
(* What the engine thread does.                                            *)

\* What the engine thread applies is one of the four commands of request.
LEMMA ApplyCases ==
    ASSUME TypeOK, Dispatched, Apply
    PROVE  /\ applying \in Ops /\ task[applying] = "future" /\ applying' = "none" /\ engine = "apply" /\ engine' = "loop"
           /\ task' = [task EXCEPT ![applying] = "result"] /\ applied' = applied \cup {applying}
           /\ UNCHANGED <<journal, cmd, server, queue, closed, stop, denied, error, held, ledger, mode, partial, late>>
           /\ \/ cmd[applying] = "halt" /\ ApplyHalt
              \/ cmd[applying] = "reduce" /\ ApplyReduce
              \/ cmd[applying] = "resume" /\ ApplyResume
              \/ cmd[applying] = "flatten" /\ ApplyFlatten
<1>1. engine = "apply" /\ applying \in Ops /\ task[applying] = "future"
  BY DEF Apply, Dispatched
<1>2. cmd[applying] \in {"halt", "reduce", "resume", "flatten"}
  BY <1>1, WorkerAssumption DEF Dispatched
<1>3. /\ cmd[applying] = "halt" => ApplyHalt
      /\ cmd[applying] = "reduce" => ApplyReduce
      /\ cmd[applying] = "resume" => ApplyResume
      /\ cmd[applying] = "flatten" => ApplyFlatten
  BY DEF Apply
<1> QED BY <1>1, <1>2, <1>3 DEF Apply

\* A pause that raises cancels some orders or none, and resumes nothing.
LEMMA PausesPartly ==
    ASSUME TypeOK, PauseRaises
    PROVE  /\ paused' \in BOOLEAN /\ (paused => paused') /\ order' \in [Traders -> Order]
           /\ \A t \in Traders : /\ order'[t].side = order[t].side /\ order'[t].lots = order[t].lots
                                 /\ order'[t].status = "none" <=> order[t].status = "none"
<1>1. CASE UNCHANGED <<paused, order>>
  BY <1>1, TypeParts DEF NodeTypes
<1>2. ASSUME NEW T \in SUBSET Traders, paused' = TRUE, order' = [t \in Traders |-> IF t \in T THEN Cancelled[t] ELSE order[t]]
      PROVE  /\ paused' \in BOOLEAN /\ (paused => paused') /\ order' \in [Traders -> Order]
             /\ \A t \in Traders : /\ order'[t].side = order[t].side /\ order'[t].lots = order[t].lots
                                   /\ order'[t].status = "none" <=> order[t].status = "none"
  BY <1>2, CancelledOrders, TypeParts DEF NodeTypes
<1> QED BY <1>1, <1>2 DEF PauseRaises

\* A command that raises leaves the flatten and the inventory alone, gives trading back only if it
\* was to resume, and resumes strategies only then, or those of a feed.
LEMMA RaiseCases ==
    ASSUME TypeOK, Dispatched, ApplyRaises \/ ResumeRaises
    PROVE  /\ applying \in Ops /\ task[applying] = "future" /\ engine = "apply" /\ engine' = "loop" /\ applying' = "none"
           /\ task' = [task EXCEPT ![applying] = "error"] /\ partial' \in {partial, partial \cup {applying}}
           /\ UNCHANGED <<journal, cmd, server, queue, closed, stop, flatten, denied, error, held, ledger, mode,
                          applied, late>>
           /\ order' \in [Traders -> Order] /\ paused' \in BOOLEAN /\ own' \in {own, ledger}
           /\ \A t \in Traders : /\ order'[t].side = order[t].side /\ order'[t].lots = order[t].lots
                                 /\ order'[t].status = "none" <=> order[t].status = "none"
           /\ state' \in {state, "HALTED", "REDUCING"} /\ trading' \in {trading, "HALTED", "REDUCING", "ACTIVE"}
           /\ cmd[applying] # "resume" =>
                /\ trading' \in {trading, "HALTED", "REDUCING"}
                /\ mode = "native" /\ paused => paused'
<1>1. engine = "apply" /\ applying \in Ops /\ task[applying] = "future"
  BY DEF ApplyRaises, ResumeRaises, Dispatched
<1>2. ASSUME NEW c \in BOOLEAN, Raised(c)
      PROVE  /\ engine' = "loop" /\ applying' = "none"
             /\ task' = [task EXCEPT ![applying] = "error"] /\ partial' \in {partial, partial \cup {applying}}
             /\ UNCHANGED <<journal, cmd, server, queue, closed, stop, flatten, denied, error, held, ledger, mode,
                            applied, late>>
  BY <1>2 DEF Raised
<1>3. Raised(TRUE) \/ Raised(FALSE)
  BY DEF ApplyRaises, ResumeRaises
<1>4. paused \in BOOLEAN /\ order \in [Traders -> Order]
  BY TypeParts DEF NodeTypes
<1>5. CASE ApplyRaises
  <2>1. CASE UNCHANGED <<trading, state, paused, order, own>>
    BY <1>1, <1>2, <1>3, <1>4, <2>1
  <2>2. CASE SetTrading(IF cmd[applying] = "halt" THEN "HALTED" ELSE "REDUCING") /\ PauseRaises /\ UNCHANGED own
    <3>1. state' \in {"HALTED", "REDUCING"} /\ trading' \in {"HALTED", "REDUCING"} /\ own' = own
      BY <2>2 DEF SetTrading
    <3> QED BY <1>1, <1>2, <1>3, <2>2, <3>1, PausesPartly
  <2>3. CASE mode # "native" /\ SetTrading("REDUCING") /\ order' = Cancelled /\ StartRaises(TRUE)
    <3>1. state' = "REDUCING" /\ trading' = "REDUCING" /\ own' \in {own, ledger} /\ paused' \in BOOLEAN
      BY <2>3 DEF SetTrading, StartRaises, Reconciled
    <3> QED BY <1>1, <1>2, <1>3, <2>3, <3>1, CancelledOrders
  <2> QED BY <1>5, <2>1, <2>2, <2>3 DEF ApplyRaises
<1>6. CASE ResumeRaises
  <2>1. cmd[applying] = "resume" /\ order' = order
    BY <1>6 DEF ResumeRaises
  <2>2. /\ state' \in {state, "HALTED"} /\ trading' \in {trading, "HALTED", "ACTIVE"}
        /\ paused' \in BOOLEAN /\ own' \in {own, ledger}
    BY <1>6, <1>4 DEF ResumeRaises, StartRaises, Reconciled
  <2> QED BY <1>1, <1>2, <1>3, <1>4, <2>1, <2>2
<1> QED BY <1>5, <1>6

\* What process and the end of the engine thread take out of the queue.
LEMMA QueueTaken ==
    ASSUME TypeOK, Dispatched, queue # <<>>
    PROVE  /\ engine # "apply" /\ Head(queue) \in Ops /\ task[Head(queue)] = "future" /\ Tail(queue) = <<>>
           /\ cmd[Head(queue)] \in Commands \ {"stop"}
<1>1. PICK o \in Ops : engine # "apply" /\ queue = <<o>> /\ task[o] = "future"
  BY DEF Dispatched
<1>2. cmd[o] \in Commands \ {"stop"}
  BY <1>1 DEF Dispatched
<1> QED BY <1>1, <1>2, OneQueued

\* What a poll leaves alone, and that waiting cancels orders or keeps them.
LEMMA Polls ==
    ASSUME TypeOK, Polling
    PROVE  /\ engine = "loop" /\ ledger' \in Int
           /\ UNCHANGED <<cmd, engine, applying, paused, error, held, own, mode>>
           /\ Retried \in [Traders -> Order]
           /\ \A t \in Traders : /\ Retried[t].side = order[t].side /\ Retried[t].lots = order[t].lots
                                 /\ Retried[t].status = "none" <=> order[t].status = "none"
           /\ OpenOrders = {} => \A t \in Traders : order[t].status = "none"
<1>1. engine = "loop" /\ ledger' \in Int /\ UNCHANGED <<cmd, engine, applying, paused, error, held, own, mode>>
  BY DEF Polling, Allocated, TypeOK, controlVars
<1>2. /\ Retried \in [Traders -> Order]
      /\ \A t \in Traders : /\ Retried[t].side = order[t].side /\ Retried[t].lots = order[t].lots
                            /\ Retried[t].status = "none" <=> order[t].status = "none"
  BY CancelledOrders DEF Retried, TypeOK, Order
<1>3. OpenOrders = {} => \A t \in Traders : order[t].status = "none"
  BY DEF OpenOrders
<1> QED BY <1>1, <1>2, <1>3

-----------------------------------------------------------------------------
(* Types.                                                                  *)

\* The types of what the control thread and the queue hold.
LEMMA ControlTypesKept == TypeOK /\ Dispatched /\ [Next]_vars => ControlTypes'
<1> SUFFICES ASSUME TypeOK, Dispatched, [Next]_vars PROVE ControlTypes'
  OBVIOUS
<1>1. CASE UNCHANGED vars
  BY <1>1, TypeParts DEF vars, controlVars, nodeVars, marketVars, historyVars, ControlTypes, Holding
<1>2. ASSUME NEW o \in Ops, NEW c \in Commands, Arrive(o, c) PROVE ControlTypes'
  BY <1>2, TypeParts DEF Arrive, controlVars, nodeVars, marketVars, historyVars, ControlTypes, Holding
<1>3. ASSUME NEW o \in Ops, Dispatch(o) PROVE ControlTypes'
  BY <1>3, TypeParts DEF Dispatch, Answer, controlVars, nodeVars, marketVars, historyVars, ControlTypes, Holding
<1>4. ASSUME NEW o \in Ops, StopShown(o) PROVE ControlTypes'
  BY <1>4, TypeParts DEF StopShown, Answer, controlVars, nodeVars, marketVars, historyVars, ControlTypes, Holding
<1>5. ASSUME NEW o \in Ops, Put(o) PROVE ControlTypes'
  <2>1. task' \in [Ops -> Holding \cup {"none", "lock", "done"}] /\ late' \subseteq Ops
    BY <1>5, TypeParts DEF Put, Answer, ControlTypes, Holding
  <2>2. queue' \in Seq(Ops)
    BY <1>5, TypeParts DEF Put, ControlTypes
  <2>3. journal' \in [Ops -> {"absent", "processing", "completed", "unknown", "failed"}]
    BY <1>5, TypeParts DEF Put, Answer, ControlTypes
  <2> QED BY <1>5, <2>1, <2>2, <2>3, TypeParts DEF Put, ControlTypes
<1>6. ASSUME NEW o \in Ops, Resolve(o) PROVE ControlTypes'
  BY <1>6, TypeParts DEF Resolve, Answer, controlVars, nodeVars, marketVars, historyVars, ControlTypes, Holding
<1>7. CASE Quiesce
  BY <1>7, TypeParts DEF Quiesce, controlVars, nodeVars, marketVars, historyVars, ControlTypes, Holding
<1>8. CASE ServerStops
  BY <1>8, TypeParts DEF ServerStops, controlVars, nodeVars, marketVars, historyVars, ControlTypes, Holding
<1>9. CASE Process
  BY <1>9, QueueTaken, TypeParts DEF Process, controlVars, nodeVars, marketVars, historyVars, ControlTypes, Holding
<1>10. CASE Apply
  BY <1>10, ApplyCases, TypeParts DEF Apply, controlVars, nodeVars, marketVars, historyVars, ControlTypes, Holding
<1>11. CASE ApplyRaises \/ ResumeRaises
  BY <1>11, RaiseCases, TypeParts DEF ControlTypes, Holding
<1>12. ASSUME NEW s \in {"buy", "sell"}, StrategySubmits(s) PROVE ControlTypes'
  BY <1>12, TypeParts DEF StrategySubmits, controlVars, nodeVars, marketVars, historyVars, ControlTypes, Holding
<1>13. ASSUME NEW t \in Traders, VenueAccepts(t) PROVE ControlTypes'
  BY <1>13, TypeParts DEF VenueAccepts, controlVars, nodeVars, marketVars, historyVars, ControlTypes, Holding
<1>14. ASSUME NEW t \in Traders, NEW n \in 0 .. MaxHeld, VenueEnds(t, n) PROVE ControlTypes'
  BY <1>14, TypeParts DEF VenueEnds, controlVars, nodeVars, marketVars, historyVars, ControlTypes, Holding
<1>15. CASE PollWaits
  BY <1>15, TypeParts DEF PollWaits, Polling, Retried, controlVars, nodeVars, marketVars, historyVars, ControlTypes, Holding
<1>16. CASE FlattenTimesOut
  BY <1>16, TypeParts DEF FlattenTimesOut, Polling, SetTrading, controlVars, nodeVars, marketVars, historyVars, ControlTypes, Holding
<1>17. CASE FlattenCompletes
  BY <1>17, TypeParts DEF FlattenCompletes, Reducing, Polling, SetTrading, controlVars, nodeVars, marketVars, historyVars, ControlTypes, Holding
<1>18. CASE FlattenWaits
  BY <1>18, TypeParts DEF FlattenWaits, Reducing, Polling, controlVars, nodeVars, marketVars, historyVars, ControlTypes, Holding
<1>19. ASSUME NEW n \in 1 .. MaxHeld, FlattenSubmits(n) PROVE ControlTypes'
  BY <1>19, TypeParts DEF FlattenSubmits, Reducing, Polling, controlVars, nodeVars, marketVars, historyVars, ControlTypes, Holding
<1>20. CASE FlattenOverdue
  BY <1>20, TypeParts DEF FlattenOverdue, controlVars, nodeVars, marketVars, historyVars, ControlTypes, Holding
<1>21. CASE RiskHalt
  BY <1>21, TypeParts DEF RiskHalt, SetTrading, controlVars, nodeVars, marketVars, historyVars, ControlTypes, Holding
<1>22. CASE NodeStarts
  BY <1>22, TypeParts DEF NodeStarts, controlVars, nodeVars, marketVars, historyVars, ControlTypes, Holding
<1>23. CASE Signal
  BY <1>23, TypeParts DEF Signal, controlVars, nodeVars, marketVars, historyVars, ControlTypes, Holding
<1>24. CASE LoopEnds
  BY <1>24, TypeParts DEF LoopEnds, controlVars, nodeVars, marketVars, historyVars, ControlTypes, Holding
<1>25. CASE LoopFails
  BY <1>25, TypeParts DEF LoopFails, controlVars, nodeVars, marketVars, historyVars, ControlTypes, Holding
<1>26. CASE Close
  BY <1>26, TypeParts DEF Close, controlVars, nodeVars, marketVars, historyVars, ControlTypes, Holding
<1>27. CASE Drain
  BY <1>27, QueueTaken, TypeParts DEF Drain, controlVars, nodeVars, marketVars, historyVars, ControlTypes, Holding
<1>28. CASE NodeStops
  BY <1>28, TypeParts DEF NodeStops, controlVars, nodeVars, marketVars, historyVars, ControlTypes, Holding
<1>29. CASE Exit
  BY <1>29, TypeParts DEF Exit, controlVars, nodeVars, marketVars, historyVars, ControlTypes, Holding
<1>30. CASE RiskHaltRaises
  BY <1>30, TypeParts DEF RiskHaltRaises, controlVars, historyVars, ControlTypes, Holding
<1> QED
  BY <1>1, <1>2, <1>3, <1>4, <1>5, <1>6, <1>7, <1>8, <1>9, <1>10, <1>11, <1>12, <1>13,
     <1>14, <1>15, <1>16, <1>17, <1>18, <1>19, <1>20, <1>21, <1>22, <1>23, <1>24, <1>25,
     <1>26, <1>27, <1>28, <1>29, <1>30
  DEF Next, ControlStep, Poll, Shutdown

\* The types of the node, its orders and inventory, and the flatten.
LEMMA NodeTypesKept == TypeOK /\ Dispatched /\ [Next]_vars => NodeTypes'
<1> SUFFICES ASSUME TypeOK, Dispatched, [Next]_vars PROVE NodeTypes'
  OBVIOUS
<1>1. CASE UNCHANGED vars
  BY <1>1, TypeParts, NoOrders, CancelledOrders, WorkerAssumption DEF vars, controlVars, nodeVars, marketVars, historyVars, NodeTypes
<1>2. ASSUME NEW o \in Ops, NEW c \in Commands, Arrive(o, c) PROVE NodeTypes'
  BY <1>2, TypeParts, NoOrders, CancelledOrders, WorkerAssumption DEF Arrive, controlVars, nodeVars, marketVars, historyVars, NodeTypes
<1>3. ASSUME NEW o \in Ops, Dispatch(o) PROVE NodeTypes'
  BY <1>3, TypeParts, NoOrders, CancelledOrders, WorkerAssumption DEF Dispatch, Answer, controlVars, nodeVars, marketVars, historyVars, NodeTypes
<1>4. ASSUME NEW o \in Ops, StopShown(o) PROVE NodeTypes'
  BY <1>4, TypeParts, NoOrders, CancelledOrders, WorkerAssumption DEF StopShown, Answer, controlVars, nodeVars, marketVars, historyVars, NodeTypes
<1>5. ASSUME NEW o \in Ops, Put(o) PROVE NodeTypes'
  BY <1>5, TypeParts, NoOrders, CancelledOrders, WorkerAssumption DEF Put, Answer, controlVars, nodeVars, marketVars, historyVars, NodeTypes
<1>6. ASSUME NEW o \in Ops, Resolve(o) PROVE NodeTypes'
  BY <1>6, TypeParts, NoOrders, CancelledOrders, WorkerAssumption DEF Resolve, Answer, controlVars, nodeVars, marketVars, historyVars, NodeTypes
<1>7. CASE Quiesce
  BY <1>7, TypeParts, NoOrders, CancelledOrders, WorkerAssumption DEF Quiesce, controlVars, nodeVars, marketVars, historyVars, NodeTypes
<1>8. CASE ServerStops
  BY <1>8, TypeParts, NoOrders, CancelledOrders, WorkerAssumption DEF ServerStops, controlVars, nodeVars, marketVars, historyVars, NodeTypes
<1>9. CASE Process
  BY <1>9, TypeParts, NoOrders, CancelledOrders, WorkerAssumption DEF Process, controlVars, nodeVars, marketVars, historyVars, NodeTypes
<1>10. CASE Apply
  <2>1. /\ state' \in {"HALTED", "REDUCING", "ACTIVE"} /\ trading' \in {"HALTED", "REDUCING", "ACTIVE"}
        /\ paused' \in BOOLEAN /\ order' \in {order, Cancelled} /\ own' \in {own, ledger}
        /\ flatten' \in {flatten, [NoFlatten EXCEPT !.phase = "cancelling"]}
    BY <1>10, ApplyCases DEF ApplyHalt, ApplyReduce, ApplyResume, ApplyFlatten, SetTrading, Pause, Reconciled
  <2>2. UNCHANGED <<denied, error, held, ledger, mode>>
    BY <1>10, ApplyCases
  <2> QED BY <2>1, <2>2, TypeParts, CancelledOrders, Flattens DEF NodeTypes
<1>11. CASE ApplyRaises \/ ResumeRaises
  BY <1>11, RaiseCases, TypeParts DEF NodeTypes
<1>12. ASSUME NEW s \in {"buy", "sell"}, StrategySubmits(s) PROVE NodeTypes'
  <2>1. order' \in [Traders -> Order]
    <3>1. 1 \in 0 .. MaxHeld /\ "strategy" \in Traders
      BY WorkerAssumption DEF Traders
    <3> QED BY <1>12, <3>1, SubmittedOrders DEF StrategySubmits
  <2> QED BY <1>12, <2>1, TypeParts DEF StrategySubmits, NodeTypes
<1>13. ASSUME NEW t \in Traders, VenueAccepts(t) PROVE NodeTypes'
  <2>1. order' \in [Traders -> Order]
    BY <1>13, TypeParts DEF VenueAccepts, NodeTypes, Order
  <2> QED BY <1>13, <2>1, TypeParts DEF VenueAccepts, NodeTypes
<1>14. ASSUME NEW t \in Traders, NEW n \in 0 .. MaxHeld, VenueEnds(t, n) PROVE NodeTypes'
  BY <1>14, TypeParts, NoOrders, CancelledOrders, WorkerAssumption DEF VenueEnds, controlVars, nodeVars, marketVars, historyVars, NodeTypes
<1>15. CASE PollWaits
  <2>1. ledger' \in Int /\ UNCHANGED <<paused, error, held, own, mode>>
    BY <1>15, Polls DEF PollWaits
  <2>2. flatten' \in Flatten /\ denied' \in BOOLEAN
    BY <1>15, TypeParts DEF PollWaits, NodeTypes
  <2>3. order' \in [Traders -> Order]
    BY <1>15, TypeParts, Polls DEF PollWaits, NodeTypes
  <2>4. state' \in {state, "HALTED"} /\ trading' \in {trading, "HALTED"}
    BY <1>15 DEF PollWaits, SetTrading
  <2> QED BY <2>1, <2>2, <2>3, <2>4, TypeParts DEF NodeTypes
<1>16. CASE FlattenTimesOut
  <2>1. ledger' \in Int /\ UNCHANGED <<paused, error, held, own, mode>>
    BY <1>16, Polls DEF FlattenTimesOut
  <2>2. flatten' \in Flatten /\ denied' \in BOOLEAN
    BY <1>16, TypeParts, FlattenWrites DEF FlattenTimesOut, NodeTypes
  <2>3. order' \in [Traders -> Order]
    BY <1>16, TypeParts, CancelledOrders DEF FlattenTimesOut, NodeTypes
  <2>4. state' \in {state, "HALTED"} /\ trading' \in {trading, "HALTED"}
    BY <1>16 DEF FlattenTimesOut, SetTrading
  <2> QED BY <2>1, <2>2, <2>3, <2>4, TypeParts DEF NodeTypes
<1>17. CASE FlattenCompletes
  <2>1. ledger' \in Int /\ UNCHANGED <<paused, error, held, own, mode>>
    BY <1>17, Polls DEF FlattenCompletes, Reducing
  <2>2. flatten' \in Flatten /\ denied' \in BOOLEAN
    BY <1>17, TypeParts, FlattenWrites DEF FlattenCompletes, NodeTypes
  <2>3. order' \in [Traders -> Order]
    BY <1>17, TypeParts DEF FlattenCompletes, NodeTypes, Reducing
  <2>4. state' \in {state, "HALTED"} /\ trading' \in {trading, "HALTED"}
    BY <1>17 DEF FlattenCompletes, SetTrading
  <2> QED BY <2>1, <2>2, <2>3, <2>4, TypeParts DEF NodeTypes
<1>18. CASE FlattenWaits
  <2>1. ledger' \in Int /\ UNCHANGED <<paused, error, held, own, mode>>
    BY <1>18, Polls DEF FlattenWaits, Reducing
  <2>2. flatten' \in Flatten /\ denied' \in BOOLEAN
    BY <1>18, TypeParts, FlattenWrites DEF FlattenWaits, NodeTypes
  <2>3. order' \in [Traders -> Order]
    BY <1>18, TypeParts DEF FlattenWaits, NodeTypes, Reducing
  <2>4. state' \in {state, "HALTED"} /\ trading' \in {trading, "HALTED"}
    BY <1>18 DEF FlattenWaits, SetTrading
  <2> QED BY <2>1, <2>2, <2>3, <2>4, TypeParts DEF NodeTypes
<1>19. ASSUME NEW n \in 1 .. MaxHeld, FlattenSubmits(n) PROVE NodeTypes'
  <2>1. ledger' \in Int /\ UNCHANGED <<paused, error, held, own, mode>>
    BY <1>19, Polls DEF FlattenSubmits, Reducing
  <2>2. flatten' \in Flatten /\ denied' \in BOOLEAN
    BY <1>19, TypeParts, FlattenWrites DEF FlattenSubmits, NodeTypes
  <2>3. order' \in [Traders -> Order]
    BY <1>19, TypeParts, SubmittedOrders, WorkerAssumption DEF FlattenSubmits, NodeTypes, Reducing, Traders
  <2>4. state' \in {state, "HALTED"} /\ trading' \in {trading, "HALTED"}
    BY <1>19 DEF FlattenSubmits, SetTrading
  <2> QED BY <2>1, <2>2, <2>3, <2>4, TypeParts DEF NodeTypes
<1>20. CASE FlattenOverdue
  BY <1>20, FlattenWrites, TypeParts, NoOrders, CancelledOrders, WorkerAssumption DEF FlattenOverdue, controlVars, nodeVars, marketVars, historyVars, NodeTypes
<1>21. CASE RiskHalt
  BY <1>21, TypeParts, NoOrders, CancelledOrders, WorkerAssumption DEF RiskHalt, SetTrading, controlVars, nodeVars, marketVars, historyVars, NodeTypes
<1>22. CASE NodeStarts
  BY <1>22, TypeParts, NoOrders, CancelledOrders, WorkerAssumption DEF NodeStarts, controlVars, nodeVars, marketVars, historyVars, NodeTypes
<1>23. CASE Signal
  BY <1>23, TypeParts, NoOrders, CancelledOrders, WorkerAssumption DEF Signal, controlVars, nodeVars, marketVars, historyVars, NodeTypes
<1>24. CASE LoopEnds
  BY <1>24, TypeParts, NoOrders, CancelledOrders, WorkerAssumption DEF LoopEnds, controlVars, nodeVars, marketVars, historyVars, NodeTypes
<1>25. CASE LoopFails
  BY <1>25, TypeParts, NoOrders, CancelledOrders, WorkerAssumption DEF LoopFails, controlVars, nodeVars, marketVars, historyVars, NodeTypes
<1>26. CASE Close
  BY <1>26, TypeParts, NoOrders, CancelledOrders, WorkerAssumption DEF Close, controlVars, nodeVars, marketVars, historyVars, NodeTypes
<1>27. CASE Drain
  BY <1>27, TypeParts, NoOrders, CancelledOrders, WorkerAssumption DEF Drain, controlVars, nodeVars, marketVars, historyVars, NodeTypes
<1>28. CASE NodeStops
  BY <1>28, TypeParts, NoOrders, CancelledOrders, WorkerAssumption DEF NodeStops, controlVars, nodeVars, marketVars, historyVars, NodeTypes
<1>29. CASE Exit
  BY <1>29, TypeParts, NoOrders, CancelledOrders, WorkerAssumption DEF Exit, controlVars, nodeVars, marketVars, historyVars, NodeTypes
<1>30. CASE RiskHaltRaises
  BY <1>30, PausesPartly, TypeParts DEF RiskHaltRaises, NodeTypes
<1> QED
  BY <1>1, <1>2, <1>3, <1>4, <1>5, <1>6, <1>7, <1>8, <1>9, <1>10, <1>11, <1>12, <1>13,
     <1>14, <1>15, <1>16, <1>17, <1>18, <1>19, <1>20, <1>21, <1>22, <1>23, <1>24, <1>25,
     <1>26, <1>27, <1>28, <1>29, <1>30
  DEF Next, ControlStep, Poll, Shutdown

-----------------------------------------------------------------------------
(* One command at a time, and its receipt.                                 *)

\* Only a task that has the lock puts its command, and the engine thread answers the one
\* it took: so the queue is empty whenever a command comes into it.
LEMMA DispatchedKept == TypeOK /\ Dispatched /\ [Next]_vars => Dispatched'
<1> SUFFICES ASSUME TypeOK, Dispatched, [Next]_vars PROVE Dispatched'
  OBVIOUS
<1>1. CASE UNCHANGED vars
  BY <1>1, OneQueued DEF vars, controlVars, nodeVars, marketVars, historyVars, Dispatched, Holding, LockFree, TypeOK
<1>2. ASSUME NEW o \in Ops, NEW c \in Commands, Arrive(o, c) PROVE Dispatched'
  BY <1>2, OneQueued DEF Arrive, controlVars, nodeVars, marketVars, historyVars, Dispatched, Holding, LockFree, TypeOK
<1>3. ASSUME NEW o \in Ops, Dispatch(o) PROVE Dispatched'
  BY <1>3, OneQueued DEF Dispatch, Answer, controlVars, nodeVars, marketVars, historyVars, Dispatched, Holding, LockFree, TypeOK
<1>4. ASSUME NEW o \in Ops, StopShown(o) PROVE Dispatched'
  BY <1>4, OneQueued DEF StopShown, Answer, controlVars, nodeVars, marketVars, historyVars, Dispatched, Holding, LockFree, TypeOK
<1>5. ASSUME NEW o \in Ops, Put(o) PROVE Dispatched'
  <2>1. \A q \in Ops : q # o => task[q] \notin Holding
    BY <1>5 DEF Put, Dispatched, Holding
  <2>2. queue = <<>> /\ engine # "apply"
    BY <1>5, <2>1 DEF Put, Dispatched, Holding
  <2>3. /\ \A q \in Ops : q # o => task'[q] = task[q]
        /\ UNCHANGED <<cmd, engine, applying>>
    BY <1>5, TypeParts DEF Put, Answer, ControlTypes
  <2>4. (queue' = <<o>> /\ task'[o] = "future") \/ (queue' = <<>> /\ task'[o] = "done")
    BY <1>5, <2>2, OneQueued, TypeParts DEF Put, Answer, ControlTypes
  <2>5. cmd[o] \in Commands \ {"stop"}
    BY <1>5 DEF Put, Dispatched
  <2>6. queue' = <<>> \/ (engine' # "apply" /\ \E q \in Ops : queue' = <<q>> /\ task'[q] = "future")
    BY <2>2, <2>3, <2>4
  <2>7. \A p, q \in Ops : task'[p] \in Holding /\ task'[q] \in Holding => p = q
    BY <2>1, <2>3
  <2> QED BY <2>1, <2>2, <2>3, <2>4, <2>5, <2>6, <2>7 DEF Dispatched, Holding
<1>6. ASSUME NEW o \in Ops, Resolve(o) PROVE Dispatched'
  BY <1>6, OneQueued DEF Resolve, Answer, controlVars, nodeVars, marketVars, historyVars, Dispatched, Holding, LockFree, TypeOK
<1>7. CASE Quiesce
  BY <1>7, OneQueued DEF Quiesce, controlVars, nodeVars, marketVars, historyVars, Dispatched, Holding, LockFree, TypeOK
<1>8. CASE ServerStops
  BY <1>8, OneQueued DEF ServerStops, controlVars, nodeVars, marketVars, historyVars, Dispatched, Holding, LockFree, TypeOK
<1>9. CASE Process
  BY <1>9, OneQueued DEF Process, controlVars, nodeVars, marketVars, historyVars, Dispatched, Holding, LockFree, TypeOK
<1>10. CASE Apply
  BY <1>10, OneQueued DEF Apply, controlVars, nodeVars, marketVars, historyVars, Dispatched, Holding, LockFree, TypeOK
<1>11. CASE ApplyRaises \/ ResumeRaises
  BY <1>11, RaiseCases DEF Dispatched, Holding, TypeOK
<1>12. ASSUME NEW s \in {"buy", "sell"}, StrategySubmits(s) PROVE Dispatched'
  BY <1>12, OneQueued DEF StrategySubmits, controlVars, nodeVars, marketVars, historyVars, Dispatched, Holding, LockFree, TypeOK
<1>13. ASSUME NEW t \in Traders, VenueAccepts(t) PROVE Dispatched'
  BY <1>13, OneQueued DEF VenueAccepts, controlVars, nodeVars, marketVars, historyVars, Dispatched, Holding, LockFree, TypeOK
<1>14. ASSUME NEW t \in Traders, NEW n \in 0 .. MaxHeld, VenueEnds(t, n) PROVE Dispatched'
  BY <1>14, OneQueued DEF VenueEnds, controlVars, nodeVars, marketVars, historyVars, Dispatched, Holding, LockFree, TypeOK
<1>15. CASE PollWaits
  BY <1>15, OneQueued DEF PollWaits, Polling, Retried, controlVars, nodeVars, marketVars, historyVars, Dispatched, Holding, LockFree, TypeOK
<1>16. CASE FlattenTimesOut
  BY <1>16, OneQueued DEF FlattenTimesOut, Polling, SetTrading, controlVars, nodeVars, marketVars, historyVars, Dispatched, Holding, LockFree, TypeOK
<1>17. CASE FlattenCompletes
  BY <1>17, OneQueued DEF FlattenCompletes, Reducing, Polling, SetTrading, controlVars, nodeVars, marketVars, historyVars, Dispatched, Holding, LockFree, TypeOK
<1>18. CASE FlattenWaits
  BY <1>18, OneQueued DEF FlattenWaits, Reducing, Polling, controlVars, nodeVars, marketVars, historyVars, Dispatched, Holding, LockFree, TypeOK
<1>19. ASSUME NEW n \in 1 .. MaxHeld, FlattenSubmits(n) PROVE Dispatched'
  BY <1>19, OneQueued DEF FlattenSubmits, Reducing, Polling, controlVars, nodeVars, marketVars, historyVars, Dispatched, Holding, LockFree, TypeOK
<1>20. CASE FlattenOverdue
  BY <1>20, OneQueued DEF FlattenOverdue, controlVars, nodeVars, marketVars, historyVars, Dispatched, Holding, LockFree, TypeOK
<1>21. CASE RiskHalt
  BY <1>21, OneQueued DEF RiskHalt, SetTrading, controlVars, nodeVars, marketVars, historyVars, Dispatched, Holding, LockFree, TypeOK
<1>22. CASE NodeStarts
  BY <1>22, OneQueued DEF NodeStarts, controlVars, nodeVars, marketVars, historyVars, Dispatched, Holding, LockFree, TypeOK
<1>23. CASE Signal
  BY <1>23, OneQueued DEF Signal, controlVars, nodeVars, marketVars, historyVars, Dispatched, Holding, LockFree, TypeOK
<1>24. CASE LoopEnds
  BY <1>24, OneQueued DEF LoopEnds, controlVars, nodeVars, marketVars, historyVars, Dispatched, Holding, LockFree, TypeOK
<1>25. CASE LoopFails
  BY <1>25, OneQueued DEF LoopFails, controlVars, nodeVars, marketVars, historyVars, Dispatched, Holding, LockFree, TypeOK
<1>26. CASE Close
  BY <1>26, OneQueued DEF Close, controlVars, nodeVars, marketVars, historyVars, Dispatched, Holding, LockFree, TypeOK
<1>27. CASE Drain
  BY <1>27, OneQueued DEF Drain, controlVars, nodeVars, marketVars, historyVars, Dispatched, Holding, LockFree, TypeOK
<1>28. CASE NodeStops
  BY <1>28, OneQueued DEF NodeStops, controlVars, nodeVars, marketVars, historyVars, Dispatched, Holding, LockFree, TypeOK
<1>29. CASE Exit
  BY <1>29, OneQueued DEF Exit, controlVars, nodeVars, marketVars, historyVars, Dispatched, Holding, LockFree, TypeOK
<1>30. CASE RiskHaltRaises
  BY <1>30, OneQueued DEF RiskHaltRaises, controlVars, historyVars, Dispatched, Holding, LockFree, TypeOK
<1> QED
  BY <1>1, <1>2, <1>3, <1>4, <1>5, <1>6, <1>7, <1>8, <1>9, <1>10, <1>11, <1>12, <1>13,
     <1>14, <1>15, <1>16, <1>17, <1>18, <1>19, <1>20, <1>21, <1>22, <1>23, <1>24, <1>25,
     <1>26, <1>27, <1>28, <1>29, <1>30
  DEF Next, ControlStep, Poll, Shutdown

\* A result is set where a command is applied, an error where it is not, and a receipt is
\* written from either, once.
LEMMA RecordedKept == TypeOK /\ Dispatched /\ Recorded /\ [Next]_vars => Recorded'
<1> SUFFICES ASSUME TypeOK, Dispatched, Recorded, [Next]_vars PROVE Recorded'
  OBVIOUS
<1>1. CASE UNCHANGED vars
  BY <1>1, OneQueued DEF vars, controlVars, nodeVars, marketVars, historyVars, Recorded, Dispatched, Holding, TypeOK
<1>2. ASSUME NEW o \in Ops, NEW c \in Commands, Arrive(o, c) PROVE Recorded'
  BY <1>2, OneQueued DEF Arrive, controlVars, nodeVars, marketVars, historyVars, Recorded, Dispatched, Holding, TypeOK
<1>3. ASSUME NEW o \in Ops, Dispatch(o) PROVE Recorded'
  BY <1>3, OneQueued DEF Dispatch, Answer, controlVars, nodeVars, marketVars, historyVars, Recorded, Dispatched, Holding, TypeOK
<1>4. ASSUME NEW o \in Ops, StopShown(o) PROVE Recorded'
  BY <1>4, OneQueued DEF StopShown, Answer, controlVars, nodeVars, marketVars, historyVars, Recorded, Dispatched, Holding, TypeOK
<1>5. ASSUME NEW o \in Ops, Put(o) PROVE Recorded'
  BY <1>5, OneQueued DEF Put, Answer, controlVars, nodeVars, marketVars, historyVars, Recorded, Dispatched, Holding, TypeOK
<1>6. ASSUME NEW o \in Ops, Resolve(o) PROVE Recorded'
  BY <1>6, OneQueued DEF Resolve, Answer, controlVars, nodeVars, marketVars, historyVars, Recorded, Dispatched, Holding, TypeOK
<1>7. CASE Quiesce
  BY <1>7, OneQueued DEF Quiesce, controlVars, nodeVars, marketVars, historyVars, Recorded, Dispatched, Holding, TypeOK
<1>8. CASE ServerStops
  BY <1>8, OneQueued DEF ServerStops, controlVars, nodeVars, marketVars, historyVars, Recorded, Dispatched, Holding, TypeOK
<1>9. CASE Process
  BY <1>9, OneQueued DEF Process, controlVars, nodeVars, marketVars, historyVars, Recorded, Dispatched, Holding, TypeOK
<1>10. CASE Apply
  BY <1>10, OneQueued DEF Apply, controlVars, nodeVars, marketVars, historyVars, Recorded, Dispatched, Holding, TypeOK
<1>11. CASE ApplyRaises \/ ResumeRaises
  BY <1>11, RaiseCases DEF Recorded, Holding, TypeOK
<1>12. ASSUME NEW s \in {"buy", "sell"}, StrategySubmits(s) PROVE Recorded'
  BY <1>12, OneQueued DEF StrategySubmits, controlVars, nodeVars, marketVars, historyVars, Recorded, Dispatched, Holding, TypeOK
<1>13. ASSUME NEW t \in Traders, VenueAccepts(t) PROVE Recorded'
  BY <1>13, OneQueued DEF VenueAccepts, controlVars, nodeVars, marketVars, historyVars, Recorded, Dispatched, Holding, TypeOK
<1>14. ASSUME NEW t \in Traders, NEW n \in 0 .. MaxHeld, VenueEnds(t, n) PROVE Recorded'
  BY <1>14, OneQueued DEF VenueEnds, controlVars, nodeVars, marketVars, historyVars, Recorded, Dispatched, Holding, TypeOK
<1>15. CASE PollWaits
  BY <1>15, OneQueued DEF PollWaits, Polling, Retried, controlVars, nodeVars, marketVars, historyVars, Recorded, Dispatched, Holding, TypeOK
<1>16. CASE FlattenTimesOut
  BY <1>16, OneQueued DEF FlattenTimesOut, Polling, SetTrading, controlVars, nodeVars, marketVars, historyVars, Recorded, Dispatched, Holding, TypeOK
<1>17. CASE FlattenCompletes
  BY <1>17, OneQueued DEF FlattenCompletes, Reducing, Polling, SetTrading, controlVars, nodeVars, marketVars, historyVars, Recorded, Dispatched, Holding, TypeOK
<1>18. CASE FlattenWaits
  BY <1>18, OneQueued DEF FlattenWaits, Reducing, Polling, controlVars, nodeVars, marketVars, historyVars, Recorded, Dispatched, Holding, TypeOK
<1>19. ASSUME NEW n \in 1 .. MaxHeld, FlattenSubmits(n) PROVE Recorded'
  BY <1>19, OneQueued DEF FlattenSubmits, Reducing, Polling, controlVars, nodeVars, marketVars, historyVars, Recorded, Dispatched, Holding, TypeOK
<1>20. CASE FlattenOverdue
  BY <1>20, OneQueued DEF FlattenOverdue, controlVars, nodeVars, marketVars, historyVars, Recorded, Dispatched, Holding, TypeOK
<1>21. CASE RiskHalt
  BY <1>21, OneQueued DEF RiskHalt, SetTrading, controlVars, nodeVars, marketVars, historyVars, Recorded, Dispatched, Holding, TypeOK
<1>22. CASE NodeStarts
  BY <1>22, OneQueued DEF NodeStarts, controlVars, nodeVars, marketVars, historyVars, Recorded, Dispatched, Holding, TypeOK
<1>23. CASE Signal
  BY <1>23, OneQueued DEF Signal, controlVars, nodeVars, marketVars, historyVars, Recorded, Dispatched, Holding, TypeOK
<1>24. CASE LoopEnds
  BY <1>24, OneQueued DEF LoopEnds, controlVars, nodeVars, marketVars, historyVars, Recorded, Dispatched, Holding, TypeOK
<1>25. CASE LoopFails
  BY <1>25, OneQueued DEF LoopFails, controlVars, nodeVars, marketVars, historyVars, Recorded, Dispatched, Holding, TypeOK
<1>26. CASE Close
  BY <1>26, OneQueued DEF Close, controlVars, nodeVars, marketVars, historyVars, Recorded, Dispatched, Holding, TypeOK
<1>27. CASE Drain
  BY <1>27, OneQueued DEF Drain, controlVars, nodeVars, marketVars, historyVars, Recorded, Dispatched, Holding, TypeOK
<1>28. CASE NodeStops
  BY <1>28, OneQueued DEF NodeStops, controlVars, nodeVars, marketVars, historyVars, Recorded, Dispatched, Holding, TypeOK
<1>29. CASE Exit
  BY <1>29, OneQueued DEF Exit, controlVars, nodeVars, marketVars, historyVars, Recorded, Dispatched, Holding, TypeOK
<1>30. CASE RiskHaltRaises
  BY <1>30 DEF RiskHaltRaises, controlVars, historyVars, Recorded, Holding, TypeOK
<1> QED
  BY <1>1, <1>2, <1>3, <1>4, <1>5, <1>6, <1>7, <1>8, <1>9, <1>10, <1>11, <1>12, <1>13,
     <1>14, <1>15, <1>16, <1>17, <1>18, <1>19, <1>20, <1>21, <1>22, <1>23, <1>24, <1>25,
     <1>26, <1>27, <1>28, <1>29, <1>30
  DEF Next, ControlStep, Poll, Shutdown

-----------------------------------------------------------------------------
(* What a flatten ends.                                                    *)

\* Every command but resume closes trading, and resume is refused after a flatten; poll
\* only goes from reducing to halted.
LEMMA FlattenedKept == TypeOK /\ Dispatched /\ Flattened /\ [Next]_vars => Flattened'
<1> SUFFICES ASSUME TypeOK, Dispatched, Flattened, [Next]_vars PROVE Flattened'
  OBVIOUS
<1>1. CASE UNCHANGED vars
  BY <1>1 DEF vars, controlVars, nodeVars, marketVars, historyVars, Flattened, NoFreeTradingAfterFlatten
<1>2. ASSUME NEW o \in Ops, NEW c \in Commands, Arrive(o, c) PROVE Flattened'
  <2>1. engine = "apply" => applying \in Ops /\ applying # o
    BY <1>2 DEF Arrive, Dispatched
  <2>2. engine = "apply" => cmd'[applying] = cmd[applying]
    BY <1>2, <2>1, TypeParts DEF Arrive, ControlTypes
  <2> QED BY <1>2, <2>2 DEF Arrive, nodeVars, marketVars, Flattened, NoFreeTradingAfterFlatten
<1>3. ASSUME NEW o \in Ops, Dispatch(o) PROVE Flattened'
  BY <1>3 DEF Dispatch, Answer, controlVars, nodeVars, marketVars, historyVars, Flattened, NoFreeTradingAfterFlatten
<1>4. ASSUME NEW o \in Ops, StopShown(o) PROVE Flattened'
  BY <1>4 DEF StopShown, Answer, controlVars, nodeVars, marketVars, historyVars, Flattened, NoFreeTradingAfterFlatten
<1>5. ASSUME NEW o \in Ops, Put(o) PROVE Flattened'
  BY <1>5 DEF Put, Answer, controlVars, nodeVars, marketVars, historyVars, Flattened, NoFreeTradingAfterFlatten
<1>6. ASSUME NEW o \in Ops, Resolve(o) PROVE Flattened'
  BY <1>6 DEF Resolve, Answer, controlVars, nodeVars, marketVars, historyVars, Flattened, NoFreeTradingAfterFlatten
<1>7. CASE Quiesce
  BY <1>7 DEF Quiesce, controlVars, nodeVars, marketVars, historyVars, Flattened, NoFreeTradingAfterFlatten
<1>8. CASE ServerStops
  BY <1>8 DEF ServerStops, controlVars, nodeVars, marketVars, historyVars, Flattened, NoFreeTradingAfterFlatten
<1>9. CASE Process
  <2>1. engine' = "apply" /\ cmd[applying'] = "resume" => flatten = NoFlatten
    BY <1>9 DEF Process, Refused
  <2>2. engine' # "starting" /\ UNCHANGED <<cmd, state, nodeVars>>
    BY <1>9 DEF Process
  <2> QED BY <2>1, <2>2 DEF nodeVars, marketVars, Flattened, NoFreeTradingAfterFlatten
<1>10. CASE Apply
  <2>1. engine' = "loop"
    BY <1>10, ApplyCases
  <2>2. order'["operator"].status # "none" => order["operator"].status # "none"
    BY <1>10, ApplyCases, CancelledOrders
      DEF ApplyHalt, ApplyReduce, ApplyResume, ApplyFlatten, Pause, Traders
  <2>3. CASE cmd[applying] = "resume" /\ ApplyResume
    <3>1. flatten = NoFlatten /\ flatten' = flatten
      BY <1>10, <2>3, ApplyCases DEF ApplyResume, Flattened
    <3> QED BY <2>1, <2>2, <3>1 DEF Flattened, NoFreeTradingAfterFlatten
  <2>4. CASE ApplyHalt \/ ApplyReduce \/ ApplyFlatten
    <3>1. trading' # "ACTIVE" /\ state' # "ACTIVE" /\ (mode = "native" => paused') /\ mode' = mode
      BY <1>10, <2>4, ApplyCases DEF ApplyHalt, ApplyReduce, ApplyFlatten, SetTrading, Pause
    <3>2. flatten' = flatten \/ flatten' # NoFlatten
      BY <2>4, Flattens DEF ApplyHalt, ApplyReduce, ApplyFlatten
    <3> QED BY <2>1, <2>2, <3>1, <3>2 DEF Flattened, NoFreeTradingAfterFlatten
  <2> QED BY <1>10, <2>3, <2>4, ApplyCases
<1>11. CASE ApplyRaises \/ ResumeRaises
  <2>1. engine' = "loop" /\ flatten' = flatten /\ mode' = mode
    BY <1>11, RaiseCases
  <2>2. order'["operator"].status # "none" => order["operator"].status # "none"
    BY <1>11, RaiseCases DEF Traders
  <2>3. CASE flatten = NoFlatten
    BY <2>1, <2>2, <2>3 DEF Flattened, NoFreeTradingAfterFlatten
  <2>4. CASE flatten # NoFlatten
    <3>1. cmd[applying] # "resume"
      BY <1>11, <2>4, RaiseCases DEF Flattened
    <3>2. state' # "ACTIVE" /\ trading' # "ACTIVE" /\ (mode = "native" => paused')
      BY <1>11, <2>4, <3>1, RaiseCases DEF Flattened, NoFreeTradingAfterFlatten
    <3> QED BY <2>1, <2>2, <2>4, <3>2 DEF Flattened, NoFreeTradingAfterFlatten
  <2> QED BY <2>3, <2>4
<1>12. ASSUME NEW s \in {"buy", "sell"}, StrategySubmits(s) PROVE Flattened'
  <2>1. order'["operator"] = order["operator"]
    BY <1>12, TypeParts DEF StrategySubmits, Submitted, NodeTypes, Traders
  <2> QED BY <1>12, <2>1 DEF StrategySubmits, Flattened, NoFreeTradingAfterFlatten
<1>13. ASSUME NEW t \in Traders, VenueAccepts(t) PROVE Flattened'
  BY <1>13 DEF VenueAccepts, controlVars, nodeVars, marketVars, historyVars, Flattened, NoFreeTradingAfterFlatten
<1>14. ASSUME NEW t \in Traders, NEW n \in 0 .. MaxHeld, VenueEnds(t, n) PROVE Flattened'
  BY <1>14 DEF VenueEnds, controlVars, nodeVars, marketVars, historyVars, Flattened, NoFreeTradingAfterFlatten
<1>15. CASE PollWaits
  <2>1. UNCHANGED <<cmd, engine, applying, paused, mode>> /\ engine = "loop"
    BY <1>15, Polls DEF PollWaits
  <2>2. UNCHANGED <<state, trading, flatten>>
    BY <1>15 DEF PollWaits
  <2>3. order'["operator"].status # "none" => order["operator"].status # "none"
    BY <1>15, Polls DEF PollWaits, Traders
  <2> QED BY <2>1, <2>2, <2>3 DEF Flattened, NoFreeTradingAfterFlatten
<1>16. CASE FlattenTimesOut
  <2>1. UNCHANGED <<cmd, engine, applying, paused, mode>> /\ engine = "loop"
    BY <1>16, Polls DEF FlattenTimesOut
  <2>2. flatten # NoFlatten /\ flatten' # NoFlatten
    BY <1>16, TypeParts, Flattens, FlattenWrites DEF FlattenTimesOut, InProgress, NodeTypes
  <2>3. state' \in {state, "HALTED"} /\ trading' \in {trading, "HALTED"}
    BY <1>16 DEF FlattenTimesOut, SetTrading
  <2> QED BY <2>1, <2>2, <2>3 DEF Flattened, NoFreeTradingAfterFlatten
<1>17. CASE FlattenCompletes
  <2>1. UNCHANGED <<cmd, engine, applying, paused, mode>> /\ engine = "loop"
    BY <1>17, Polls DEF FlattenCompletes, Reducing
  <2>2. flatten # NoFlatten /\ flatten' # NoFlatten
    BY <1>17, TypeParts, Flattens, FlattenWrites DEF FlattenCompletes, Reducing, InProgress, NodeTypes
  <2>3. state' \in {state, "HALTED"} /\ trading' \in {trading, "HALTED"}
    BY <1>17 DEF FlattenCompletes, SetTrading
  <2> QED BY <2>1, <2>2, <2>3 DEF Flattened, NoFreeTradingAfterFlatten
<1>18. CASE FlattenWaits
  <2>1. UNCHANGED <<cmd, engine, applying, paused, mode>> /\ engine = "loop"
    BY <1>18, Polls DEF FlattenWaits, Reducing
  <2>2. flatten # NoFlatten /\ flatten' # NoFlatten
    BY <1>18, TypeParts, Flattens, FlattenWrites DEF FlattenWaits, Reducing, InProgress, NodeTypes
  <2>3. state' \in {state, "HALTED"} /\ trading' \in {trading, "HALTED"}
    BY <1>18 DEF FlattenWaits, SetTrading
  <2> QED BY <2>1, <2>2, <2>3 DEF Flattened, NoFreeTradingAfterFlatten
<1>19. ASSUME NEW n \in 1 .. MaxHeld, FlattenSubmits(n) PROVE Flattened'
  <2>1. UNCHANGED <<cmd, engine, applying, paused, mode>> /\ engine = "loop"
    BY <1>19, Polls DEF FlattenSubmits, Reducing
  <2>2. flatten # NoFlatten /\ flatten' # NoFlatten
    BY <1>19, TypeParts, Flattens, FlattenWrites DEF FlattenSubmits, Reducing, InProgress, NodeTypes
  <2>3. state' \in {state, "HALTED"} /\ trading' \in {trading, "HALTED"}
    BY <1>19 DEF FlattenSubmits, SetTrading
  <2> QED BY <2>1, <2>2, <2>3 DEF Flattened, NoFreeTradingAfterFlatten
<1>20. CASE FlattenOverdue
  <2>1. flatten # NoFlatten /\ flatten' # NoFlatten
    BY <1>20, TypeParts, Flattens, FlattenWrites DEF FlattenOverdue, InProgress, NodeTypes
  <2> QED BY <1>20, <2>1 DEF FlattenOverdue, controlVars, marketVars, Flattened, NoFreeTradingAfterFlatten
<1>21. CASE RiskHalt
  <2>1. order'["operator"].status # "none" => order["operator"].status # "none"
    BY <1>21, CancelledOrders DEF RiskHalt, Traders
  <2> QED BY <1>21, <2>1 DEF RiskHalt, SetTrading, controlVars, Flattened, NoFreeTradingAfterFlatten
<1>22. CASE NodeStarts
  BY <1>22 DEF NodeStarts, controlVars, nodeVars, marketVars, historyVars, Flattened, NoFreeTradingAfterFlatten
<1>23. CASE Signal
  BY <1>23 DEF Signal, controlVars, nodeVars, marketVars, historyVars, Flattened, NoFreeTradingAfterFlatten
<1>24. CASE LoopEnds
  BY <1>24 DEF LoopEnds, controlVars, nodeVars, marketVars, historyVars, Flattened, NoFreeTradingAfterFlatten
<1>25. CASE LoopFails
  BY <1>25 DEF LoopFails, controlVars, nodeVars, marketVars, historyVars, Flattened, NoFreeTradingAfterFlatten
<1>26. CASE Close
  BY <1>26 DEF Close, controlVars, nodeVars, marketVars, historyVars, Flattened, NoFreeTradingAfterFlatten
<1>27. CASE Drain
  BY <1>27 DEF Drain, controlVars, nodeVars, marketVars, historyVars, Flattened, NoFreeTradingAfterFlatten
<1>28. CASE NodeStops
  <2>1. order'["operator"].status = "none"
    BY <1>28, NoOrders DEF NodeStops, Traders
  <2> QED BY <1>28, <2>1 DEF NodeStops, controlVars, Flattened, NoFreeTradingAfterFlatten
<1>29. CASE Exit
  BY <1>29 DEF Exit, controlVars, nodeVars, marketVars, historyVars, Flattened, NoFreeTradingAfterFlatten
<1>30. CASE RiskHaltRaises
  <2>1. order'["operator"].status # "none" => order["operator"].status # "none"
    BY <1>30, PausesPartly DEF RiskHaltRaises, Traders
  <2>2. UNCHANGED <<cmd, applying, flatten, mode>> /\ engine' = "closing" /\ state' = "ERROR" /\ trading' = "HALTED"
    BY <1>30 DEF RiskHaltRaises, controlVars
  <2>3. paused => paused'
    BY <1>30, PausesPartly DEF RiskHaltRaises
  <2> QED BY <2>1, <2>2, <2>3 DEF Flattened, NoFreeTradingAfterFlatten
<1> QED
  BY <1>1, <1>2, <1>3, <1>4, <1>5, <1>6, <1>7, <1>8, <1>9, <1>10, <1>11, <1>12, <1>13,
     <1>14, <1>15, <1>16, <1>17, <1>18, <1>19, <1>20, <1>21, <1>22, <1>23, <1>24, <1>25,
     <1>26, <1>27, <1>28, <1>29, <1>30
  DEF Next, ControlStep, Poll, Shutdown

\* A native strategy sells one lot of what is held and does not while it is paused; a flatten
\* waits until no order is left before it sells.
LEMMA CoveredKept == TypeOK /\ Dispatched /\ Flattened /\ Covered /\ [Next]_vars => Covered'
<1> SUFFICES ASSUME TypeOK, Dispatched, Flattened, Covered, [Next]_vars PROVE Covered'
  OBVIOUS
<1>1. CASE UNCHANGED vars
  BY <1>1, NoOrders DEF vars, controlVars, nodeVars, marketVars, historyVars, Covered
<1>2. ASSUME NEW o \in Ops, NEW c \in Commands, Arrive(o, c) PROVE Covered'
  BY <1>2, NoOrders DEF Arrive, controlVars, nodeVars, marketVars, historyVars, Covered
<1>3. ASSUME NEW o \in Ops, Dispatch(o) PROVE Covered'
  BY <1>3, NoOrders DEF Dispatch, Answer, controlVars, nodeVars, marketVars, historyVars, Covered
<1>4. ASSUME NEW o \in Ops, StopShown(o) PROVE Covered'
  BY <1>4, NoOrders DEF StopShown, Answer, controlVars, nodeVars, marketVars, historyVars, Covered
<1>5. ASSUME NEW o \in Ops, Put(o) PROVE Covered'
  BY <1>5, NoOrders DEF Put, Answer, controlVars, nodeVars, marketVars, historyVars, Covered
<1>6. ASSUME NEW o \in Ops, Resolve(o) PROVE Covered'
  BY <1>6, NoOrders DEF Resolve, Answer, controlVars, nodeVars, marketVars, historyVars, Covered
<1>7. CASE Quiesce
  BY <1>7, NoOrders DEF Quiesce, controlVars, nodeVars, marketVars, historyVars, Covered
<1>8. CASE ServerStops
  BY <1>8, NoOrders DEF ServerStops, controlVars, nodeVars, marketVars, historyVars, Covered
<1>9. CASE Process
  BY <1>9, NoOrders DEF Process, controlVars, nodeVars, marketVars, historyVars, Covered
<1>10. CASE Apply
  <2>1. \A t \in Traders : /\ order'[t].side = order[t].side /\ order'[t].lots = order[t].lots
                           /\ order'[t].status = "none" <=> order[t].status = "none"
    BY <1>10, CancelledOrders, ApplyCases DEF ApplyHalt, ApplyReduce, ApplyResume, ApplyFlatten, Pause
  <2>2. UNCHANGED <<held, mode>>
    BY <1>10, ApplyCases
  <2> QED BY <2>1, <2>2 DEF Covered
<1>11. CASE ApplyRaises \/ ResumeRaises
  BY <1>11, RaiseCases DEF Covered
<1>12. ASSUME NEW s \in {"buy", "sell"}, StrategySubmits(s) PROVE Covered'
  <2> SUFFICES ASSUME mode = "native" PROVE Covered'
    BY <1>12 DEF StrategySubmits, Covered
  <2>1. "strategy" \in Traders /\ "operator" \in Traders /\ 1 \in 0 .. MaxHeld /\ Traders = {"strategy", "operator"}
    BY WorkerAssumption DEF Traders
  <2>2. ~paused /\ order' = Submitted("strategy", s, 1) /\ held' = held /\ (s = "sell" => held > 0)
    BY <1>12 DEF StrategySubmits, Sellable
  <2>3. order["operator"].status = "none"
    BY <2>2 DEF Flattened
  <2>4. order'["operator"].status = "none" /\ order'["strategy"].side \in {"buy", "sell"}
        /\ order'["strategy"].side = s /\ order'["strategy"].lots = 1
    BY <2>1, <2>2, <2>3, SubmittedOrders
  <2>5. held \in Int
    BY TypeParts DEF NodeTypes
  <2> QED BY <2>1, <2>2, <2>4, <2>5 DEF Covered
<1>13. ASSUME NEW t \in Traders, VenueAccepts(t) PROVE Covered'
  BY <1>13, NoOrders DEF VenueAccepts, controlVars, nodeVars, marketVars, historyVars, Covered
<1>14. ASSUME NEW t \in Traders, NEW n \in 0 .. MaxHeld, VenueEnds(t, n) PROVE Covered'
  <2> SUFFICES ASSUME mode = "native" PROVE Covered'
    BY <1>14 DEF VenueEnds, Covered
  <2>1. /\ order[t].status # "none" /\ n >= 0 /\ n <= order[t].lots
        /\ held' = held + (IF order[t].side = "buy" THEN n ELSE -n) /\ order' = [order EXCEPT ![t] = NoOrder]
    BY <1>14 DEF VenueEnds
  <2>2. /\ held \in Int /\ n \in Int /\ order \in [Traders -> Order] /\ order[t].lots \in Int
        /\ order[t].side \in {"none", "buy", "sell"}
    BY <1>14, TypeParts, WorkerAssumption DEF NodeTypes, Order
  <2>3. \A u \in Traders : order'[u].status = "none"
    BY <2>1, <2>2, NoOrders DEF Covered, Traders
  <2>4. order[t].side # "none"
    BY <2>1 DEF Covered
  <2>5. held' >= 0
    BY <2>1, <2>2, <2>4 DEF Covered
  <2> QED BY <2>3, <2>5 DEF Covered, Traders
<1>15. CASE PollWaits
  <2>1. \A t \in Traders : /\ order'[t].side = order[t].side /\ order'[t].lots = order[t].lots
                           /\ order'[t].status = "none" <=> order[t].status = "none"
    BY <1>15, CancelledOrders, Polls DEF PollWaits
  <2>2. UNCHANGED <<held, mode>>
    BY <1>15, Polls DEF PollWaits
  <2> QED BY <2>1, <2>2 DEF Covered
<1>16. CASE FlattenTimesOut
  <2>1. \A t \in Traders : /\ order'[t].side = order[t].side /\ order'[t].lots = order[t].lots
                           /\ order'[t].status = "none" <=> order[t].status = "none"
    BY <1>16, CancelledOrders DEF FlattenTimesOut
  <2>2. UNCHANGED <<held, mode>>
    BY <1>16, Polls DEF FlattenTimesOut
  <2> QED BY <2>1, <2>2 DEF Covered
<1>17. CASE FlattenCompletes
  BY <1>17, NoOrders DEF FlattenCompletes, Reducing, Polling, SetTrading, controlVars, nodeVars, marketVars, historyVars, Covered
<1>18. CASE FlattenWaits
  BY <1>18, NoOrders DEF FlattenWaits, Reducing, Polling, controlVars, nodeVars, marketVars, historyVars, Covered
<1>19. ASSUME NEW n \in 1 .. MaxHeld, FlattenSubmits(n) PROVE Covered'
  <2> SUFFICES ASSUME mode = "native" PROVE Covered'
    BY <1>19, Polls DEF FlattenSubmits, Reducing, Covered
  <2>1. "strategy" \in Traders /\ "operator" \in Traders /\ n \in 0 .. MaxHeld /\ Traders = {"strategy", "operator"}
    BY WorkerAssumption DEF Traders
  <2>2. /\ \A t \in Traders : order[t].status = "none"
        /\ held' = held /\ n <= held
    BY <1>19, Polls DEF FlattenSubmits, Reducing, Allocated
  <2>3. order' = order \/ order' = Submitted("operator", "sell", n)
    BY <1>19 DEF FlattenSubmits
  <2>4. order'["strategy"].status = "none" /\ (order'["operator"].status # "none" => order'["operator"].side = "sell" /\ order'["operator"].lots = n)
    BY <2>1, <2>2, <2>3, SubmittedOrders
  <2>5. held >= 0
    BY DEF Covered
  <2> QED BY <2>1, <2>2, <2>4, <2>5 DEF Covered
<1>20. CASE FlattenOverdue
  BY <1>20, NoOrders DEF FlattenOverdue, controlVars, nodeVars, marketVars, historyVars, Covered
<1>21. CASE RiskHalt
  BY <1>21, NoOrders DEF RiskHalt, SetTrading, controlVars, nodeVars, marketVars, historyVars, Covered
<1>22. CASE NodeStarts
  BY <1>22, NoOrders DEF NodeStarts, controlVars, nodeVars, marketVars, historyVars, Covered
<1>23. CASE Signal
  BY <1>23, NoOrders DEF Signal, controlVars, nodeVars, marketVars, historyVars, Covered
<1>24. CASE LoopEnds
  BY <1>24, NoOrders DEF LoopEnds, controlVars, nodeVars, marketVars, historyVars, Covered
<1>25. CASE LoopFails
  BY <1>25, NoOrders DEF LoopFails, controlVars, nodeVars, marketVars, historyVars, Covered
<1>26. CASE Close
  BY <1>26, NoOrders DEF Close, controlVars, nodeVars, marketVars, historyVars, Covered
<1>27. CASE Drain
  BY <1>27, NoOrders DEF Drain, controlVars, nodeVars, marketVars, historyVars, Covered
<1>28. CASE NodeStops
  BY <1>28, NoOrders DEF NodeStops, controlVars, nodeVars, marketVars, historyVars, Covered
<1>29. CASE Exit
  BY <1>29, NoOrders DEF Exit, controlVars, nodeVars, marketVars, historyVars, Covered
<1>30. CASE RiskHaltRaises
  BY <1>30, PausesPartly DEF RiskHaltRaises, Covered
<1> QED
  BY <1>1, <1>2, <1>3, <1>4, <1>5, <1>6, <1>7, <1>8, <1>9, <1>10, <1>11, <1>12, <1>13,
     <1>14, <1>15, <1>16, <1>17, <1>18, <1>19, <1>20, <1>21, <1>22, <1>23, <1>24, <1>25,
     <1>26, <1>27, <1>28, <1>29, <1>30
  DEF Next, ControlStep, Poll, Shutdown

-----------------------------------------------------------------------------
(* The theorems.                                                           *)

\* A worker starts with no command, no order and no flatten.
LEMMA InitiallyInv == Init => WorkerInv
<1> SUFFICES ASSUME Init PROVE WorkerInv
  OBVIOUS
<1>1. ControlTypes
  <2>1. <<>> \in Seq(Ops)
    OBVIOUS
  <2> QED BY <2>1 DEF Init, ControlTypes, Holding
<1>2. NodeTypes
  <2>1. held \in 0 .. MaxHeld /\ 0 .. MaxHeld \subseteq Int /\ held \in Int
    BY WorkerAssumption DEF Init
  <2>2. order \in [Traders -> Order] /\ flatten \in Flatten
    BY NoOrders, Flattens DEF Init
  <2>3. own \in Int /\ ledger \in Int
    <3>1. ledger = held /\ own = (IF mode = "native" THEN 0 ELSE held)
      BY DEF Init
    <3> QED BY <2>1, <3>1
  <2>4. /\ state = "STARTING" /\ trading = "ACTIVE" /\ paused = FALSE /\ denied = FALSE /\ error = FALSE
        /\ mode \in Modes
    BY DEF Init
  <2> QED BY <2>1, <2>2, <2>3, <2>4 DEF NodeTypes
<1>3. TypeOK
  BY <1>1, <1>2, TypeParts
<1>4. \A t \in Traders : order[t].status = "none"
  BY NoOrders DEF Init
<1>5. Dispatched /\ Recorded
  BY DEF Init, Dispatched, Recorded, Holding
<1>6. Flattened
  BY <1>4 DEF Init, Flattened, NoFreeTradingAfterFlatten, Traders
<1>7. Covered
  BY <1>4, WorkerAssumption DEF Init, Covered, Traders
<1> QED BY <1>3, <1>5, <1>6, <1>7 DEF WorkerInv

\* Each step keeps the inductive invariant.
LEMMA StepKeepsInv == WorkerInv /\ [Next]_vars => WorkerInv'
<1> SUFFICES ASSUME WorkerInv, [Next]_vars PROVE WorkerInv'
  OBVIOUS
<1>1. ControlTypes'
  BY ControlTypesKept DEF WorkerInv
<1>2. NodeTypes'
  BY NodeTypesKept DEF WorkerInv
<1>3. TypeOK'
  BY <1>1, <1>2, TypeParts, PTL
<1>4. Dispatched' /\ Recorded' /\ Flattened' /\ Covered'
  BY DispatchedKept, RecordedKept, FlattenedKept, CoveredKept DEF WorkerInv
<1> QED BY <1>3, <1>4 DEF WorkerInv

\* The inductive invariant holds in every state of a worker.
THEOREM WorkerInvariant == Spec => []WorkerInv
<1>1. Init => WorkerInv
  BY InitiallyInv
<1>2. WorkerInv /\ [Next]_vars => WorkerInv'
  BY StepKeepsInv
<1> QED BY <1>1, <1>2, PTL DEF Spec

\* Every variable keeps its type.
THEOREM TypesOK == Spec => []TypeOK
<1>1. WorkerInv => TypeOK
  BY DEF WorkerInv
<1> QED BY <1>1, WorkerInvariant, PTL

\* A completed receipt is of a command that was applied whole, a failed or unknown one of a
\* command that was not, and one that changed something before it raised is unknown, wherever
\* either thread was when the worker stopped.
THEOREM ReceiptsHold == Spec => []ReceiptsMatch
<1>1. WorkerInv => ReceiptsMatch
  BY DEF WorkerInv, Recorded, ReceiptsMatch, Holding
<1> QED BY <1>1, WorkerInvariant, PTL

\* Once the run was told to flatten, no command and no poll lets it trade freely again.
THEOREM FlattenIsFinal == Spec => []NoFreeTradingAfterFlatten
<1>1. WorkerInv => NoFreeTradingAfterFlatten
  BY DEF WorkerInv, Flattened
<1> QED BY <1>1, WorkerInvariant, PTL

\* A native run is never sold short: neither its strategy nor a flatten, with the orders that
\* still fill while it waits, sells more than it holds.
THEOREM FlattenIsCovered == Spec => []FlattenWithinAllocation
<1>1. WorkerInv => FlattenWithinAllocation
  BY DEF WorkerInv, Covered, FlattenWithinAllocation
<1> QED BY <1>1, WorkerInvariant, PTL
=============================================================================
