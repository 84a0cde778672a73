-------------------------- MODULE GroupSupervisor --------------------------
(***************************************************************************)
(* The run lifecycle kept by GroupSupervisor (server/group_runtime.py): a  *)
(* single-threaded asyncio process with a `runs` table. Tasks interleave   *)
(* only where they await:                                                  *)
(*   - `execute` holds self.lock for one operation (start, stop, halt,     *)
(*     reduce, resume, cancel, flatten) and `reload_registry` holds it     *)
(*     while it loads;                                                     *)
(*   - `status` polls call run_status without the lock, and await the      *)
(*     engine between reading a row and writing it back;                   *)
(*   - `watch` waits for the exit of each worker and decides how it ended. *)
(* Workers are processes of their own; the supervisor's restart ends them  *)
(* with its cgroup.                                                        *)
(***************************************************************************)
EXTENDS Integers, FiniteSets

CONSTANTS
    Runs,           \* run identifiers: bounds the number of starts
    Groups,         \* strategy groups of the registry
    ModelGroups,    \* the groups that launch a published model
    LiveGroups,     \* the groups that trade an account
    Account,        \* the account (profileId) of each live group
    Pollers,        \* concurrent status requests
    ModelLimit,     \* modelRuntime.maxConcurrentRuns
    MaxReloads,     \* bound: registry reloads
    MaxRestarts,    \* bound: supervisor crashes and shutdowns
    Offered,        \* the operations this instance requests, besides start
    Events          \* what may happen around them in this instance

ASSUME SupervisorAssumption ==
    /\ ModelGroups \subseteq Groups /\ LiveGroups \subseteq Groups
    /\ LiveGroups \subseteq DOMAIN Account
    /\ IsFiniteSet(Runs) /\ "none" \notin Runs \cup Groups
    /\ ModelLimit \in Nat /\ MaxReloads \in Nat /\ MaxRestarts \in Nat
    /\ Offered \subseteq {"stop", "halt", "reduce", "resume", "cancel", "flatten"}
    /\ Events \subseteq {"deadline", "error", "partial", "crash", "unready"}

VARIABLES
    row,        \* the runs table
    proc,       \* worker processes, as the kernel has them
    worker,     \* what each worker is in: trading state, signals, deadline, how it ended
    watch,      \* the watch task of each run
    poll,       \* status requests: the run and the row they hold across their await
    ex,         \* the task that holds self.lock
    version,    \* registry digest
    mode,       \* "up"; after SIGTERM main is "closing", then "draining"
    restarts,   \* how often the service was restarted
    stopped     \* history: runs whose stop operation has been executed

vars == <<row, proc, worker, watch, poll, ex, version, mode, restarts, stopped>>

Active == {"starting", "running", "halted", "reducing", "stopping", "unresponsive",
           "error", "recovering", "engine_stopped"}
Terminal == {"interrupted", "failed", "stopped", "completed"}
TradingStates == {"STARTING", "ACTIVE", "HALTED", "REDUCING", "ERROR", "STOPPED"}
Controls == {"halt", "reduce", "resume", "cancel", "flatten"}
Exits == {"clean", "partial", "crash"}

NoRow == [state |-> "none", group |-> "none", pid |-> FALSE, version |-> 0, young |-> TRUE,
          stopRequested |-> FALSE, errorObserved |-> FALSE, automatic |-> FALSE]
NoWorker == [trading |-> "STARTING", flattened |-> FALSE, signalled |-> FALSE,
             deadline |-> FALSE, exit |-> "none"]
Idle == [pc |-> "idle", run |-> "none", row |-> NoRow]
Free == [pc |-> "idle", action |-> "none", run |-> "none", group |-> "none",
         todo |-> {}, row |-> NoRow]

Init ==
    /\ row = [r \in Runs |-> NoRow] /\ proc = [r \in Runs |-> "none"]
    /\ worker = [r \in Runs |-> NoWorker] /\ watch = [r \in Runs |-> "none"]
    /\ poll = [p \in Pollers |-> Idle] /\ ex = Free
    /\ version = 1 /\ mode = "up" /\ restarts = 0
    /\ stopped = {}

-----------------------------------------------------------------------------
(* Rows.                                                                   *)

\* owned_process: the recorded process is alive and runs the registry's command.
Owned(r, w) == w.pid /\ proc[r] = "alive" /\ w.version = version

\* A row whose process has not been recorded yet is given 30 seconds.
Spawning(w) == w.state = "starting" /\ ~w.pid /\ w.young

\* The runs that hold a model slot (model_capacity).
ModelRuns == {r \in Runs : /\ row[r].group \in ModelGroups /\ row[r].state \in Active
                           /\ (Spawning(row[r]) \/ Owned(r, row[r]))}

\* Fault seeded for SlotsRespected: off by one.
HasCapacity_OneMore(g) == g \in ModelGroups => Cardinality(ModelRuns) <= ModelLimit

HasCapacity(g) == g \in ModelGroups => Cardinality(ModelRuns) < ModelLimit

\* update(run_id, state): the result column keeps its value.
SetState(r, s) == [row EXCEPT ![r].state = s]

\* update(run_id, state, result): result is the caller's copy of it.
SetResult(r, s, w) ==
    [row EXCEPT ![r].state = s, ![r].stopRequested = w.stopRequested,
                ![r].errorObserved = w.errorObserved, ![r].automatic = w.automatic]

-----------------------------------------------------------------------------
(* run_status, shared by polls and by prepare: up to the await, and after. *)

\* Fault seeded for TypeOK: a state of its own for runs that lost their process.
SettledState_Lost(r) ==
    IF row[r].state \in Active /\ ~Owned(r, row[r]) /\ ~Spawning(row[r])
    THEN "lost" ELSE row[r].state

\* Fault seeded for EndedRunIsReleased: a run that lost its process keeps its state.
SettledState_Kept(r) == row[r].state

\* No await is needed: the row is not active, is stopping or spawning, or lost its process.
SettledState(r) ==
    IF row[r].state \in Active /\ ~Owned(r, row[r]) /\ ~Spawning(row[r])
    THEN "interrupted" ELSE row[r].state

Asks(r) == row[r].state \in Active \ {"stopping"} /\ Owned(r, row[r])

\* The row state for a trading state, before readiness is looked at.
Shown == [STARTING |-> "starting", ACTIVE |-> "running", HALTED |-> "halted",
          REDUCING |-> "reducing", ERROR |-> "error", STOPPED |-> "engine_stopped"]

\* The state an answering engine is shown in, given the row w read before the await:
\* without ready market and execution an active engine is starting or recovering, and a
\* model that is not warm is starting.
AnsweredState(r, w, warm, ready) ==
    LET shown == Shown[worker[r].trading]
    IN  IF w.group \in ModelGroups /\ ~warm /\ shown \in {"running", "halted", "reducing"}
        THEN "starting"
        ELSE IF shown = "running" /\ ~ready
        THEN IF w.state = "starting" \/ w.group \notin LiveGroups \cup ModelGroups
             THEN "starting" ELSE "recovering"
        ELSE shown

\* What a status query writes: the engine's answer, or the reading of its silence. In both
\* cases the result column is rebuilt from the row read before the await.
Answered(r, w, warm, ready) ==
    LET s == AnsweredState(r, w, warm, ready)
    IN  SetResult(r, s, [w EXCEPT !.errorObserved = @ \/ s = "error"])

Unanswered(r, w, old) ==
    IF w.group \in ModelGroups /\ worker[r].deadline
    THEN SetResult(r, "stopping", [w EXCEPT !.automatic = TRUE])
    ELSE SetResult(r, IF w.state = "starting" /\ ~old THEN "starting" ELSE "unresponsive", w)

\* Whether an engine reports itself ready, in this instance.
Readiness == IF "unready" \in Events THEN BOOLEAN ELSE {TRUE}

StatusReplies(r, w) ==
    {Unanswered(r, w, old) : old \in BOOLEAN}
        \cup (IF proc[r] = "alive" THEN {Answered(r, w, warm, ready) : warm, ready \in Readiness} ELSE {})

PollBegin(p, r) ==
    /\ mode = "up" /\ poll[p].pc = "idle" /\ row[r].state \in Active
    /\ IF Asks(r)
       THEN /\ poll' = [poll EXCEPT ![p] = [pc |-> "await", run |-> r, row |-> row[r]]]
            /\ UNCHANGED row
       ELSE /\ row' = SetState(r, SettledState(r))
            /\ UNCHANGED poll
    /\ UNCHANGED <<proc, worker, watch, ex, version, mode, restarts, stopped>>

PollEnd(p) ==
    /\ poll[p].pc = "await"
    /\ row' \in StatusReplies(poll[p].run, poll[p].row)
    /\ poll' = [poll EXCEPT ![p] = Idle]
    /\ UNCHANGED <<proc, worker, watch, ex, version, mode, restarts, stopped>>

-----------------------------------------------------------------------------
(* execute: one operation at a time, under self.lock.                      *)

\* Fault seeded for OneLiveRunPerAccount: accounts are not compared.
Conflicting_OwnGroup(g) == {g}

\* The groups that may not run beside g: itself and, for a live group, those that trade
\* the same account.
Conflicting(g) ==
    {h \in Groups : h = g \/ (g \in LiveGroups /\ h \in LiveGroups /\ Account[h] = Account[g])}

\* A live group is looked at once more, without an await: no active run of a table t
\* may be alive on its account.
AccountInUse(g, t) ==
    /\ g \in LiveGroups
    /\ \E r \in Runs : t[r].group \in Conflicting(g) /\ t[r].state \in Active /\ Owned(r, t[r])

\* prepare(start): the version must be current and a model needs a slot; then every run
\* of the conflicting groups is looked at.
StartBegin(g) ==
    /\ mode = "up" /\ ex.pc = "idle" /\ HasCapacity(g)
    /\ ex' = [Free EXCEPT !.pc = "check", !.action = "start", !.group = g,
                          !.todo = {r \in Runs : row[r].group \in Conflicting(g)}]
    /\ UNCHANGED <<row, proc, worker, watch, poll, version, mode, restarts, stopped>>

\* prepare for any other action looks at the one run.
ControlBegin(a, r) ==
    /\ mode = "up" /\ ex.pc = "idle" /\ row[r].state # "none"
    /\ a \in {"cancel", "flatten"} => row[r].group \in LiveGroups
    /\ ex' = [Free EXCEPT !.pc = "check", !.action = a, !.run = r,
                          !.group = row[r].group, !.todo = {r}]
    /\ UNCHANGED <<row, proc, worker, watch, poll, version, mode, restarts, stopped>>

\* What prepare does with the state run_status returned for r: an active run refuses a
\* start; the other actions need an active run whose process is owned, resume a paused one.
Admits(r, s) ==
    CASE ex.action = "start"  -> s \notin Active
      [] ex.action = "resume" -> s \in {"halted", "reducing"} /\ Owned(r, row[r]) /\ ~worker[r].flattened
      [] OTHER                -> s \in Active /\ Owned(r, row[r])

\* The next step of prepare, t being the table run_status leaves behind.
Concluded(r, t) ==
    IF ~Admits(r, t[r].state) THEN Free
    ELSE IF ex.action = "start" /\ ex.todo = {r} /\ AccountInUse(ex.group, t) THEN Free
    ELSE [ex EXCEPT !.todo = @ \ {r}, !.row = NoRow,
                    !.pc = IF ex.todo # {r} THEN "check"
                           ELSE IF ex.action = "start" THEN "preview" ELSE "control"]

\* prepare awaits run_status for one row.
CheckBegin(r) ==
    /\ ex.pc = "check" /\ r \in ex.todo
    /\ IF Asks(r)
       THEN ex' = [ex EXCEPT !.pc = "await", !.run = r, !.row = row[r]] /\ UNCHANGED row
       ELSE row' = SetState(r, SettledState(r)) /\ ex' = Concluded(r, SetState(r, SettledState(r)))
    /\ UNCHANGED <<proc, worker, watch, poll, version, mode, restarts, stopped>>

CheckEnd ==
    /\ ex.pc = "await"
    /\ \E next \in StatusReplies(ex.run, ex.row) :
        /\ row' = next
        /\ ex' = Concluded(ex.run, next)
    /\ UNCHANGED <<proc, worker, watch, poll, version, mode, restarts, stopped>>

\* A group without runs has nothing to check.
CheckNothing ==
    /\ ex.pc = "check" /\ ex.todo = {}
    /\ ex' = [ex EXCEPT !.pc = "preview"]
    /\ UNCHANGED <<row, proc, worker, watch, poll, version, mode, restarts, stopped>>

\* launch: unless the group is live the capacity is looked at again after the awaits, then
\* the row is inserted.
Launch(r) ==
    /\ ex.pc = "preview" /\ row[r].state = "none"
    /\ ex.group \in LiveGroups \/ HasCapacity(ex.group)
    /\ row' = [row EXCEPT ![r] = [NoRow EXCEPT !.state = "starting", !.group = ex.group,
                                               !.version = version]]
    /\ ex' = [ex EXCEPT !.pc = "spawn", !.run = r]
    /\ UNCHANGED <<proc, worker, watch, poll, version, mode, restarts, stopped>>

\* The inventory preview, the model's inputs or the capacity refuse it.
LaunchRefused ==
    /\ ex.pc = "preview"
    /\ ex' = Free
    /\ UNCHANGED <<row, proc, worker, watch, poll, version, mode, restarts, stopped>>

\* The child exists before process_factory returns.
Spawn ==
    /\ ex.pc = "spawn" /\ proc[ex.run] = "none"
    /\ proc' = [proc EXCEPT ![ex.run] = "alive"]
    /\ UNCHANGED <<row, worker, watch, poll, ex, version, mode, restarts, stopped>>

\* The process is recorded and its watch task created; a child that has already exited
\* can still be looked up until it is reaped.
SpawnRecorded ==
    /\ ex.pc = "spawn" /\ proc[ex.run] # "none"
    /\ row' = [row EXCEPT ![ex.run].pid = TRUE]
    /\ watch' = [watch EXCEPT ![ex.run] = "waiting"]
    /\ ex' = Free
    /\ UNCHANGED <<proc, worker, poll, version, mode, restarts, stopped>>

\* The process could not be created, or is gone before it could be looked up.
SpawnFailed ==
    /\ ex.pc = "spawn" /\ proc[ex.run] # "alive"
    /\ row' = SetResult(ex.run, "failed", NoRow)
    /\ proc' = [proc EXCEPT ![ex.run] = "gone"]
    /\ ex' = Free
    /\ UNCHANGED <<worker, watch, poll, version, mode, restarts, stopped>>

\* Fault seeded for StopEndsRun: the intent is recorded and no signal sent.
StopRuns_NoSignal(rs) ==
    /\ row' = [r \in Runs |-> IF r \in rs
                              THEN [row[r] EXCEPT !.state = "stopping", !.stopRequested = TRUE]
                              ELSE row[r]]
    /\ stopped' = stopped \cup rs /\ UNCHANGED worker

\* control(stop): intent first, then SIGTERM, without an await in between.
StopRuns(rs) ==
    /\ row' = [r \in Runs |-> IF r \in rs
                              THEN [row[r] EXCEPT !.state = "stopping", !.stopRequested = TRUE]
                              ELSE row[r]]
    /\ worker' = [r \in Runs |-> IF r \in rs THEN [worker[r] EXCEPT !.signalled = TRUE] ELSE worker[r]]
    /\ stopped' = stopped \cup rs

ControlStop ==
    /\ ex.pc = "control" /\ ex.action = "stop"
    /\ Owned(ex.run, row[ex.run])
    /\ StopRuns({ex.run})
    /\ ex' = Free
    /\ UNCHANGED <<proc, watch, poll, version, mode, restarts>>

Requested == [halt |-> "HALTED", cancel |-> "HALTED", reduce |-> "REDUCING",
              flatten |-> "REDUCING", resume |-> "ACTIVE"]

\* Whether the worker takes a command: its node runs, and only a paused run that has not
\* been flattened resumes.
Accepts(r, a) ==
    /\ worker[r].trading \in {"ACTIVE", "HALTED", "REDUCING"}
    /\ a = "resume" => worker[r].trading # "ACTIVE" /\ ~worker[r].flattened

\* control, for the other actions: the worker applies the command ...
ControlApplied ==
    /\ ex.pc = "control" /\ ex.action \in Controls /\ Owned(ex.run, row[ex.run])
    /\ Accepts(ex.run, ex.action)
    /\ worker' = [worker EXCEPT ![ex.run].trading = Requested[ex.action],
                                ![ex.run].flattened = @ \/ ex.action = "flatten"]
    /\ ex' = [ex EXCEPT !.pc = "reply"]
    /\ UNCHANGED <<row, proc, watch, poll, version, mode, restarts, stopped>>

\* ... and its receipt moves the row, unless the run has ended or is stopping by now.
ControlReply ==
    /\ ex.pc = "reply"
    /\ row' = IF row[ex.run].state \in Active \ {"stopping"}
              THEN SetState(ex.run, Shown[Requested[ex.action]]) ELSE row
    /\ ex' = Free
    /\ UNCHANGED <<proc, worker, watch, poll, version, mode, restarts, stopped>>

\* The process is not owned, the worker refuses, or the reply takes over three seconds.
ControlLost ==
    /\ \/ ex.pc = "control" /\ (ex.action \in Controls \/ ~Owned(ex.run, row[ex.run]))
       \/ ex.pc = "reply"
    /\ ex' = Free
    /\ UNCHANGED <<row, proc, worker, watch, poll, version, mode, restarts, stopped>>

\* Fault seeded for LiveRunIsManaged: a reload does not look for running workers.
ReloadBegin_Unguarded ==
    /\ mode = "up" /\ ex.pc = "idle" /\ version <= MaxReloads
    /\ ex' = [Free EXCEPT !.pc = "reload"]
    /\ UNCHANGED <<row, proc, worker, watch, poll, version, mode, restarts, stopped>>

\* reload_registry: refused while any active run is owned; the lock is held while the new
\* registry loads.
ReloadBegin ==
    /\ mode = "up" /\ ex.pc = "idle" /\ version <= MaxReloads
    /\ \A r \in Runs : ~(row[r].state \in Active /\ Owned(r, row[r]))
    /\ ex' = [Free EXCEPT !.pc = "reload"]
    /\ UNCHANGED <<row, proc, worker, watch, poll, version, mode, restarts, stopped>>

\* The registry may fail to load, or leave the commands of the groups as they were.
ReloadEnd ==
    /\ ex.pc = "reload"
    /\ version' \in {version, version + 1}
    /\ ex' = Free
    /\ UNCHANGED <<row, proc, worker, watch, poll, mode, restarts, stopped>>

-----------------------------------------------------------------------------
(* Workers (external to the supervisor) and their watch tasks.             *)

\* A node starts, fails or stops; a completed flatten and a denied order halt a live one.
WorkerMoves(r, t) ==
    /\ proc[r] = "alive" /\ worker[r].exit = "none"
    /\ \/ t = "ACTIVE" /\ worker[r].trading = "STARTING"
       \/ t = "HALTED" /\ worker[r].trading \in {"ACTIVE", "REDUCING"} /\ row[r].group \in LiveGroups
       \/ t = "ERROR" /\ worker[r].trading # "ERROR" /\ "error" \in Events
       \/ t = "STOPPED" /\ worker[r].trading # "ERROR" /\ (worker[r].signalled \/ worker[r].deadline)
    /\ worker' = [worker EXCEPT ![r].trading = t]
    /\ UNCHANGED <<row, proc, watch, poll, ex, version, mode, restarts, stopped>>

DeadlinePasses(r) ==
    /\ "deadline" \in Events /\ proc[r] = "alive" /\ ~worker[r].deadline
    /\ worker' = [worker EXCEPT ![r].deadline = TRUE]
    /\ UNCHANGED <<row, proc, watch, poll, ex, version, mode, restarts, stopped>>

\* "clean": exit code 0, a valid final.json and all reports; "partial": exit code 0 and no
\* error, with something missing; "crash": anything else.
WorkerExits(r, how) ==
    /\ proc[r] = "alive"
    /\ CASE how = "clean"   -> worker[r].trading \in {"STOPPED", "ERROR"}
         [] how = "partial" -> worker[r].trading # "ERROR" /\ "partial" \in Events
         [] how = "crash"   -> "crash" \in Events
    /\ proc' = [proc EXCEPT ![r] = "gone"]
    /\ worker' = [worker EXCEPT ![r].exit = how]
    /\ UNCHANGED <<row, watch, poll, ex, version, mode, restarts, stopped>>

\* Fault seeded for NoFalseSuccess: an automatic shutdown counts as an operator's stop.
Verdict_AnyStopping(r) ==
    LET w == row[r]
        asked == w.state = "stopping" \/ w.stopRequested
        failed == worker[r].exit = "crash" \/ worker[r].trading = "ERROR"
                  \/ w.state = "error" \/ w.errorObserved
    IN  CASE failed                                   -> "failed"
          [] ~failed /\ worker[r].exit = "clean" /\ asked -> "stopped"
          [] OTHER                                    -> "interrupted"

\* How watch reads the end of a run from the row, the exit code and final.json.
Verdict(r) ==
    LET w == row[r]
        asked == (w.state = "stopping" /\ ~w.automatic) \/ w.stopRequested
        failed == worker[r].exit = "crash" \/ worker[r].trading = "ERROR"
                  \/ w.state = "error" \/ w.errorObserved
        clean == worker[r].exit = "clean"
    IN  CASE failed                        -> "failed"
          [] ~failed /\ clean /\ asked     -> "stopped"
          [] ~failed /\ clean /\ ~asked /\ worker[r].deadline -> "completed"
          [] OTHER                         -> "interrupted"

Watch(r) ==
    /\ watch[r] = "waiting" /\ proc[r] = "gone"
    /\ row' = SetState(r, Verdict(r))
    /\ watch' = [watch EXCEPT ![r] = "done"]
    /\ UNCHANGED <<proc, worker, poll, ex, version, mode, restarts, stopped>>

-----------------------------------------------------------------------------
(* Time, and the end of the service.                                       *)

\* Thirty seconds pass since the row was created. Creating the process is one synchronous
\* fork, so they do not pass while launch is between its two writes.
Ages(r) ==
    /\ row[r].state = "starting" /\ ~row[r].pid /\ row[r].young
    /\ ~(ex.pc = "spawn" /\ ex.run = r)
    /\ row' = [row EXCEPT ![r].young = FALSE]
    /\ UNCHANGED <<proc, worker, watch, poll, ex, version, mode, restarts, stopped>>

\* SIGTERM: main closes the server ...
Shutdown ==
    /\ mode = "up" /\ restarts < MaxRestarts
    /\ mode' = "closing"
    /\ UNCHANGED <<row, proc, worker, watch, poll, ex, version, restarts, stopped>>

\* ... and stops the active runs it owns, without the lock and without an await. Then it
\* waits for their watch tasks; the task that holds the lock may still be running.
ShutdownStops ==
    /\ mode = "closing"
    /\ StopRuns({r \in Runs : row[r].state \in Active /\ Owned(r, row[r])})
    /\ mode' = "draining"
    /\ UNCHANGED <<proc, watch, poll, ex, version, restarts>>

\* The service ends, after a shutdown or a crash: the cgroup takes the workers with it,
\* every task is gone, and the next process has only the table.
ServiceEnds ==
    /\ restarts < MaxRestarts
    /\ proc' = [r \in Runs |-> IF proc[r] = "alive" THEN "gone" ELSE proc[r]]
    /\ worker' = [r \in Runs |-> IF proc[r] = "alive" THEN [worker[r] EXCEPT !.exit = "crash"]
                                 ELSE worker[r]]
    /\ watch' = [r \in Runs |-> IF watch[r] = "done" THEN "done" ELSE "none"]
    /\ poll' = [p \in Pollers |-> Idle] /\ ex' = Free
    /\ mode' = "up" /\ restarts' = restarts + 1
    /\ UNCHANGED <<row, version, stopped>>

-----------------------------------------------------------------------------
PollNext == \E p \in Pollers : PollEnd(p) \/ \E r \in Runs : PollBegin(p, r)

ExecuteNext ==
    \/ CheckEnd \/ CheckNothing \/ (\E r \in Runs : CheckBegin(r) \/ Launch(r))
    \/ LaunchRefused \/ Spawn \/ SpawnRecorded \/ SpawnFailed
    \/ ControlStop \/ ControlApplied \/ ControlReply \/ ControlLost \/ ReloadEnd

RequestNext ==
    \/ \E g \in Groups : StartBegin(g)
    \/ \E a \in Offered, r \in Runs : ControlBegin(a, r)
    \/ ReloadBegin

WorkerNext ==
    \E r \in Runs :
        \/ \E t \in TradingStates : WorkerMoves(r, t)
        \/ DeadlinePasses(r)
        \/ \E how \in Exits : WorkerExits(r, how)

Next ==
    \/ PollNext \/ ExecuteNext \/ RequestNext \/ WorkerNext
    \/ \E r \in Runs : Watch(r) \/ Ages(r)
    \/ Shutdown \/ ShutdownStops \/ ServiceEnds

Spec == Init /\ [][Next]_vars

\* The event loop keeps running its tasks, dashboards keep asking for the status, a worker
\* told to stop ends, thirty seconds pass, and systemd completes a shutdown it began.
Fairness ==
    /\ WF_vars(ExecuteNext)
    /\ \A p \in Pollers : WF_vars(PollEnd(p))
    /\ \A r \in Runs : /\ SF_vars(\E p \in Pollers : PollBegin(p, r))
                       /\ WF_vars(Watch(r)) /\ WF_vars(Ages(r))
                       /\ WF_vars(worker[r].signalled /\ \E how \in Exits : WorkerExits(r, how))
    /\ WF_vars(mode # "up" /\ ServiceEnds)

FairSpec == Spec /\ Fairness

-----------------------------------------------------------------------------
Row == [state : Active \cup Terminal \cup {"none"}, group : Groups \cup {"none"},
        pid : BOOLEAN, version : Nat, young : BOOLEAN, stopRequested : BOOLEAN,
        errorObserved : BOOLEAN, automatic : BOOLEAN]

TypeOK ==
    /\ row \in [Runs -> Row]
    /\ proc \in [Runs -> {"none", "alive", "gone"}]
    /\ worker \in [Runs -> [trading : TradingStates, flattened : BOOLEAN, signalled : BOOLEAN, deadline : BOOLEAN,
                            exit : Exits \cup {"none"}]]
    /\ watch \in [Runs -> {"none", "waiting", "done"}]
    /\ poll \in [Pollers -> [pc : {"idle", "await"}, run : Runs \cup {"none"}, row : Row]]
    /\ ex \in [pc : {"idle", "check", "await", "preview", "spawn", "control", "reply", "reload"},
               action : Controls \cup {"none", "start", "stop"}, run : Runs \cup {"none"},
               group : Groups \cup {"none"}, todo : SUBSET Runs, row : Row]
    /\ version \in Nat /\ mode \in {"up", "closing", "draining"} /\ restarts \in Nat
    /\ stopped \subseteq Runs

\* At most one worker of a group is alive, and at most one on an account, whatever polls,
\* stops, reloads and restarts happen around a start (prepare's checks under self.lock,
\* run_status, launch).
OneLiveRunPerAccount ==
    \A r, q \in Runs : (/\ proc[r] = "alive" /\ proc[q] = "alive"
                        /\ \/ row[r].group = row[q].group
                           \/ /\ {row[r].group, row[q].group} \subseteq LiveGroups
                              /\ Account[row[r].group] = Account[row[q].group]) => r = q

\* The live workers of published models never exceed the slots of the node, although
\* capacity is only looked at through rows that polls keep rewriting (model_capacity).
SlotsRespected ==
    Cardinality({r \in Runs : proc[r] = "alive" /\ row[r].group \in ModelGroups}) <= ModelLimit

\* A recorded live worker is never forgotten: its row is active and its command is still
\* the registry's, so that it can be listed, stopped and counted (owned_process,
\* reload_registry's refusal).
LiveRunIsManaged ==
    \A r \in Runs : proc[r] = "alive" /\ row[r].pid
                        => row[r].state \in Active /\ Owned(r, row[r])

\* No run is shown as stopped unless its stop was executed and it ended clean, or as
\* completed unless it reached its deadline and ended clean (watch's evidence rule).
NoFalseSuccess ==
    \A r \in Runs :
        /\ row[r].state = "stopped" => r \in stopped /\ worker[r].exit = "clean"
        /\ row[r].state = "completed" => worker[r].deadline /\ worker[r].exit = "clean"

\* Once a worker is gone its run leaves the active states for good, so that the group can
\* be started again, even if a late status reply revives the row.
EndedRunIsReleased ==
    \A r \in Runs : (row[r].state # "none" /\ proc[r] = "gone") ~> [](row[r].state \in Terminal)

\* A stop that was executed ends the run.
StopEndsRun ==
    \A r \in Runs : r \in stopped ~> row[r].state \in Terminal
=============================================================================
