------------------------ MODULE GroupSupervisorProofs ------------------------
(***************************************************************************)
(* Proofs about the run lifecycle, for any number of runs, groups, status  *)
(* requests, reloads and restarts, and whatever the workers do.            *)
(***************************************************************************)
EXTENDS GroupSupervisor, FiniteSetTheorems, TLAPS

\* Where the tasks are: each works on runs that have a row, and the task that awaits a run's
\* engine, as the watch task, only on runs whose process is recorded.
Placed ==
    /\ \A r \in Runs : /\ row[r].state = "none" => proc[r] = "none" /\ ~row[r].pid
                       /\ row[r].state # "none" => row[r].group \in Groups
                       /\ watch[r] = "waiting" => row[r].pid
    /\ \A p \in Pollers : poll[p].pc = "await" => poll[p].run \in Runs /\ row[poll[p].run].pid
    /\ ex.pc = "await" => ex.run \in Runs /\ row[ex.run].pid /\ ex.run \in ex.todo

\* ... and the task that holds the lock keeps to the steps of its operation.
InOrder ==
    /\ ex.pc \in {"await", "spawn", "control", "reply"} => ex.run \in Runs
    /\ ex.pc = "check" /\ ex.action # "start" => ex.run \in Runs
    /\ ex.pc \in {"check", "await"} => ex.action \in Controls \cup {"start", "stop"}
    /\ ex.pc \in {"preview", "spawn"} \/ (ex.pc = "check" /\ ex.todo = {}) => ex.action = "start"
    /\ ex.pc \in {"preview", "spawn"} => ex.todo = {}
    /\ ex.pc # "await" => ex.row = NoRow
    /\ ex.pc = "control" => ex.action \in Controls \cup {"stop"}
    /\ ex.pc = "reply" => ex.action \in Controls
    /\ ex.action = "start" => ex.group \in Groups

\* A worker is alive only while its row is active and of the current registry, or while launch
\* is about to record it. The registry is not replaced while there is one.
Managed ==
    /\ \A r \in Runs : proc[r] = "alive" =>
            \/ row[r].pid /\ row[r].state \in Active /\ row[r].version = version
            \/ ex.pc = "spawn" /\ ex.run = r
    /\ ex.pc = "spawn" => /\ row[ex.run].state = "starting" /\ ~row[ex.run].pid /\ row[ex.run].young
                          /\ row[ex.run].version = version /\ row[ex.run].group = ex.group
    /\ ex.pc = "reload" => \A r \in Runs : proc[r] # "alive"

\* The start under way has found the runs dead it has looked at.
Cleared ==
    ex.action = "start" /\ ex.pc \in {"check", "await", "preview", "spawn"} =>
        \A r \in Runs : (row[r].group \in Conflicting(ex.group) /\ proc[r] = "alive")
                            => r \in ex.todo \/ (ex.pc = "spawn" /\ r = ex.run)

LiveModels == {r \in Runs : proc[r] = "alive" /\ row[r].group \in ModelGroups}

\* ... and leaves a slot for the worker it is going to create.
Reserved ==
    ex.action = "start" /\ ex.pc \in {"check", "await", "preview", "spawn"} /\ ex.group \in ModelGroups
        => Cardinality(LiveModels \ (IF ex.pc = "spawn" THEN {ex.run} ELSE {})) < ModelLimit

\* What is read as an operator's stop was one, in the row and in every copy held across an await.
Evidence ==
    /\ \A r \in Runs :
        /\ row[r].stopRequested \/ (row[r].state = "stopping" /\ ~row[r].automatic) => r \in stopped
        /\ row[r].state \in {"stopped", "completed"} => proc[r] = "gone"
    /\ \A p \in Pollers : poll[p].row.stopRequested => poll[p].run \in stopped
    /\ ex.row.stopRequested => ex.run \in stopped

\* The inductive invariant.
SupInv ==
    /\ TypeOK /\ Placed /\ InOrder /\ Managed /\ Cleared /\ Reserved /\ Evidence
    /\ OneLiveRunPerAccount /\ SlotsRespected /\ NoFalseSuccess

-----------------------------------------------------------------------------
(* What the operators of the model return.                                 *)

\* What the constant tables of the model hold.
LEMMA Constants ==
    /\ \A t \in TradingStates : Shown[t] \in Active \ {"stopping"}
    /\ \A a \in Controls : Requested[a] \in TradingStates /\ Shown[Requested[a]] \in Active \ {"stopping"}
    /\ NoRow \in Row /\ Active \cap Terminal = {} /\ "none" \notin Active \cup Terminal
BY DEF TradingStates, Shown, Requested, Active, Terminal, NoRow, Controls, Row

\* What changes when a state and a result column are written to the row of r.
LEMMA ResultRows ==
    ASSUME TypeOK, NEW r \in Runs, NEW s \in Active \cup Terminal, NEW v \in Row
    PROVE  /\ SetResult(r, s, v) \in [Runs -> Row]
           /\ \A q \in Runs : q # r => SetResult(r, s, v)[q] = row[q]
           /\ SetResult(r, s, v)[r].group = row[r].group /\ SetResult(r, s, v)[r].pid = row[r].pid
           /\ SetResult(r, s, v)[r].version = row[r].version /\ SetResult(r, s, v)[r].young = row[r].young
           /\ SetResult(r, s, v)[r].state = s /\ SetResult(r, s, v)[r].stopRequested = v.stopRequested
           /\ SetResult(r, s, v)[r].automatic = v.automatic
<1> DEFINE n == [row[r] EXCEPT !.state = s, !.stopRequested = v.stopRequested,
                               !.errorObserved = v.errorObserved, !.automatic = v.automatic]
<1>1. row \in [Runs -> Row] /\ row[r] \in Row
  BY DEF TypeOK
<1>2. /\ n \in Row
      /\ n.group = row[r].group /\ n.pid = row[r].pid /\ n.version = row[r].version
      /\ n.young = row[r].young /\ n.state = s /\ n.stopRequested = v.stopRequested
      /\ n.automatic = v.automatic
  BY <1>1 DEF Row
<1>3. SetResult(r, s, v) = [row EXCEPT ![r] = n]
  BY DEF SetResult
<1> HIDE DEF n
<1>4. [row EXCEPT ![r] = n] \in [Runs -> Row] /\ [row EXCEPT ![r] = n][r] = n
      /\ \A q \in Runs : q # r => [row EXCEPT ![r] = n][q] = row[q]
  BY <1>1, <1>2
<1> QED BY <1>2, <1>3, <1>4

\* The operator's stop recorded in the row of r, in the table t, is the one of the copy w.
Carried(t, r, w) == t[r].stopRequested = w.stopRequested

\* A reply to a status query changes the one row, to an active state, and writes back the
\* operator's stop it was given. Only an automatic shutdown is shown as stopping.
LEMMA ReplyRows ==
    ASSUME TypeOK, NEW r \in Runs, NEW w \in Row, NEW next \in StatusReplies(r, w)
    PROVE  /\ next \in [Runs -> Row]
           /\ \A q \in Runs : /\ next[q].group = row[q].group /\ next[q].pid = row[q].pid
                              /\ next[q].version = row[q].version /\ next[q].young = row[q].young
                              /\ q # r => next[q] = row[q]
           /\ next[r].state \in Active /\ Carried(next, r, w)
           /\ next[r].state = "stopping" => next[r].automatic = TRUE
<1>1. ASSUME NEW s \in Active, NEW v \in Row, next = SetResult(r, s, v),
             v.stopRequested = w.stopRequested, s = "stopping" => v.automatic = TRUE
      PROVE  /\ next \in [Runs -> Row]
             /\ \A q \in Runs : /\ next[q].group = row[q].group /\ next[q].pid = row[q].pid
                                /\ next[q].version = row[q].version /\ next[q].young = row[q].young
                                /\ q # r => next[q] = row[q]
             /\ next[r].state \in Active /\ Carried(next, r, w)
             /\ next[r].state = "stopping" => next[r].automatic = TRUE
  <2>1. s \in Active \cup Terminal
    OBVIOUS
  <2>2. /\ next \in [Runs -> Row] /\ \A q \in Runs : q # r => next[q] = row[q]
        /\ next[r].group = row[r].group /\ next[r].pid = row[r].pid
        /\ next[r].version = row[r].version /\ next[r].young = row[r].young
    BY <1>1, <2>1, ResultRows
  <2>3. next[r].state = s /\ next[r].stopRequested = v.stopRequested
    BY <1>1, <2>1, ResultRows
  <2>4. next[r].automatic = v.automatic
    BY <1>1, <2>1, ResultRows
  <2> QED BY <1>1, <2>2, <2>3, <2>4 DEF Carried
<1>2. CASE \E old \in BOOLEAN : next = Unanswered(r, w, old)
  <2>1. PICK old \in BOOLEAN : next = Unanswered(r, w, old)
    BY <1>2
  <2>2. CASE w.group \in ModelGroups /\ worker[r].deadline
    <3>1. next = SetResult(r, "stopping", [w EXCEPT !.automatic = TRUE])
      BY <2>1, <2>2 DEF Unanswered
    <3>2. /\ [w EXCEPT !.automatic = TRUE] \in Row /\ [w EXCEPT !.automatic = TRUE].automatic = TRUE
          /\ [w EXCEPT !.automatic = TRUE].stopRequested = w.stopRequested
      BY DEF Row
    <3>3. "stopping" \in Active
      BY DEF Active
    <3> QED BY <1>1, <3>1, <3>2, <3>3
  <2>3. CASE ~(w.group \in ModelGroups /\ worker[r].deadline)
    <3> DEFINE s == IF w.state = "starting" /\ ~old THEN "starting" ELSE "unresponsive"
    <3>1. next = SetResult(r, s, w)
      BY <2>1, <2>3 DEF Unanswered
    <3>2. s \in Active /\ s # "stopping"
      BY DEF Active
    <3> HIDE DEF s
    <3> QED BY <1>1, <3>1, <3>2
  <2> QED BY <2>2, <2>3
<1>3. CASE \E warm, ready \in Readiness : next = Answered(r, w, warm, ready)
  <2>1. PICK warm \in Readiness, ready \in Readiness : next = Answered(r, w, warm, ready)
    BY <1>3
  <2> DEFINE s == AnsweredState(r, w, warm, ready)
             v == [w EXCEPT !.errorObserved = @ \/ s = "error"]
  <2>2. s \in Active /\ s # "stopping"
    <3>1. Shown[worker[r].trading] \in Active \ {"stopping"}
      BY Constants DEF TypeOK
    <3> QED BY <3>1 DEF AnsweredState, Active
  <2>3. next = SetResult(r, s, v)
    BY <2>1 DEF Answered
  <2> HIDE DEF s
  <2>4. v \in Row /\ v.stopRequested = w.stopRequested
    BY DEF Row
  <2> HIDE DEF v
  <2> QED BY <1>1, <2>2, <2>3, <2>4
<1>4. \/ \E old \in BOOLEAN : next = Unanswered(r, w, old)
      \/ \E warm, ready \in Readiness : next = Answered(r, w, warm, ready)
  BY DEF StatusReplies
<1> QED BY <1>2, <1>3, <1>4

\* What run_status writes without asking the engine.
LEMMA SettledRows ==
    ASSUME TypeOK, NEW r \in Runs
    PROVE  /\ SettledState(r) \in Active \cup Terminal \cup {"none"}
           /\ SettledState(r) = "none" <=> row[r].state = "none"
           /\ SettledState(r) # row[r].state => /\ SettledState(r) = "interrupted" /\ row[r].state \in Active
                                                /\ ~Owned(r, row[r]) /\ ~Spawning(row[r])
           /\ SetState(r, SettledState(r)) \in [Runs -> Row]
           /\ \A q \in Runs : q # r => SetState(r, SettledState(r))[q] = row[q]
           /\ LET n == SetState(r, SettledState(r))[r]
              IN  /\ n.state = SettledState(r) /\ n.group = row[r].group /\ n.pid = row[r].pid
                  /\ n.version = row[r].version /\ n.young = row[r].young
                  /\ n.stopRequested = row[r].stopRequested /\ n.automatic = row[r].automatic
<1>1. row \in [Runs -> Row] /\ row[r] \in Row
  BY DEF TypeOK
<1>2. row[r].state \in Active \cup Terminal \cup {"none"} /\ "interrupted" \in Terminal
  BY <1>1 DEF Row, Terminal
<1>3. /\ SettledState(r) \in Active \cup Terminal \cup {"none"}
      /\ SettledState(r) = "none" <=> row[r].state = "none"
      /\ SettledState(r) # row[r].state => /\ SettledState(r) = "interrupted" /\ row[r].state \in Active
                                           /\ ~Owned(r, row[r]) /\ ~Spawning(row[r])
  BY <1>2, Constants DEF SettledState
<1> HIDE DEF SettledState
<1> QED BY <1>1, <1>3 DEF SetState, Row

Execution == [pc : {"idle", "check", "await", "preview", "spawn", "control", "reply", "reload"},
              action : Controls \cup {"none", "start", "stop"}, run : Runs \cup {"none"},
              group : Groups \cup {"none"}, todo : SUBSET Runs, row : Row]

\* What prepare goes on to do after a look at r: nothing, if it refuses; otherwise it looks at
\* the next run, or is done.
LEMMA ConcludedCases ==
    ASSUME TypeOK, NEW r \in Runs, NEW t
    PROVE  LET c == Concluded(r, t)
           IN  /\ c \in Execution
               /\ \/ c = Free
                  \/ /\ Admits(r, t[r].state)
                     /\ c.action = ex.action /\ c.group = ex.group /\ c.run = ex.run
                     /\ c.todo = ex.todo \ {r} /\ c.row = NoRow
                     /\ \/ ex.todo # {r} /\ c.pc = "check"
                        \/ ex.todo = {r} /\ ex.action = "start" /\ c.pc = "preview"
                        \/ ex.todo = {r} /\ ex.action # "start" /\ c.pc = "control"
<1>1. ex \in Execution /\ NoRow \in Row
  BY Constants DEF TypeOK, Execution
<1>2. Free \in Execution
  BY <1>1 DEF Free, Execution
<1>3. CASE Concluded(r, t) = Free
  BY <1>2, <1>3
<1>4. CASE Concluded(r, t) # Free
  <2> DEFINE p == IF ex.todo # {r} THEN "check" ELSE IF ex.action = "start" THEN "preview" ELSE "control"
             c == [ex EXCEPT !.todo = @ \ {r}, !.row = NoRow, !.pc = p]
  <2>1. Admits(r, t[r].state) /\ Concluded(r, t) = c
    BY <1>4 DEF Concluded
  <2>2. /\ c \in Execution /\ c.action = ex.action /\ c.group = ex.group /\ c.run = ex.run
        /\ c.todo = ex.todo \ {r} /\ c.row = NoRow /\ c.pc = p
    BY <1>1 DEF Execution
  <2> QED BY <2>1, <2>2
<1> QED BY <1>3, <1>4

\* A run that has been looked at is not active if a start goes on.
LEMMA AdmitsStart ==
    ASSUME NEW r \in Runs, NEW s, ex.action = "start", Admits(r, s)
    PROVE  s \notin Active
BY DEF Admits

\* The state of a row, and the flags of its process, are written one at a time.
LEMMA RowTypes ==
    ASSUME TypeOK, NEW r \in Runs
    PROVE  /\ \A s \in Active \cup Terminal \cup {"none"} : SetState(r, s) \in [Runs -> Row]
           /\ [row EXCEPT ![r].pid = TRUE] \in [Runs -> Row]
           /\ [row EXCEPT ![r].young = FALSE] \in [Runs -> Row]
           /\ Verdict(r) \in Terminal
<1>1. row \in [Runs -> Row]
  BY DEF TypeOK
<1>2. Verdict(r) \in Terminal
  BY DEF Verdict, Terminal
<1>3. row[r] \in Row
  BY <1>1
<1>4. \A s \in Active \cup Terminal \cup {"none"} : [row[r] EXCEPT !.state = s] \in Row
  BY <1>3 DEF Row
<1>5. [row[r] EXCEPT !.pid = TRUE] \in Row /\ [row[r] EXCEPT !.young = FALSE] \in Row
  BY <1>3 DEF Row
<1>6. /\ \A s : SetState(r, s) = [row EXCEPT ![r] = [row[r] EXCEPT !.state = s]]
      /\ [row EXCEPT ![r].pid = TRUE] = [row EXCEPT ![r] = [row[r] EXCEPT !.pid = TRUE]]
      /\ [row EXCEPT ![r].young = FALSE] = [row EXCEPT ![r] = [row[r] EXCEPT !.young = FALSE]]
  BY DEF SetState
<1>7. \A w \in Row : [row EXCEPT ![r] = w] \in [Runs -> Row]
  BY <1>1
<1> QED BY <1>2, <1>4, <1>5, <1>6, <1>7

\* What a worker and a status request are.
WorkerRecord == [trading : TradingStates, flattened : BOOLEAN, signalled : BOOLEAN, deadline : BOOLEAN,
                 exit : Exits \cup {"none"}]
PollRecord == [pc : {"idle", "await"}, run : Runs \cup {"none"}, row : Row]

\* What is written to a worker keeps its type.
LEMMA WorkerTypes ==
    ASSUME NEW w \in WorkerRecord
    PROVE  /\ \A t \in TradingStates, b \in BOOLEAN : [w EXCEPT !.trading = t, !.flattened = b] \in WorkerRecord
           /\ \A t \in TradingStates : [w EXCEPT !.trading = t] \in WorkerRecord
           /\ [w EXCEPT !.deadline = TRUE] \in WorkerRecord /\ [w EXCEPT !.signalled = TRUE] \in WorkerRecord
           /\ \A how \in Exits : [w EXCEPT !.exit = how] \in WorkerRecord
BY DEF WorkerRecord

\* A stop changes the rows and the workers of the runs it is for, and says so.
LEMMA StopRows ==
    ASSUME TypeOK, NEW rs \in SUBSET Runs, StopRuns(rs)
    PROVE  /\ row' \in [Runs -> Row] /\ worker' \in [Runs -> WorkerRecord] /\ stopped' = stopped \cup rs
           /\ \A q \in Runs \ rs : row'[q] = row[q] /\ worker'[q] = worker[q]
           /\ \A q \in rs : /\ row'[q].state = "stopping" /\ row'[q].group = row[q].group
                             /\ row'[q].pid = row[q].pid /\ row'[q].version = row[q].version
                             /\ row'[q].young = row[q].young
           /\ \A q \in Runs : /\ worker'[q].deadline = worker[q].deadline
                               /\ worker'[q].exit = worker[q].exit
<1>1. row \in [Runs -> Row] /\ worker \in [Runs -> WorkerRecord]
  BY DEF TypeOK, WorkerRecord
<1> DEFINE Stopping(w) == [w EXCEPT !.state = "stopping", !.stopRequested = TRUE]
           Signalled(w) == [w EXCEPT !.signalled = TRUE]
<1>2. \A w \in Row : /\ Stopping(w) \in Row
                     /\ Stopping(w).state = "stopping" /\ Stopping(w).group = w.group
                     /\ Stopping(w).pid = w.pid /\ Stopping(w).version = w.version
                     /\ Stopping(w).young = w.young
  BY DEF Row, Active
<1>3. \A w \in WorkerRecord : /\ Signalled(w) \in WorkerRecord
                              /\ Signalled(w).deadline = w.deadline /\ Signalled(w).exit = w.exit
  BY DEF WorkerRecord
<1>4. /\ row' = [r \in Runs |-> IF r \in rs THEN Stopping(row[r]) ELSE row[r]]
      /\ worker' = [r \in Runs |-> IF r \in rs THEN Signalled(worker[r]) ELSE worker[r]]
      /\ stopped' = stopped \cup rs
  BY DEF StopRuns
<1> HIDE DEF Stopping, Signalled
<1>5. \A q \in Runs : row'[q] = IF q \in rs THEN Stopping(row[q]) ELSE row[q]
  BY <1>4
<1>6. \A q \in Runs : worker'[q] = IF q \in rs THEN Signalled(worker[q]) ELSE worker[q]
  BY <1>4
<1>7. \A q \in Runs : row'[q] \in Row
  BY <1>1, <1>2, <1>5
<1>8. \A q \in Runs : worker'[q] \in WorkerRecord
  BY <1>1, <1>3, <1>6
<1>9. row' \in [Runs -> Row] /\ worker' \in [Runs -> WorkerRecord]
  BY <1>4, <1>7, <1>8
<1>10. \A q \in rs : /\ row'[q].state = "stopping" /\ row'[q].group = row[q].group
                     /\ row'[q].pid = row[q].pid /\ row'[q].version = row[q].version
                     /\ row'[q].young = row[q].young
  BY <1>1, <1>2, <1>5
<1>11. \A q \in Runs : worker'[q].deadline = worker[q].deadline /\ worker'[q].exit = worker[q].exit
  BY <1>1, <1>3, <1>6
<1>12. \A q \in Runs \ rs : row'[q] = row[q] /\ worker'[q] = worker[q]
  BY <1>5, <1>6
<1> QED BY <1>4, <1>9, <1>10, <1>11, <1>12

\* Types are kept.
LEMMA TypeStep == TypeOK /\ Placed /\ InOrder /\ [Next]_vars => TypeOK'
<1> SUFFICES ASSUME TypeOK, Placed, InOrder, [Next]_vars PROVE TypeOK'
  OBVIOUS
<1> USE SupervisorAssumption, Constants DEF TypeOK, Placed, InOrder, Free
<1>1. CASE UNCHANGED vars
  BY <1>1 DEF vars
<1>2. ASSUME NEW p \in Pollers, NEW r \in Runs, PollBegin(p, r) PROVE TypeOK'
  <2>1. row[r] \in Row /\ poll \in [Pollers -> PollRecord]
    BY DEF PollRecord
  <2>2. [pc |-> "await", run |-> r, row |-> row[r]] \in PollRecord
    BY <2>1 DEF PollRecord
  <2>3. row' \in [Runs -> Row] /\ poll' \in [Pollers -> PollRecord]
    <3>1. CASE Asks(r)
      BY <1>2, <2>1, <2>2, <3>1 DEF PollBegin
    <3>2. CASE ~Asks(r)
      BY <1>2, <2>1, <3>2, SettledRows DEF PollBegin
    <3> QED BY <3>1, <3>2
  <2> QED BY <1>2, <2>3 DEF PollBegin, PollRecord
<1>3. ASSUME NEW p \in Pollers, PollEnd(p) PROVE TypeOK'
  BY <1>3, ReplyRows DEF PollEnd, Idle
<1>4. ASSUME NEW g \in Groups, StartBegin(g) PROVE TypeOK'
  BY <1>4 DEF StartBegin
<1>5. ASSUME NEW a \in Offered, NEW r \in Runs, ControlBegin(a, r) PROVE TypeOK'
  <2>1. row[r].group \in Groups /\ a \in Controls \cup {"stop"}
    BY <1>5 DEF ControlBegin, Controls
  <2>2. /\ ex' = [Free EXCEPT !.pc = "check", !.action = a, !.run = r,
                              !.group = row[r].group, !.todo = {r}]
        /\ UNCHANGED <<row, proc, worker, watch, poll, version, mode, restarts, stopped>>
    BY <1>5 DEF ControlBegin
  <2>3. ex' \in Execution
    <3> HIDE DEF TypeOK, Placed, InOrder
    <3> QED BY <2>1, <2>2 DEF Execution
  <2> QED BY <2>2, <2>3 DEF Execution
<1>6. ASSUME NEW r \in Runs, CheckBegin(r) PROVE TypeOK'
  <2>1. row[r] \in Row /\ ex \in Execution
    BY DEF Execution
  <2>2. CASE Asks(r)
    <3>1. /\ ex' = [ex EXCEPT !.pc = "await", !.run = r, !.row = row[r]]
          /\ UNCHANGED <<row, proc, worker, watch, poll, version, mode, restarts, stopped>>
      BY <1>6, <2>2 DEF CheckBegin
    <3>2. [ex EXCEPT !.pc = "await", !.run = r, !.row = row[r]] \in Execution
      BY <2>1 DEF Execution
    <3>3. ex' \in Execution
      BY <3>1, <3>2
    <3> QED BY <3>1, <3>3 DEF Execution
  <2>3. CASE ~Asks(r)
    <3>1. row' \in [Runs -> Row] /\ ex' \in Execution
      BY <1>6, <2>3, SettledRows, ConcludedCases DEF CheckBegin
    <3> QED BY <1>6, <3>1 DEF CheckBegin, Execution
  <2> QED BY <2>2, <2>3
<1>7. CASE CheckEnd
  <2>1. ex.run \in Runs /\ ex.row \in Row
    BY <1>7 DEF CheckEnd
  <2>2. row' \in [Runs -> Row] /\ ex' \in Execution
    <3>1. PICK next \in StatusReplies(ex.run, ex.row) : row' = next /\ ex' = Concluded(ex.run, next)
      BY <1>7 DEF CheckEnd
    <3> HIDE DEF TypeOK, Placed, InOrder
    <3>2. next \in [Runs -> Row]
      BY <2>1, ReplyRows
    <3>3. Concluded(ex.run, next) \in Execution
      BY <2>1, ConcludedCases
    <3> QED BY <3>1, <3>2, <3>3
  <2> QED BY <1>7, <2>2 DEF CheckEnd, Execution
<1>8. CASE CheckNothing
  BY <1>8 DEF CheckNothing
<1>9. ASSUME NEW r \in Runs, Launch(r) PROVE TypeOK'
  BY <1>9 DEF Launch, Row, Active
<1>10. CASE LaunchRefused
  BY <1>10 DEF LaunchRefused
<1>11. CASE Spawn
  BY <1>11 DEF Spawn
<1>12. CASE SpawnRecorded
  BY <1>12, RowTypes DEF SpawnRecorded
<1>13. CASE SpawnFailed
  <2>1. "failed" \in Terminal /\ ex.run \in Runs
    BY <1>13 DEF SpawnFailed, Terminal
  <2>2. row' \in [Runs -> Row]
    BY <1>13, <2>1, ResultRows DEF SpawnFailed
  <2> QED BY <1>13, <2>1, <2>2 DEF SpawnFailed
<1>14. CASE ControlStop
  <2>1. ex.run \in Runs /\ StopRuns({ex.run})
    BY <1>14 DEF ControlStop
  <2>2. row' \in [Runs -> Row] /\ worker' \in [Runs -> WorkerRecord] /\ stopped' \subseteq Runs
    BY <2>1, StopRows
  <2> QED BY <1>14, <2>2 DEF ControlStop, WorkerRecord
<1>15. CASE ControlApplied
  <2>1. worker \in [Runs -> WorkerRecord] /\ ex.run \in Runs /\ ex.action \in Controls
    BY <1>15 DEF ControlApplied, WorkerRecord
  <2> DEFINE t == Requested[ex.action]
             b == worker[ex.run].flattened \/ ex.action = "flatten"
  <2>2. t \in TradingStates /\ b \in BOOLEAN
    BY <2>1, Constants
  <2>3. worker' = [worker EXCEPT ![ex.run].trading = t, ![ex.run].flattened = b]
    BY <1>15 DEF ControlApplied
  <2> HIDE DEF t, b
  <2>4. [worker EXCEPT ![ex.run].trading = t, ![ex.run].flattened = b] \in [Runs -> WorkerRecord]
    <3> HIDE DEF TypeOK, Placed, InOrder, InOrder, Free
    <3> QED BY <2>1, <2>2 DEF WorkerRecord
  <2>5. worker' \in [Runs -> WorkerRecord]
    BY <2>3, <2>4
  <2>6. /\ ex' = [ex EXCEPT !.pc = "reply"]
        /\ UNCHANGED <<row, proc, watch, poll, version, mode, restarts, stopped>>
    BY <1>15 DEF ControlApplied
  <2>7. ex' \in Execution
    <3>1. ex \in Execution
      BY DEF Execution
    <3> HIDE DEF TypeOK, Placed, InOrder
    <3> QED BY <2>6, <3>1 DEF Execution
  <2> QED BY <2>5, <2>6, <2>7 DEF WorkerRecord, Execution
<1>16. CASE ControlReply
  BY <1>16, RowTypes DEF ControlReply
<1>17. CASE ControlLost
  BY <1>17 DEF ControlLost
<1>18. CASE ReloadBegin
  BY <1>18 DEF ReloadBegin
<1>19. CASE ReloadEnd
  BY <1>19 DEF ReloadEnd
<1>20. ASSUME NEW r \in Runs, NEW t \in TradingStates, WorkerMoves(r, t) PROVE TypeOK'
  BY <1>20 DEF WorkerMoves
<1>21. ASSUME NEW r \in Runs, DeadlinePasses(r) PROVE TypeOK'
  <2>1. worker \in [Runs -> WorkerRecord]
    BY DEF WorkerRecord
  <2>2. [worker[r] EXCEPT !.deadline = TRUE] \in WorkerRecord
    <3>1. worker[r] \in WorkerRecord
      BY <2>1
    <3> HIDE DEF TypeOK, Placed, InOrder
    <3> QED BY <3>1, WorkerTypes
  <2>3. worker' = [worker EXCEPT ![r] = [worker[r] EXCEPT !.deadline = TRUE]]
    BY <1>21 DEF DeadlinePasses
  <2>4. worker' \in [Runs -> WorkerRecord]
    BY <2>1, <2>2, <2>3
  <2> QED BY <1>21, <2>4 DEF DeadlinePasses, WorkerRecord
<1>22. ASSUME NEW r \in Runs, NEW how \in Exits, WorkerExits(r, how) PROVE TypeOK'
  BY <1>22 DEF WorkerExits
<1>23. ASSUME NEW r \in Runs, Watch(r) PROVE TypeOK'
  BY <1>23, RowTypes DEF Watch
<1>24. ASSUME NEW r \in Runs, Ages(r) PROVE TypeOK'
  BY <1>24, RowTypes DEF Ages
<1>25. CASE Shutdown
  BY <1>25 DEF Shutdown
<1>26. CASE ShutdownStops
  <2> DEFINE rs == {r \in Runs : row[r].state \in Active /\ Owned(r, row[r])}
  <2>1. rs \in SUBSET Runs /\ StopRuns(rs)
    BY <1>26 DEF ShutdownStops
  <2> HIDE DEF rs
  <2>2. row' \in [Runs -> Row] /\ worker' \in [Runs -> WorkerRecord] /\ stopped' \subseteq Runs
    BY <2>1, StopRows
  <2> QED BY <1>26, <2>2 DEF ShutdownStops, WorkerRecord
<1>27. CASE ServiceEnds
  <2>1. worker \in [Runs -> WorkerRecord] /\ "crash" \in Exits
    BY DEF WorkerRecord, Exits
  <2>2. \A r \in Runs : [worker[r] EXCEPT !.exit = "crash"] \in WorkerRecord
    BY <2>1 DEF WorkerRecord
  <2>3. worker' \in [Runs -> WorkerRecord]
    BY <1>27, <2>1, <2>2 DEF ServiceEnds
  <2>4. poll' \in [Pollers -> PollRecord]
    BY <1>27 DEF ServiceEnds, PollRecord, Idle
  <2> QED BY <1>27, <2>3, <2>4 DEF ServiceEnds, WorkerRecord, PollRecord
<1> QED
  BY <1>1, <1>2, <1>3, <1>4, <1>5, <1>6, <1>7, <1>8, <1>9, <1>10, <1>11, <1>12, <1>13,
     <1>14, <1>15, <1>16, <1>17, <1>18, <1>19, <1>20, <1>21, <1>22, <1>23, <1>24, <1>25,
     <1>26, <1>27
  DEF Next, PollNext, ExecuteNext, RequestNext, WorkerNext

-----------------------------------------------------------------------------
(* What the actions do.                                                    *)

\* What stays of a row whatever is written to it later.
Kept(q) == /\ row'[q].group = row[q].group /\ row'[q].pid = row[q].pid
           /\ row'[q].version = row[q].version /\ row'[q].young = row[q].young
           /\ row'[q].state = "none" <=> row[q].state = "none"

\* A look at the table without asking an engine interrupts at most runs that lost their process.
LEMMA LookRows ==
    ASSUME TypeOK, NEW r \in Runs, row' = row \/ row' = SetState(r, SettledState(r))
    PROVE  /\ \A q \in Runs : /\ Kept(q) /\ row'[q].stopRequested = row[q].stopRequested
                              /\ row'[q].automatic = row[q].automatic
                              /\ row'[q].state # row[q].state =>
                                    /\ row'[q].state = "interrupted" /\ row[q].state \in Active
                                    /\ ~Owned(q, row[q]) /\ ~Spawning(row[q])
           /\ row' # row => row'[r].state = SettledState(r)
<1>1. CASE row' = row
  BY <1>1 DEF Kept
<1>2. CASE row' = SetState(r, SettledState(r))
  <2>1. ASSUME NEW q \in Runs, q # r
        PROVE  /\ Kept(q) /\ row'[q].stopRequested = row[q].stopRequested
               /\ row'[q].automatic = row[q].automatic /\ row'[q].state = row[q].state
    BY <1>2, <2>1, SettledRows DEF Kept
  <2>2. /\ row'[r].state = SettledState(r) /\ Kept(r)
        /\ row'[r].stopRequested = row[r].stopRequested /\ row'[r].automatic = row[r].automatic
    BY <1>2, SettledRows DEF Kept
  <2> QED BY <2>1, <2>2, SettledRows
<1> QED BY <1>1, <1>2

\* A reply makes the row it is about active again.
LEMMA ReplyWrites ==
    ASSUME TypeOK, NEW r \in Runs, NEW w \in Row, row' \in StatusReplies(r, w), row[r].state # "none"
    PROVE  /\ \A q \in Runs : Kept(q) /\ (q # r => row'[q] = row[q])
           /\ row'[r].state \in Active /\ row'[r].stopRequested = w.stopRequested
           /\ row'[r].state = "stopping" => row'[r].automatic = TRUE
<1>1. /\ \A q \in Runs : /\ row'[q].group = row[q].group /\ row'[q].pid = row[q].pid
                         /\ row'[q].version = row[q].version /\ row'[q].young = row[q].young
                         /\ q # r => row'[q] = row[q]
      /\ row'[r].state \in Active /\ row'[r].stopRequested = w.stopRequested
      /\ row'[r].state = "stopping" => row'[r].automatic = TRUE
  <2>1. \A q \in Runs : /\ row'[q].group = row[q].group /\ row'[q].pid = row[q].pid
                        /\ row'[q].version = row[q].version /\ row'[q].young = row[q].young
                        /\ q # r => row'[q] = row[q]
    BY ReplyRows, Zenon
  <2>2. row'[r].state \in Active
    BY ReplyRows, Zenon
  <2>3. row'[r].stopRequested = w.stopRequested
    <3>1. Carried(row', r, w)
      BY ReplyRows, Zenon
    <3> QED BY <3>1 DEF Carried
  <2>4. row'[r].state = "stopping" => row'[r].automatic = TRUE
    BY ReplyRows, Zenon
  <2> QED BY <2>1, <2>2, <2>3, <2>4, Zenon
<1>2. row'[r].state # "none"
  BY <1>1, Constants
<1> QED BY <1>1, <1>2 DEF Kept

\* A look that needs no answer goes on only with a run that is not active, if it is for a start.
LEMMA CheckBeginCases ==
    ASSUME TypeOK, NEW r \in Runs, CheckBegin(r)
    PROVE  /\ row' = row \/ row' = SetState(r, SettledState(r))
           /\ \/ ex' = Free
              \/ /\ Asks(r) /\ row' = row /\ ex'.pc = "await" /\ ex'.run = r /\ ex'.row = row[r]
                 /\ ex'.todo = ex.todo /\ ex'.action = ex.action /\ ex'.group = ex.group
              \/ /\ ex.action = "start" => row'[r].state \notin Active
                 /\ ex'.action = ex.action /\ ex'.group = ex.group
                 /\ ex'.run = ex.run /\ ex'.todo = ex.todo \ {r} /\ ex'.row = NoRow
                 /\ \/ ex'.todo # {} /\ ex'.pc = "check"
                    \/ ex'.todo = {} /\ ex.action = "start" /\ ex'.pc = "preview"
                    \/ ex'.todo = {} /\ ex.action # "start" /\ ex'.pc = "control"
<1>1. ex \in Execution /\ r \in ex.todo
  BY DEF CheckBegin, TypeOK, Execution
<1>2. CASE Asks(r)
  <2>1. row' = row /\ ex' = [ex EXCEPT !.pc = "await", !.run = r, !.row = row[r]]
    BY <1>2 DEF CheckBegin
  <2>2. /\ ex'.pc = "await" /\ ex'.run = r /\ ex'.row = row[r]
        /\ ex'.todo = ex.todo /\ ex'.action = ex.action /\ ex'.group = ex.group
    BY <1>1, <2>1 DEF Execution
  <2> QED BY <1>2, <2>1, <2>2
<1>3. CASE ~Asks(r)
  <2>1. row' = SetState(r, SettledState(r)) /\ ex' = Concluded(r, row')
    BY <1>3 DEF CheckBegin
  <2>2. CASE ex' = Free
    BY <2>1, <2>2
  <2>3. CASE ex' # Free
    <3>1. /\ Admits(r, row'[r].state)
          /\ ex'.action = ex.action /\ ex'.group = ex.group /\ ex'.run = ex.run
          /\ ex'.todo = ex.todo \ {r} /\ ex'.row = NoRow
          /\ \/ ex.todo # {r} /\ ex'.pc = "check"
             \/ ex.todo = {r} /\ ex.action = "start" /\ ex'.pc = "preview"
             \/ ex.todo = {r} /\ ex.action # "start" /\ ex'.pc = "control"
      BY <2>1, <2>3, ConcludedCases
    <3>2. ex.action = "start" => row'[r].state \notin Active
      BY <3>1, AdmitsStart
    <3>3. ex.todo # {r} => ex.todo \ {r} # {}
      BY <1>1
    <3> QED BY <2>1, <3>1, <3>2, <3>3
  <2> QED BY <2>2, <2>3
<1> QED BY <1>2, <1>3

\* A new state, or a new result, and nothing else.
LEMMA StateRows ==
    ASSUME TypeOK, NEW r \in Runs, NEW s, row' = SetState(r, s), s # "none", row[r].state # "none"
    PROVE  /\ \A q \in Runs : /\ Kept(q) /\ (q # r => row'[q] = row[q])
                              /\ row'[q].stopRequested = row[q].stopRequested
                              /\ row'[q].automatic = row[q].automatic
           /\ row'[r].state = s
BY DEF TypeOK, SetState, Row, Kept

\* Which runs are stopped.
LEMMA ControlStopRows ==
    ASSUME InOrder, ControlStop
    PROVE  ex.run \in Runs /\ row[ex.run].pid = TRUE /\ StopRuns({ex.run})
BY DEF ControlStop, InOrder, Owned

\* ... and by the shutdown: runs whose process is recorded.
LEMMA ShutdownRows ==
    ASSUME ShutdownStops
    PROVE  \E rs \in SUBSET Runs : StopRuns(rs) /\ \A r \in rs : row[r].pid = TRUE /\ row[r].state \in Active
<1> DEFINE rs == {r \in Runs : row[r].state \in Active /\ Owned(r, row[r])}
<1>1. rs \in SUBSET Runs /\ StopRuns(rs) /\ \A r \in rs : row[r].pid = TRUE /\ row[r].state \in Active
  BY DEF ShutdownStops, Owned
<1> QED BY <1>1

\* A status request writes what needs no answer, or keeps the row of a run whose process it owns.
LEMMA PollBeginDoes ==
    ASSUME TypeOK, NEW p \in Pollers, NEW r \in Runs, PollBegin(p, r)
    PROVE  /\ \A q \in Runs : /\ Kept(q) /\ row'[q].stopRequested = row[q].stopRequested
                              /\ row'[q].automatic = row[q].automatic
                              /\ row'[q].state # row[q].state =>
                                    /\ row'[q].state = "interrupted" /\ row[q].state \in Active
                                    /\ ~Owned(q, row[q]) /\ ~Spawning(row[q])
           /\ \/ poll' = poll
              \/ /\ Asks(r) /\ row' = row /\ \A o \in Pollers \ {p} : poll'[o] = poll[o]
                 /\ poll'[p].pc = "await" /\ poll'[p].run = r /\ poll'[p].row = row[r]
           /\ UNCHANGED <<proc, worker, watch, ex, version, stopped>>
BY LookRows DEF PollBegin, TypeOK

\* ... and writes the answer to the row it asked about.
LEMMA PollEndDoes ==
    ASSUME TypeOK, Placed, NEW p \in Pollers, PollEnd(p)
    PROVE  /\ poll[p].run \in Runs /\ \A q \in Runs : Kept(q) /\ (q # poll[p].run => row'[q] = row[q])
           /\ row'[poll[p].run].state \in Active
           /\ row'[poll[p].run].stopRequested = poll[p].row.stopRequested
           /\ row'[poll[p].run].state = "stopping" => row'[poll[p].run].automatic = TRUE
           /\ \A o \in Pollers : o # p => poll'[o] = poll[o]
           /\ poll'[p].pc = "idle" /\ poll'[p].row = NoRow
           /\ UNCHANGED <<proc, worker, watch, ex, version, stopped>>
<1>1. poll[p].run \in Runs /\ row[poll[p].run].state # "none" /\ poll[p].row \in Row
  BY DEF PollEnd, Placed, TypeOK
<1>2. row' \in StatusReplies(poll[p].run, poll[p].row)
  BY DEF PollEnd
<1>3. /\ \A q \in Runs : Kept(q) /\ (q # poll[p].run => row'[q] = row[q])
      /\ row'[poll[p].run].state \in Active
      /\ row'[poll[p].run].stopRequested = poll[p].row.stopRequested
      /\ row'[poll[p].run].state = "stopping" => row'[poll[p].run].automatic = TRUE
  BY <1>1, <1>2, ReplyWrites
<1>4. /\ \A o \in Pollers : o # p => poll'[o] = poll[o]
      /\ poll'[p].pc = "idle" /\ poll'[p].row = NoRow
      /\ UNCHANGED <<proc, worker, watch, ex, version, stopped>>
  BY DEF PollEnd, Idle, TypeOK
<1> QED BY <1>1, <1>3, <1>4

\* A start takes the lock.
LEMMA StartBeginDoes ==
    ASSUME TypeOK, NEW g \in Groups, StartBegin(g)
    PROVE  /\ ex.pc = "idle" /\ HasCapacity(g) /\ ex'.pc = "check" /\ ex'.action = "start" /\ ex'.group = g
           /\ ex'.todo = {r \in Runs : row[r].group \in Conflicting(g)} /\ ex'.row = NoRow /\ ex'.run = "none"
           /\ UNCHANGED <<row, proc, worker, watch, poll, version, stopped>>
BY DEF StartBegin, Free

\* Any other operation takes it for one run.
LEMMA ControlBeginDoes ==
    ASSUME TypeOK, NEW a \in Offered, NEW r \in Runs, ControlBegin(a, r)
    PROVE  /\ ex.pc = "idle" /\ ex'.pc = "check" /\ ex'.action = a /\ ex'.group = row[r].group
           /\ ex'.todo = {r} /\ ex'.run = r /\ ex'.row = NoRow
           /\ row[r].state # "none" /\ a # "start" /\ a \in Controls \cup {"stop"}
           /\ UNCHANGED <<row, proc, worker, watch, poll, version, stopped>>
BY SupervisorAssumption DEF ControlBegin, Free, Controls

\* prepare looks at a run.
LEMMA CheckBeginDoes ==
    ASSUME TypeOK, NEW r \in Runs, CheckBegin(r)
    PROVE  /\ \/ ex' = Free
              \/ /\ Asks(r) /\ row' = row /\ ex'.pc = "await" /\ ex'.run = r /\ ex'.row = row[r]
                 /\ ex'.todo = ex.todo /\ ex'.action = ex.action /\ ex'.group = ex.group
              \/ /\ ex.action = "start" => row'[r].state \notin Active
                 /\ ex'.action = ex.action /\ ex'.group = ex.group
                 /\ ex'.run = ex.run /\ ex'.todo = ex.todo \ {r} /\ ex'.row = NoRow
                 /\ \/ ex'.todo # {} /\ ex'.pc = "check"
                    \/ ex'.todo = {} /\ ex.action = "start" /\ ex'.pc = "preview"
                    \/ ex'.todo = {} /\ ex.action # "start" /\ ex'.pc = "control"
           /\ \A q \in Runs : /\ Kept(q) /\ row'[q].stopRequested = row[q].stopRequested
                              /\ row'[q].automatic = row[q].automatic
                              /\ row'[q].state # row[q].state =>
                                    /\ row'[q].state = "interrupted" /\ row[q].state \in Active
                                    /\ ~Owned(q, row[q]) /\ ~Spawning(row[q])
           /\ ex.pc = "check" /\ r \in ex.todo /\ UNCHANGED <<proc, worker, watch, poll, version, stopped>>
BY CheckBeginCases, LookRows DEF CheckBegin

\* ... and goes on with the answer.
LEMMA CheckEndDoes ==
    ASSUME TypeOK, Placed, CheckEnd
    PROVE  /\ ex.run \in Runs /\ \A q \in Runs : Kept(q) /\ (q # ex.run => row'[q] = row[q])
           /\ row'[ex.run].state \in Active /\ row'[ex.run].stopRequested = ex.row.stopRequested
           /\ row'[ex.run].state = "stopping" => row'[ex.run].automatic = TRUE
           /\ \/ ex' = Free
              \/ /\ ex.action # "start" /\ ex'.action = ex.action /\ ex'.group = ex.group
                 /\ ex'.run = ex.run /\ ex'.todo = ex.todo \ {ex.run} /\ ex'.row = NoRow
                 /\ \/ ex'.todo # {} /\ ex'.pc = "check"
                    \/ ex'.todo = {} /\ ex'.pc = "control"
           /\ ex.pc = "await" /\ UNCHANGED <<proc, worker, watch, poll, version, stopped>>
<1>1. ex.run \in Runs /\ row[ex.run].state # "none" /\ ex.row \in Row /\ ex.run \in ex.todo
  BY DEF CheckEnd, Placed, TypeOK
<1>2. row' \in StatusReplies(ex.run, ex.row) /\ ex' = Concluded(ex.run, row')
  BY DEF CheckEnd
<1>3. /\ \A q \in Runs : Kept(q) /\ (q # ex.run => row'[q] = row[q])
      /\ row'[ex.run].state \in Active /\ row'[ex.run].stopRequested = ex.row.stopRequested
      /\ row'[ex.run].state = "stopping" => row'[ex.run].automatic = TRUE
  BY <1>1, <1>2, ReplyWrites
<1>4. ASSUME ex' # Free
      PROVE  /\ ex.action # "start" /\ ex'.action = ex.action /\ ex'.group = ex.group
             /\ ex'.run = ex.run /\ ex'.todo = ex.todo \ {ex.run} /\ ex'.row = NoRow
             /\ \/ ex'.todo # {} /\ ex'.pc = "check"
                \/ ex'.todo = {} /\ ex'.pc = "control"
  <2>1. /\ Admits(ex.run, row'[ex.run].state)
        /\ ex'.action = ex.action /\ ex'.group = ex.group /\ ex'.run = ex.run
        /\ ex'.todo = ex.todo \ {ex.run} /\ ex'.row = NoRow
        /\ \/ ex.todo # {ex.run} /\ ex'.pc = "check"
           \/ ex.todo = {ex.run} /\ ex.action = "start" /\ ex'.pc = "preview"
           \/ ex.todo = {ex.run} /\ ex.action # "start" /\ ex'.pc = "control"
    BY <1>1, <1>2, <1>4, ConcludedCases
  <2>2. ex.action # "start"
    BY <1>1, <1>3, <2>1, AdmitsStart
  <2> QED BY <1>1, <2>1, <2>2
<1>5. ex.pc = "await" /\ UNCHANGED <<proc, worker, watch, poll, version, stopped>>
  BY DEF CheckEnd
<1> QED BY <1>1, <1>3, <1>4, <1>5

\* ... or has none to look at.
LEMMA CheckNothingDoes ==
    ASSUME TypeOK, CheckNothing
    PROVE  /\ ex.pc = "check" /\ ex.todo = {} /\ ex'.pc = "preview" /\ ex'.action = ex.action
           /\ ex'.group = ex.group /\ ex'.todo = ex.todo /\ ex'.run = ex.run /\ ex'.row = ex.row
           /\ UNCHANGED <<row, proc, worker, watch, poll, version, stopped>>
BY DEF CheckNothing, TypeOK

\* launch inserts a row of its own.
LEMMA LaunchDoes ==
    ASSUME TypeOK, NEW r \in Runs, Launch(r)
    PROVE  /\ \A q \in Runs : q # r => row'[q] = row[q]
           /\ row'[r].state = "starting" /\ row'[r].group = ex.group /\ row'[r].pid = FALSE
           /\ row'[r].version = version /\ row'[r].young = TRUE
           /\ row'[r].stopRequested = FALSE /\ row'[r].automatic = FALSE
           /\ ex'.pc = "spawn" /\ ex'.run = r /\ ex'.action = ex.action /\ ex'.group = ex.group
           /\ ex'.todo = ex.todo /\ ex'.row = ex.row
           /\ ex.pc = "preview" /\ row[r].state = "none" /\ "starting" # "none"
           /\ UNCHANGED <<proc, worker, watch, poll, version, stopped>>
<1>1. row' = [row EXCEPT ![r] = [NoRow EXCEPT !.state = "starting", !.group = ex.group, !.version = version]]
  BY DEF Launch
<1>2. row \in [Runs -> Row] /\ ex \in Execution
  BY DEF TypeOK, Execution
<1>3. /\ \A q \in Runs : q # r => row'[q] = row[q]
      /\ row'[r].state = "starting" /\ row'[r].group = ex.group /\ row'[r].pid = FALSE
      /\ row'[r].version = version /\ row'[r].young = TRUE
      /\ row'[r].stopRequested = FALSE /\ row'[r].automatic = FALSE
  BY <1>1, <1>2 DEF NoRow
<1>4. ex' = [ex EXCEPT !.pc = "spawn", !.run = r]
  BY DEF Launch
<1> QED BY <1>2, <1>3, <1>4 DEF Execution, Launch

\* ... and creates its process.
LEMMA SpawnDoes ==
    ASSUME TypeOK, InOrder, Spawn
    PROVE  /\ ex.pc = "spawn" /\ proc[ex.run] = "none" /\ ex.run \in Runs /\ proc'[ex.run] = "alive"
           /\ \A q \in Runs : q # ex.run => proc'[q] = proc[q]
           /\ UNCHANGED <<row, worker, watch, poll, ex, version, stopped>>
BY DEF Spawn, TypeOK, InOrder

\* ... which it records.
LEMMA SpawnRecordedDoes ==
    ASSUME TypeOK, InOrder, SpawnRecorded
    PROVE  /\ ex.run \in Runs /\ \A q \in Runs : q # ex.run => row'[q] = row[q]
           /\ row'[ex.run].pid = TRUE /\ row'[ex.run].state = row[ex.run].state
           /\ row'[ex.run].group = row[ex.run].group /\ row'[ex.run].version = row[ex.run].version
           /\ row'[ex.run].stopRequested = row[ex.run].stopRequested
           /\ row'[ex.run].automatic = row[ex.run].automatic
           /\ ex.pc = "spawn" /\ ex' = Free /\ \A q \in Runs : watch'[q] = IF q = ex.run THEN "waiting" ELSE watch[q]
           /\ UNCHANGED <<proc, worker, poll, version, stopped>>
<1>1. ex.run \in Runs /\ row' = [row EXCEPT ![ex.run].pid = TRUE] /\ row \in [Runs -> Row]
  BY DEF SpawnRecorded, InOrder, TypeOK
<1> QED BY <1>1 DEF Row, SpawnRecorded, TypeOK

\* ... or cannot.
LEMMA SpawnFailedDoes ==
    ASSUME TypeOK, InOrder, SpawnFailed
    PROVE  /\ ex.run \in Runs /\ \A q \in Runs : q # ex.run => row'[q] = row[q]
           /\ row'[ex.run].state = "failed" /\ row'[ex.run].pid = row[ex.run].pid
           /\ row'[ex.run].group = row[ex.run].group /\ row'[ex.run].version = row[ex.run].version
           /\ row'[ex.run].stopRequested = FALSE
           /\ ex.pc = "spawn" /\ ex' = Free /\ \A q \in Runs : proc'[q] = IF q = ex.run THEN "gone" ELSE proc[q]
           /\ proc[ex.run] # "alive" /\ UNCHANGED <<worker, watch, poll, version, stopped>>
<1>1. ex.run \in Runs /\ row' = SetResult(ex.run, "failed", NoRow) /\ NoRow \in Row
  BY Constants DEF SpawnFailed, InOrder
<1>2. "failed" \in Active \cup Terminal /\ NoRow.stopRequested = FALSE
  BY DEF Terminal, NoRow
<1>3. /\ \A q \in Runs : q # ex.run => row'[q] = row[q]
      /\ row'[ex.run].state = "failed" /\ row'[ex.run].pid = row[ex.run].pid
      /\ row'[ex.run].group = row[ex.run].group /\ row'[ex.run].version = row[ex.run].version
      /\ row'[ex.run].stopRequested = FALSE
  BY <1>1, <1>2, ResultRows
<1> QED BY <1>1, <1>3 DEF SpawnFailed, TypeOK

\* A stop changes the one row.
LEMMA ControlStopDoes ==
    ASSUME TypeOK, InOrder, ControlStop
    PROVE  /\ ex.run \in Runs /\ row[ex.run].pid = TRUE /\ StopRuns({ex.run})
           /\ stopped' = stopped \cup {ex.run}
           /\ \A q \in Runs : q # ex.run => row'[q] = row[q]
           /\ row'[ex.run].state = "stopping" /\ row'[ex.run].group = row[ex.run].group
           /\ row'[ex.run].pid = row[ex.run].pid /\ row'[ex.run].version = row[ex.run].version
           /\ row'[ex.run].young = row[ex.run].young
           /\ \A q \in Runs : worker'[q].deadline = worker[q].deadline /\ worker'[q].exit = worker[q].exit
           /\ ex' = Free /\ UNCHANGED <<proc, watch, poll, version>>
<1>1. ex.run \in Runs /\ row[ex.run].pid = TRUE /\ StopRuns({ex.run})
  BY ControlStopRows
<1>2. /\ stopped' = stopped \cup {ex.run}
      /\ \A q \in Runs : q # ex.run => row'[q] = row[q]
      /\ row'[ex.run].state = "stopping" /\ row'[ex.run].group = row[ex.run].group
      /\ row'[ex.run].pid = row[ex.run].pid /\ row'[ex.run].version = row[ex.run].version
      /\ row'[ex.run].young = row[ex.run].young
      /\ \A q \in Runs : worker'[q].deadline = worker[q].deadline /\ worker'[q].exit = worker[q].exit
  BY <1>1, StopRows
<1>3. ex' = Free /\ UNCHANGED <<proc, watch, poll, version>>
  BY DEF ControlStop
<1> QED BY <1>1, <1>2, <1>3

\* A command changes the worker.
LEMMA ControlAppliedDoes ==
    ASSUME TypeOK, ControlApplied
    PROVE  /\ ex.pc = "control" /\ ex'.pc = "reply" /\ ex'.action = ex.action /\ ex.action \in Controls
           /\ ex'.group = ex.group /\ ex'.todo = ex.todo /\ ex'.run = ex.run /\ ex'.row = ex.row
           /\ UNCHANGED <<row, proc, watch, poll, version, stopped>>
           /\ \A q \in Runs : worker'[q].deadline = worker[q].deadline /\ worker'[q].exit = worker[q].exit
BY DEF ControlApplied, TypeOK

\* ... and its receipt the row.
LEMMA ControlReplyDoes ==
    ASSUME TypeOK, InOrder, ControlReply
    PROVE  /\ ex.run \in Runs /\ ex' = Free /\ UNCHANGED <<proc, worker, watch, poll, version, stopped>>
           /\ \/ row' = row
              \/ /\ row[ex.run].state \in Active \ {"stopping"} /\ row[ex.run].state # "none"
                 /\ Shown[Requested[ex.action]] \in Active \ {"stopping"} /\ Shown[Requested[ex.action]] # "none"
                 /\ row' = SetState(ex.run, Shown[Requested[ex.action]])
           /\ \A q \in Runs : /\ Kept(q) /\ (q # ex.run => row'[q] = row[q])
                              /\ row'[q].stopRequested = row[q].stopRequested
                              /\ row'[q].automatic = row[q].automatic
           /\ row' = row \/ row'[ex.run].state \in Active \ {"stopping"}
<1> DEFINE s == Shown[Requested[ex.action]]
<1>1. ex.run \in Runs /\ s \in Active \ {"stopping"} /\ s # "none"
  BY Constants DEF ControlReply, InOrder
<1>2. ex' = Free /\ UNCHANGED <<proc, worker, watch, poll, version, stopped>>
  BY DEF ControlReply
<1>3. CASE row' = row
  BY <1>1, <1>2, <1>3 DEF Kept
<1>4. CASE row[ex.run].state \in Active \ {"stopping"} /\ row' = SetState(ex.run, s)
  <2>1. row[ex.run].state # "none"
    BY <1>4, Constants
  <2> HIDE DEF s
  <2>2. /\ \A q \in Runs : /\ Kept(q) /\ (q # ex.run => row'[q] = row[q])
                             /\ row'[q].stopRequested = row[q].stopRequested
                             /\ row'[q].automatic = row[q].automatic
        /\ row'[ex.run].state = s
    BY <1>1, <1>4, <2>1, StateRows
  <2> QED BY <1>1, <1>2, <1>4, <2>1, <2>2 DEF s
<1> QED BY <1>3, <1>4 DEF ControlReply

\* A worker exits.
LEMMA WorkerExitsDoes ==
    ASSUME TypeOK, NEW r \in Runs, NEW how \in Exits, WorkerExits(r, how)
    PROVE  /\ proc[r] = "alive" /\ \A q \in Runs : proc'[q] = IF q = r THEN "gone" ELSE proc[q]
           /\ \A q \in Runs : q # r => worker'[q] = worker[q]
           /\ UNCHANGED <<row, watch, poll, ex, version, stopped>>
BY DEF WorkerExits, TypeOK

\* watch writes the verdict.
LEMMA WatchDoes ==
    ASSUME TypeOK, Placed, NEW r \in Runs, Watch(r)
    PROVE  /\ watch[r] = "waiting" /\ proc[r] = "gone" /\ row' = SetState(r, Verdict(r))
           /\ \A q \in Runs : watch'[q] = IF q = r THEN "done" ELSE watch[q]
           /\ UNCHANGED <<proc, worker, poll, ex, version, stopped>>
           /\ Verdict(r) \in Terminal /\ Verdict(r) # "none" /\ row[r].state # "none"
           /\ \A q \in Runs : /\ Kept(q) /\ (q # r => row'[q] = row[q])
                              /\ row'[q].stopRequested = row[q].stopRequested
                              /\ row'[q].automatic = row[q].automatic
           /\ row'[r].state = Verdict(r)
<1>1. /\ watch[r] = "waiting" /\ proc[r] = "gone" /\ row' = SetState(r, Verdict(r))
      /\ \A q \in Runs : watch'[q] = IF q = r THEN "done" ELSE watch[q]
      /\ UNCHANGED <<proc, worker, poll, ex, version, stopped>>
  BY DEF Watch, TypeOK
<1>2. Verdict(r) \in Terminal /\ Verdict(r) # "none" /\ row[r].state # "none"
  BY <1>1, RowTypes, Constants DEF Placed
<1>3. /\ \A q \in Runs : /\ Kept(q) /\ (q # r => row'[q] = row[q])
                         /\ row'[q].stopRequested = row[q].stopRequested
                         /\ row'[q].automatic = row[q].automatic
      /\ row'[r].state = Verdict(r)
  BY <1>1, <1>2, StateRows
<1> QED BY <1>1, <1>2, <1>3

\* A row grows old.
LEMMA AgesDoes ==
    ASSUME TypeOK, NEW r \in Runs, Ages(r)
    PROVE  /\ ~(ex.pc = "spawn" /\ ex.run = r) /\ UNCHANGED <<proc, worker, watch, poll, ex, version, stopped>>
           /\ \A q \in Runs : q # r => row'[q] = row[q]
           /\ row'[r].state = row[r].state /\ row'[r].group = row[r].group /\ row'[r].pid = row[r].pid
           /\ row'[r].version = row[r].version /\ row'[r].stopRequested = row[r].stopRequested
           /\ row'[r].automatic = row[r].automatic
BY DEF Ages, TypeOK, Row

\* A shutdown stops the runs it owns.
LEMMA ShutdownStopsDoes ==
    ASSUME TypeOK, ShutdownStops
    PROVE  \E rs \in SUBSET Runs :
              /\ \A r \in rs : row[r].pid = TRUE /\ row[r].state \in Active
              /\ stopped' = stopped \cup rs
              /\ \A q \in Runs \ rs : row'[q] = row[q]
              /\ \A q \in rs : /\ row'[q].state = "stopping" /\ row'[q].group = row[q].group
                               /\ row'[q].pid = row[q].pid /\ row'[q].version = row[q].version
                               /\ row'[q].young = row[q].young
              /\ \A q \in Runs : worker'[q].deadline = worker[q].deadline /\ worker'[q].exit = worker[q].exit
              /\ UNCHANGED <<proc, watch, poll, ex, version>>
<1>1. PICK rs \in SUBSET Runs : StopRuns(rs) /\ \A r \in rs : row[r].pid = TRUE /\ row[r].state \in Active
  BY ShutdownRows
<1>2. /\ stopped' = stopped \cup rs
      /\ \A q \in Runs \ rs : row'[q] = row[q]
      /\ \A q \in rs : /\ row'[q].state = "stopping" /\ row'[q].group = row[q].group
                       /\ row'[q].pid = row[q].pid /\ row'[q].version = row[q].version
                       /\ row'[q].young = row[q].young
      /\ \A q \in Runs : worker'[q].deadline = worker[q].deadline /\ worker'[q].exit = worker[q].exit
  BY <1>1, StopRows
<1>3. UNCHANGED <<proc, watch, poll, ex, version>>
  BY DEF ShutdownStops
<1> QED BY <1>1, <1>2, <1>3

\* Nothing but the table survives the service.
LEMMA ServiceEndsDoes ==
    ASSUME TypeOK, ServiceEnds
    PROVE  /\ \A q \in Runs : /\ proc'[q] # "alive" /\ (proc[q] # "alive" => proc'[q] = proc[q])
                              /\ proc[q] = "alive" => proc'[q] = "gone"
                              /\ proc[q] # "alive" => worker'[q] = worker[q]
                              /\ watch'[q] # "waiting"
           /\ \A o \in Pollers : poll'[o] = Idle
           /\ ex' = Free /\ UNCHANGED <<row, version, stopped>>
BY DEF ServiceEnds

-----------------------------------------------------------------------------
(* Where the tasks are.                                                    *)

\* Every task stays with runs that have a row.
LEMMA PlacedStep == TypeOK /\ Placed /\ InOrder /\ Managed /\ [Next]_vars => Placed'
<1> SUFFICES ASSUME TypeOK, Placed, InOrder, Managed, [Next]_vars PROVE Placed'
  OBVIOUS
<1>1. CASE UNCHANGED vars
  BY <1>1 DEF vars, Placed, Managed, Kept, Asks, Owned
<1>2. ASSUME NEW p \in Pollers, NEW r \in Runs, PollBegin(p, r) PROVE Placed'
  BY <1>2, PollBeginDoes, Constants DEF Placed, Managed, Kept, Asks, Owned
<1>3. ASSUME NEW p \in Pollers, PollEnd(p) PROVE Placed'
  <2>1. /\ (\A q \in Runs : Kept(q)) /\ UNCHANGED <<proc, watch, ex>>
        /\ \A o \in Pollers : o # p => poll'[o] = poll[o]
        /\ poll'[p].pc = "idle"
    BY <1>3, PollEndDoes DEF Kept
  <2> QED BY <2>1 DEF Placed, Kept
<1>4. ASSUME NEW g \in Groups, StartBegin(g) PROVE Placed'
  BY <1>4, StartBeginDoes, Constants DEF Placed, Managed, Kept, Asks, Owned
<1>5. ASSUME NEW a \in Offered, NEW r \in Runs, ControlBegin(a, r) PROVE Placed'
  BY <1>5, ControlBeginDoes, Constants DEF Placed, Managed, Kept, Asks, Owned
<1>6. ASSUME NEW r \in Runs, CheckBegin(r) PROVE Placed'
  BY <1>6, CheckBeginDoes, Constants DEF Placed, Managed, Kept, Asks, Owned, Free
<1>7. CASE CheckEnd
  <2>1. (\A q \in Runs : Kept(q)) /\ UNCHANGED <<proc, watch, poll>>
    BY <1>7, CheckEndDoes DEF Kept
  <2>2. ex'.pc # "await"
    BY <1>7, CheckEndDoes DEF Free
  <2> QED BY <2>1, <2>2 DEF Placed, Kept
<1>8. CASE CheckNothing
  BY <1>8, CheckNothingDoes, Constants DEF Placed, Managed, Kept, Asks, Owned
<1>9. ASSUME NEW r \in Runs, Launch(r) PROVE Placed'
  <2>1. /\ \A q \in Runs : q # r => row'[q] = row[q]
        /\ row'[r].state = "starting" /\ row'[r].group \in Groups /\ row[r].state = "none"
        /\ ex'.pc = "spawn" /\ UNCHANGED <<proc, watch, poll>>
    BY <1>9, LaunchDoes DEF InOrder
  <2>2. \A p \in Pollers : poll[p].pc = "await" => poll[p].run # r
    BY <2>1 DEF Placed
  <2>3. watch[r] # "waiting"
    BY <2>1 DEF Placed
  <2> QED BY <2>1, <2>2, <2>3 DEF Placed
<1>10. CASE LaunchRefused
  BY <1>10, Constants DEF LaunchRefused, Free, Placed, Managed, Kept, Asks, Owned
<1>11. CASE Spawn
  BY <1>11, SpawnDoes, Constants DEF Placed, Managed, Kept, Asks, Owned
<1>12. CASE SpawnRecorded
  <2>1. /\ ex.run \in Runs /\ \A q \in Runs : q # ex.run => row'[q] = row[q]
        /\ row'[ex.run].pid = TRUE /\ row'[ex.run].state = row[ex.run].state
        /\ row'[ex.run].group = row[ex.run].group /\ ex.pc = "spawn"
    BY <1>12, SpawnRecordedDoes
  <2>2. /\ \A q \in Runs : watch'[q] = IF q = ex.run THEN "waiting" ELSE watch[q]
        /\ ex' = Free /\ UNCHANGED <<proc, poll>>
    BY <1>12, SpawnRecordedDoes
  <2>3. row[ex.run].state = "starting"
    BY <2>1 DEF Managed
  <2> QED BY <2>1, <2>2, <2>3 DEF Placed, Free
<1>13. CASE SpawnFailed
  BY <1>13, SpawnFailedDoes, Constants DEF Placed, Managed, Kept, Asks, Owned, Free
<1>14. CASE ControlStop
  <2>1. /\ ex.run \in Runs /\ row[ex.run].pid = TRUE
        /\ \A q \in Runs : q # ex.run => row'[q] = row[q]
        /\ row'[ex.run].state = "stopping" /\ row'[ex.run].group = row[ex.run].group
        /\ row'[ex.run].pid = row[ex.run].pid
    BY <1>14, ControlStopDoes
  <2>2. ex' = Free /\ UNCHANGED <<proc, watch, poll>>
    BY <1>14, ControlStopDoes
  <2> QED BY <2>1, <2>2 DEF Placed, Free
<1>15. CASE ControlApplied
  BY <1>15, ControlAppliedDoes, Constants DEF Placed, Managed, Kept, Asks, Owned
<1>16. CASE ControlReply
  BY <1>16, ControlReplyDoes, Constants DEF Placed, Managed, Kept, Asks, Owned, Free
<1>17. CASE ControlLost
  BY <1>17, Constants DEF ControlLost, Free, Placed, Managed, Kept, Asks, Owned
<1>18. CASE ReloadBegin
  BY <1>18, Constants DEF ReloadBegin, Free, Placed, Managed, Kept, Asks, Owned
<1>19. CASE ReloadEnd
  BY <1>19, Constants DEF ReloadEnd, Free, Placed, Managed, Kept, Asks, Owned
<1>20. ASSUME NEW r \in Runs, NEW t \in TradingStates, WorkerMoves(r, t) PROVE Placed'
  BY <1>20, Constants DEF WorkerMoves, Placed, Managed, Kept, Asks, Owned
<1>21. ASSUME NEW r \in Runs, DeadlinePasses(r) PROVE Placed'
  BY <1>21, Constants DEF DeadlinePasses, Placed, Managed, Kept, Asks, Owned
<1>22. ASSUME NEW r \in Runs, NEW how \in Exits, WorkerExits(r, how) PROVE Placed'
  BY <1>22, WorkerExitsDoes, Constants DEF Placed, Managed, Kept, Asks, Owned
<1>23. ASSUME NEW r \in Runs, Watch(r) PROVE Placed'
  BY <1>23, WatchDoes, Constants DEF Placed, Managed, Kept, Asks, Owned
<1>24. ASSUME NEW r \in Runs, Ages(r) PROVE Placed'
  BY <1>24, AgesDoes, Constants DEF Placed, Managed, Kept, Asks, Owned
<1>25. CASE Shutdown
  BY <1>25, Constants DEF Shutdown, Placed, Managed, Kept, Asks, Owned
<1>26. CASE ShutdownStops
  <2>1. PICK rs \in SUBSET Runs :
              /\ \A r \in rs : row[r].pid = TRUE
              /\ \A q \in Runs \ rs : row'[q] = row[q]
              /\ \A q \in rs : /\ row'[q].state = "stopping" /\ row'[q].group = row[q].group
                               /\ row'[q].pid = row[q].pid
    BY <1>26, ShutdownStopsDoes
  <2>2. UNCHANGED <<proc, watch, poll, ex>>
    BY <1>26 DEF ShutdownStops
  <2>3. \A q \in rs : row[q].state # "none"
    BY <2>1 DEF Placed
  <2> QED BY <2>1, <2>2, <2>3 DEF Placed
<1>27. CASE ServiceEnds
  BY <1>27, ServiceEndsDoes, Constants DEF Placed, Managed, Kept, Asks, Owned, Free, Idle
<1> QED
  BY <1>1, <1>2, <1>3, <1>4, <1>5, <1>6, <1>7, <1>8, <1>9, <1>10, <1>11, <1>12, <1>13,
     <1>14, <1>15, <1>16, <1>17, <1>18, <1>19, <1>20, <1>21, <1>22, <1>23, <1>24, <1>25,
     <1>26, <1>27
  DEF Next, PollNext, ExecuteNext, RequestNext, WorkerNext

\* The operation keeps to its steps.
LEMMA InOrderStep == TypeOK /\ Placed /\ InOrder /\ [Next]_vars => InOrder'
<1> SUFFICES ASSUME TypeOK, Placed, InOrder, [Next]_vars PROVE InOrder'
  OBVIOUS
<1>1. CASE UNCHANGED vars
  BY <1>1 DEF vars, InOrder
<1>2. ASSUME NEW p \in Pollers, NEW r \in Runs, PollBegin(p, r) PROVE InOrder'
  BY <1>2, PollBeginDoes, Constants DEF InOrder
<1>3. ASSUME NEW p \in Pollers, PollEnd(p) PROVE InOrder'
  BY <1>3, PollEndDoes, Constants DEF InOrder
<1>4. ASSUME NEW g \in Groups, StartBegin(g) PROVE InOrder'
  BY <1>4, StartBeginDoes, Constants DEF InOrder
<1>5. ASSUME NEW a \in Offered, NEW r \in Runs, ControlBegin(a, r) PROVE InOrder'
  BY <1>5, ControlBeginDoes, Constants DEF InOrder
<1>6. ASSUME NEW r \in Runs, CheckBegin(r) PROVE InOrder'
  BY <1>6, CheckBeginDoes, Constants DEF InOrder, Free
<1>7. CASE CheckEnd
  BY <1>7, CheckEndDoes, Constants DEF InOrder, Free
<1>8. CASE CheckNothing
  BY <1>8, CheckNothingDoes, Constants DEF InOrder
<1>9. ASSUME NEW r \in Runs, Launch(r) PROVE InOrder'
  BY <1>9, LaunchDoes, Constants DEF InOrder
<1>10. CASE LaunchRefused
  BY <1>10, Constants DEF LaunchRefused, Free, InOrder
<1>11. CASE Spawn
  BY <1>11, SpawnDoes, Constants DEF InOrder
<1>12. CASE SpawnRecorded
  <2>1. ex' = Free
    BY <1>12 DEF SpawnRecorded
  <2> QED BY <2>1 DEF Free, InOrder
<1>13. CASE SpawnFailed
  <2>1. ex' = Free
    BY <1>13 DEF SpawnFailed
  <2> QED BY <2>1 DEF Free, InOrder
<1>14. CASE ControlStop
  <2>1. ex' = Free
    BY <1>14 DEF ControlStop
  <2> QED BY <2>1 DEF Free, InOrder
<1>15. CASE ControlApplied
  BY <1>15, ControlAppliedDoes, Constants DEF InOrder
<1>16. CASE ControlReply
  BY <1>16, ControlReplyDoes, Constants DEF InOrder, Free
<1>17. CASE ControlLost
  BY <1>17, Constants DEF ControlLost, Free, InOrder
<1>18. CASE ReloadBegin
  BY <1>18, Constants DEF ReloadBegin, Free, InOrder
<1>19. CASE ReloadEnd
  BY <1>19, Constants DEF ReloadEnd, Free, InOrder
<1>20. ASSUME NEW r \in Runs, NEW t \in TradingStates, WorkerMoves(r, t) PROVE InOrder'
  BY <1>20, Constants DEF WorkerMoves, InOrder
<1>21. ASSUME NEW r \in Runs, DeadlinePasses(r) PROVE InOrder'
  BY <1>21, Constants DEF DeadlinePasses, InOrder
<1>22. ASSUME NEW r \in Runs, NEW how \in Exits, WorkerExits(r, how) PROVE InOrder'
  BY <1>22, WorkerExitsDoes, Constants DEF InOrder
<1>23. ASSUME NEW r \in Runs, Watch(r) PROVE InOrder'
  BY <1>23, WatchDoes, Constants DEF InOrder
<1>24. ASSUME NEW r \in Runs, Ages(r) PROVE InOrder'
  BY <1>24, AgesDoes, Constants DEF InOrder
<1>25. CASE Shutdown
  BY <1>25, Constants DEF Shutdown, InOrder
<1>26. CASE ShutdownStops
  BY <1>26, ShutdownStopsDoes, Constants DEF InOrder
<1>27. CASE ServiceEnds
  BY <1>27, ServiceEndsDoes, Constants DEF InOrder, Free, Idle
<1> QED
  BY <1>1, <1>2, <1>3, <1>4, <1>5, <1>6, <1>7, <1>8, <1>9, <1>10, <1>11, <1>12, <1>13,
     <1>14, <1>15, <1>16, <1>17, <1>18, <1>19, <1>20, <1>21, <1>22, <1>23, <1>24, <1>25,
     <1>26, <1>27
  DEF Next, PollNext, ExecuteNext, RequestNext, WorkerNext

-----------------------------------------------------------------------------
(* What becomes of the workers.                                            *)

\* Writing an active state to rows whose process is recorded loses no worker.
LEMMA ActiveKept ==
    ASSUME Managed, InOrder, UNCHANGED <<proc, version>>,
           ex' = ex \/ (ex.pc # "spawn" /\ ex'.pc \notin {"spawn", "reload"}),
           \A q \in Runs : \/ row'[q] = row[q]
                           \/ /\ row[q].pid = TRUE /\ row'[q].pid = TRUE
                              /\ row'[q].state \in Active /\ row'[q].version = row[q].version
    PROVE  Managed'
<1>1. CASE ex' = ex
  BY <1>1 DEF Managed, InOrder
<1>2. CASE ex.pc # "spawn" /\ ex'.pc \notin {"spawn", "reload"}
  BY <1>2 DEF Managed, InOrder
<1> QED BY <1>1, <1>2

\* A start stays cleared while no worker is created and no row changes its group.
LEMMA ClearedKept ==
    ASSUME Cleared, ex' = ex \/ ex'.pc \notin {"check", "await", "preview", "spawn"} \/ ex'.action # "start",
           \A q \in Runs : row'[q].group = row[q].group /\ (proc'[q] = "alive" => proc[q] = "alive")
    PROVE  Cleared'
BY DEF Cleared

\* The table keeps track of the workers.
LEMMA ManagedStep == TypeOK /\ Placed /\ InOrder /\ Managed /\ [Next]_vars => Managed'
<1> SUFFICES ASSUME TypeOK, Placed, InOrder, Managed, [Next]_vars PROVE Managed'
  OBVIOUS
<1>1. CASE UNCHANGED vars
  BY <1>1 DEF vars, Managed, Placed, InOrder, Kept, Owned, Spawning
<1>2. ASSUME NEW p \in Pollers, NEW r \in Runs, PollBegin(p, r) PROVE Managed'
  BY <1>2, PollBeginDoes, Constants DEF Managed, Placed, InOrder, Kept, Owned, Spawning
<1>3. ASSUME NEW p \in Pollers, PollEnd(p) PROVE Managed'
  <2>1. UNCHANGED <<proc, version, ex>>
    BY <1>3 DEF PollEnd
  <2>2. \A q \in Runs : \/ row'[q] = row[q]
                        \/ /\ row[q].pid = TRUE /\ row'[q].pid = TRUE
                           /\ row'[q].state \in Active /\ row'[q].version = row[q].version
    <3>1. \A q \in Runs : Kept(q) /\ (q # poll[p].run => row'[q] = row[q])
      BY <1>3, PollEndDoes DEF Kept
    <3>2. poll[p].run \in Runs /\ row'[poll[p].run].state \in Active
      BY <1>3, PollEndDoes
    <3>3. row[poll[p].run].pid = TRUE
      BY <1>3, <3>2 DEF PollEnd, Placed, TypeOK, Row
    <3> QED BY <3>1, <3>2, <3>3 DEF Kept
  <2> QED BY <2>1, <2>2, ActiveKept
<1>4. ASSUME NEW g \in Groups, StartBegin(g) PROVE Managed'
  BY <1>4, StartBeginDoes, Constants DEF Managed, Placed, InOrder, Kept, Owned, Spawning
<1>5. ASSUME NEW a \in Offered, NEW r \in Runs, ControlBegin(a, r) PROVE Managed'
  BY <1>5, ControlBeginDoes, Constants DEF Managed, Placed, InOrder, Kept, Owned, Spawning
<1>6. ASSUME NEW r \in Runs, CheckBegin(r) PROVE Managed'
  BY <1>6, CheckBeginDoes, Constants DEF Managed, Placed, InOrder, Kept, Owned, Spawning, Free
<1>7. CASE CheckEnd
  <2>1. ex.pc = "await" /\ ex'.pc \notin {"spawn", "reload"} /\ UNCHANGED <<proc, version>>
    BY <1>7, CheckEndDoes DEF Free
  <2>2. \A q \in Runs : \/ row'[q] = row[q]
                        \/ /\ row[q].pid = TRUE /\ row'[q].pid = TRUE
                           /\ row'[q].state \in Active /\ row'[q].version = row[q].version
    <3>1. ex.run \in Runs /\ \A q \in Runs : Kept(q) /\ (q # ex.run => row'[q] = row[q])
      BY <1>7, CheckEndDoes
    <3>2. row'[ex.run].state \in Active
      BY <1>7, CheckEndDoes
    <3>3. row[ex.run].pid = TRUE
      BY <2>1, <3>1 DEF Placed, TypeOK, Row
    <3> QED BY <3>1, <3>2, <3>3 DEF Kept
  <2> QED BY <2>1, <2>2, ActiveKept
<1>8. CASE CheckNothing
  BY <1>8, CheckNothingDoes, Constants DEF Managed, Placed, InOrder, Kept, Owned, Spawning
<1>9. ASSUME NEW r \in Runs, Launch(r) PROVE Managed'
  <2>1. /\ \A q \in Runs : q # r => row'[q] = row[q]
        /\ row'[r].state = "starting" /\ row'[r].group = ex.group /\ row'[r].pid = FALSE
        /\ row'[r].version = version /\ row'[r].young = TRUE
        /\ ex'.pc = "spawn" /\ ex'.run = r /\ ex'.group = ex.group
    BY <1>9, LaunchDoes
  <2>2. ex.pc = "preview" /\ row[r].state = "none" /\ UNCHANGED <<proc, version>>
    BY <1>9 DEF Launch
  <2>3. proc[r] = "none"
    BY <2>2 DEF Placed
  <2> QED BY <2>1, <2>2, <2>3 DEF Managed
<1>10. CASE LaunchRefused
  BY <1>10, Constants DEF LaunchRefused, Free, Managed, Placed, InOrder, Kept, Owned, Spawning
<1>11. CASE Spawn
  BY <1>11, SpawnDoes, Constants DEF Managed, Placed, InOrder, Kept, Owned, Spawning
<1>12. CASE SpawnRecorded
  <2>1. /\ ex.run \in Runs /\ \A q \in Runs : q # ex.run => row'[q] = row[q]
        /\ row'[ex.run].pid = TRUE /\ row'[ex.run].state = row[ex.run].state
        /\ row'[ex.run].version = row[ex.run].version /\ ex.pc = "spawn"
    BY <1>12, SpawnRecordedDoes
  <2>2. ex'.pc = "idle" /\ UNCHANGED <<proc, version>>
    BY <1>12 DEF SpawnRecorded, Free
  <2>3. row[ex.run].state \in Active
    BY <2>1 DEF Managed, Active
  <2> QED BY <2>1, <2>2, <2>3 DEF Managed
<1>13. CASE SpawnFailed
  <2>1. /\ ex.run \in Runs /\ \A q \in Runs : q # ex.run => row'[q] = row[q]
        /\ \A q \in Runs : proc'[q] = IF q = ex.run THEN "gone" ELSE proc[q]
    BY <1>13, SpawnFailedDoes
  <2>2. ex.pc = "spawn" /\ ex'.pc = "idle" /\ version' = version
    BY <1>13 DEF SpawnFailed, Free
  <2> QED BY <2>1, <2>2 DEF Managed
<1>14. CASE ControlStop
  <2>1. ex.pc = "control" /\ ex'.pc = "idle" /\ UNCHANGED <<proc, version>>
    BY <1>14 DEF ControlStop, Free
  <2>2. \A q \in Runs : \/ row'[q] = row[q]
                        \/ /\ row[q].pid = TRUE /\ row'[q].pid = TRUE
                           /\ row'[q].state \in Active /\ row'[q].version = row[q].version
    BY <1>14, ControlStopDoes DEF Active
  <2> QED BY <2>1, <2>2, ActiveKept
<1>15. CASE ControlApplied
  BY <1>15, ControlAppliedDoes, Constants DEF Managed, Placed, InOrder, Kept, Owned, Spawning
<1>16. CASE ControlReply
  <2>1. ex.pc = "reply" /\ ex'.pc = "idle" /\ UNCHANGED <<proc, version>>
    BY <1>16 DEF ControlReply, Free
  <2>2. \A q \in Runs : Kept(q) /\ (row'[q].state = row[q].state \/ row'[q].state \in Active)
    BY <1>16, ControlReplyDoes DEF Kept
  <2> QED BY <2>1, <2>2 DEF Managed, Kept
<1>17. CASE ControlLost
  BY <1>17, Constants DEF ControlLost, Free, Managed, Placed, InOrder, Kept, Owned, Spawning
<1>18. CASE ReloadBegin
  BY <1>18, Constants DEF ReloadBegin, Free, Managed, Placed, InOrder, Kept, Owned, Spawning
<1>19. CASE ReloadEnd
  BY <1>19, Constants DEF ReloadEnd, Free, Managed, Placed, InOrder, Kept, Owned, Spawning
<1>20. ASSUME NEW r \in Runs, NEW t \in TradingStates, WorkerMoves(r, t) PROVE Managed'
  BY <1>20, Constants DEF WorkerMoves, Managed, Placed, InOrder, Kept, Owned, Spawning
<1>21. ASSUME NEW r \in Runs, DeadlinePasses(r) PROVE Managed'
  BY <1>21, Constants DEF DeadlinePasses, Managed, Placed, InOrder, Kept, Owned, Spawning
<1>22. ASSUME NEW r \in Runs, NEW how \in Exits, WorkerExits(r, how) PROVE Managed'
  BY <1>22, WorkerExitsDoes, Constants DEF Managed, Placed, InOrder, Kept, Owned, Spawning
<1>23. ASSUME NEW r \in Runs, Watch(r) PROVE Managed'
  BY <1>23, WatchDoes, Constants DEF Managed, Placed, InOrder, Kept, Owned, Spawning
<1>24. ASSUME NEW r \in Runs, Ages(r) PROVE Managed'
  BY <1>24, AgesDoes, Constants DEF Managed, Placed, InOrder, Kept, Owned, Spawning
<1>25. CASE Shutdown
  BY <1>25, Constants DEF Shutdown, Managed, Placed, InOrder, Kept, Owned, Spawning
<1>26. CASE ShutdownStops
  <2>1. UNCHANGED <<proc, version, ex>>
    BY <1>26 DEF ShutdownStops
  <2>2. \A q \in Runs : \/ row'[q] = row[q]
                        \/ /\ row[q].pid = TRUE /\ row'[q].pid = TRUE
                           /\ row'[q].state \in Active /\ row'[q].version = row[q].version
    <3>1. PICK rs \in SUBSET Runs :
              /\ \A q \in rs : row[q].pid = TRUE
              /\ \A q \in Runs \ rs : row'[q] = row[q]
              /\ \A q \in rs : /\ row'[q].state = "stopping" /\ row'[q].pid = row[q].pid
                               /\ row'[q].version = row[q].version
      BY <1>26, ShutdownStopsDoes
    <3> QED BY <3>1 DEF Active
  <2> QED BY <2>1, <2>2, ActiveKept
<1>27. CASE ServiceEnds
  BY <1>27, ServiceEndsDoes, Constants DEF Managed, Placed, InOrder, Kept, Owned, Spawning, Free, Idle
<1> QED
  BY <1>1, <1>2, <1>3, <1>4, <1>5, <1>6, <1>7, <1>8, <1>9, <1>10, <1>11, <1>12, <1>13,
     <1>14, <1>15, <1>16, <1>17, <1>18, <1>19, <1>20, <1>21, <1>22, <1>23, <1>24, <1>25,
     <1>26, <1>27
  DEF Next, PollNext, ExecuteNext, RequestNext, WorkerNext

\* What a start has found dead stays dead.
LEMMA ClearedStep == TypeOK /\ Placed /\ InOrder /\ Managed /\ Cleared /\ [Next]_vars => Cleared'
<1> SUFFICES ASSUME TypeOK, Placed, InOrder, Managed, Cleared, [Next]_vars PROVE Cleared'
  OBVIOUS
<1>1. CASE UNCHANGED vars
  BY <1>1 DEF vars, Cleared, Managed, Placed, InOrder, Kept, Owned, Spawning
<1>2. ASSUME NEW p \in Pollers, NEW r \in Runs, PollBegin(p, r) PROVE Cleared'
  BY <1>2, PollBeginDoes, Constants DEF Cleared, Managed, Placed, InOrder, Kept, Owned, Spawning
<1>3. ASSUME NEW p \in Pollers, PollEnd(p) PROVE Cleared'
  <2>1. ex' = ex
    BY <1>3 DEF PollEnd
  <2>2. \A q \in Runs : row'[q].group = row[q].group /\ (proc'[q] = "alive" => proc[q] = "alive")
    BY <1>3, PollEndDoes DEF Kept
  <2> QED BY <2>1, <2>2, ClearedKept
<1>4. ASSUME NEW g \in Groups, StartBegin(g) PROVE Cleared'
  BY <1>4, StartBeginDoes, Constants DEF Cleared, Managed, Placed, InOrder, Kept, Owned, Spawning
<1>5. ASSUME NEW a \in Offered, NEW r \in Runs, ControlBegin(a, r) PROVE Cleared'
  BY <1>5, ControlBeginDoes, Constants DEF Cleared, Managed, Placed, InOrder, Kept, Owned, Spawning
<1>6. ASSUME NEW r \in Runs, CheckBegin(r) PROVE Cleared'
  BY <1>6, CheckBeginDoes, Constants DEF Cleared, Managed, Placed, InOrder, Kept, Owned, Spawning, Free
<1>7. CASE CheckEnd
  <2>1. ex'.pc = "idle" \/ ex'.action # "start"
    BY <1>7, CheckEndDoes DEF Free
  <2>2. \A q \in Runs : row'[q].group = row[q].group /\ (proc'[q] = "alive" => proc[q] = "alive")
    BY <1>7, CheckEndDoes DEF Kept
  <2> QED BY <2>1, <2>2, ClearedKept
<1>8. CASE CheckNothing
  BY <1>8, CheckNothingDoes, Constants DEF Cleared, Managed, Placed, InOrder, Kept, Owned, Spawning
<1>9. ASSUME NEW r \in Runs, Launch(r) PROVE Cleared'
  <2>1. /\ \A q \in Runs : q # r => row'[q] = row[q]
        /\ ex'.pc = "spawn" /\ ex'.run = r /\ ex'.group = ex.group
    BY <1>9, LaunchDoes
  <2>2. ex.pc = "preview" /\ ex.action = "start" /\ ex.todo = {} /\ row[r].state = "none" /\ proc' = proc
    BY <1>9 DEF Launch, InOrder
  <2>3. proc[r] = "none"
    BY <2>2 DEF Placed
  <2> QED BY <2>1, <2>2, <2>3 DEF Cleared
<1>10. CASE LaunchRefused
  BY <1>10, Constants DEF LaunchRefused, Free, Cleared, Managed, Placed, InOrder, Kept, Owned, Spawning
<1>11. CASE Spawn
  BY <1>11, SpawnDoes, Constants DEF Cleared, Managed, Placed, InOrder, Kept, Owned, Spawning
<1>12. CASE SpawnRecorded
  <2>1. ex'.pc = "idle"
    BY <1>12 DEF SpawnRecorded, Free
  <2>2. \A q \in Runs : row'[q].group = row[q].group /\ (proc'[q] = "alive" => proc[q] = "alive")
    BY <1>12, SpawnRecordedDoes
  <2> QED BY <2>1, <2>2, ClearedKept
<1>13. CASE SpawnFailed
  <2>1. ex'.pc = "idle"
    BY <1>13 DEF SpawnFailed, Free
  <2>2. \A q \in Runs : row'[q].group = row[q].group /\ (proc'[q] = "alive" => proc[q] = "alive")
    BY <1>13, SpawnFailedDoes
  <2> QED BY <2>1, <2>2, ClearedKept
<1>14. CASE ControlStop
  <2>1. ex'.pc = "idle"
    BY <1>14 DEF ControlStop, Free
  <2>2. \A q \in Runs : row'[q].group = row[q].group /\ (proc'[q] = "alive" => proc[q] = "alive")
    BY <1>14, ControlStopDoes
  <2> QED BY <2>1, <2>2, ClearedKept
<1>15. CASE ControlApplied
  BY <1>15, ControlAppliedDoes, Constants DEF Cleared, Managed, Placed, InOrder, Kept, Owned, Spawning
<1>16. CASE ControlReply
  BY <1>16, ControlReplyDoes, Constants DEF Cleared, Managed, Placed, InOrder, Kept, Owned, Spawning, Free
<1>17. CASE ControlLost
  BY <1>17, Constants DEF ControlLost, Free, Cleared, Managed, Placed, InOrder, Kept, Owned, Spawning
<1>18. CASE ReloadBegin
  BY <1>18, Constants DEF ReloadBegin, Free, Cleared, Managed, Placed, InOrder, Kept, Owned, Spawning
<1>19. CASE ReloadEnd
  BY <1>19, Constants DEF ReloadEnd, Free, Cleared, Managed, Placed, InOrder, Kept, Owned, Spawning
<1>20. ASSUME NEW r \in Runs, NEW t \in TradingStates, WorkerMoves(r, t) PROVE Cleared'
  BY <1>20, Constants DEF WorkerMoves, Cleared, Managed, Placed, InOrder, Kept, Owned, Spawning
<1>21. ASSUME NEW r \in Runs, DeadlinePasses(r) PROVE Cleared'
  BY <1>21, Constants DEF DeadlinePasses, Cleared, Managed, Placed, InOrder, Kept, Owned, Spawning
<1>22. ASSUME NEW r \in Runs, NEW how \in Exits, WorkerExits(r, how) PROVE Cleared'
  BY <1>22, WorkerExitsDoes, Constants DEF Cleared, Managed, Placed, InOrder, Kept, Owned, Spawning
<1>23. ASSUME NEW r \in Runs, Watch(r) PROVE Cleared'
  BY <1>23, WatchDoes, Constants DEF Cleared, Managed, Placed, InOrder, Kept, Owned, Spawning
<1>24. ASSUME NEW r \in Runs, Ages(r) PROVE Cleared'
  BY <1>24, AgesDoes, Constants DEF Cleared, Managed, Placed, InOrder, Kept, Owned, Spawning
<1>25. CASE Shutdown
  BY <1>25, Constants DEF Shutdown, Cleared, Managed, Placed, InOrder, Kept, Owned, Spawning
<1>26. CASE ShutdownStops
  <2>1. ex' = ex
    BY <1>26 DEF ShutdownStops
  <2>2. \A q \in Runs : row'[q].group = row[q].group /\ (proc'[q] = "alive" => proc[q] = "alive")
    <3>1. PICK rs \in SUBSET Runs : /\ \A q \in Runs \ rs : row'[q] = row[q]
                                   /\ \A q \in rs : row'[q].group = row[q].group
      BY <1>26, ShutdownStopsDoes
    <3> QED BY <1>26, <3>1 DEF ShutdownStops
  <2> QED BY <2>1, <2>2, ClearedKept
<1>27. CASE ServiceEnds
  BY <1>27, ServiceEndsDoes, Constants DEF Cleared, Managed, Placed, InOrder, Kept, Owned, Spawning, Free, Idle
<1> QED
  BY <1>1, <1>2, <1>3, <1>4, <1>5, <1>6, <1>7, <1>8, <1>9, <1>10, <1>11, <1>12, <1>13,
     <1>14, <1>15, <1>16, <1>17, <1>18, <1>19, <1>20, <1>21, <1>22, <1>23, <1>24, <1>25,
     <1>26, <1>27
  DEF Next, PollNext, ExecuteNext, RequestNext, WorkerNext

\* No worker is created, and the workers there are stay with their groups.
NoneBorn == \A q \in Runs : proc'[q] = "alive" => proc[q] = "alive" /\ row'[q].group = row[q].group

\* Only Spawn creates a worker.
LEMMA OnlySpawn == TypeOK /\ Placed /\ InOrder /\ [Next]_vars => (Spawn \/ NoneBorn)
<1> SUFFICES ASSUME TypeOK, Placed, InOrder, [Next]_vars PROVE (Spawn \/ NoneBorn)
  OBVIOUS
<1>1. CASE UNCHANGED vars
  BY <1>1 DEF vars, NoneBorn, Kept
<1>2. ASSUME NEW p \in Pollers, NEW r \in Runs, PollBegin(p, r) PROVE (Spawn \/ NoneBorn)
  BY <1>2, PollBeginDoes DEF NoneBorn, Kept
<1>3. ASSUME NEW p \in Pollers, PollEnd(p) PROVE (Spawn \/ NoneBorn)
  <2>1. (\A q \in Runs : row'[q].group = row[q].group) /\ proc' = proc
    BY <1>3, PollEndDoes DEF Kept
  <2> QED BY <2>1 DEF NoneBorn
<1>4. ASSUME NEW g \in Groups, StartBegin(g) PROVE (Spawn \/ NoneBorn)
  BY <1>4 DEF StartBegin, NoneBorn
<1>5. ASSUME NEW a \in Offered, NEW r \in Runs, ControlBegin(a, r) PROVE (Spawn \/ NoneBorn)
  BY <1>5 DEF ControlBegin, NoneBorn
<1>6. ASSUME NEW r \in Runs, CheckBegin(r) PROVE (Spawn \/ NoneBorn)
  BY <1>6, CheckBeginDoes DEF NoneBorn, Kept, Free
<1>7. CASE CheckEnd
  <2>1. (\A q \in Runs : row'[q].group = row[q].group) /\ proc' = proc
    BY <1>7, CheckEndDoes DEF Kept
  <2> QED BY <2>1 DEF NoneBorn
<1>8. CASE CheckNothing
  BY <1>8 DEF CheckNothing, NoneBorn
<1>9. ASSUME NEW r \in Runs, Launch(r) PROVE (Spawn \/ NoneBorn)
  <2>1. (\A q \in Runs : q # r => row'[q] = row[q]) /\ proc' = proc
    BY <1>9, LaunchDoes
  <2>2. proc[r] = "none"
    BY <1>9 DEF Launch, Placed
  <2> QED BY <2>1, <2>2 DEF NoneBorn
<1>10. CASE LaunchRefused
  BY <1>10 DEF LaunchRefused, NoneBorn
<1>11. CASE Spawn
  BY <1>11
<1>12. CASE SpawnRecorded
  BY <1>12, SpawnRecordedDoes DEF NoneBorn, Kept, Free
<1>13. CASE SpawnFailed
  <2>1. \A q \in Runs : row'[q].group = row[q].group /\ (proc'[q] = "alive" => proc[q] = "alive")
    BY <1>13, SpawnFailedDoes
  <2> QED BY <2>1 DEF NoneBorn
<1>14. CASE ControlStop
  BY <1>14, ControlStopDoes DEF NoneBorn, Kept, Free
<1>15. CASE ControlApplied
  BY <1>15 DEF ControlApplied, NoneBorn
<1>16. CASE ControlReply
  BY <1>16, ControlReplyDoes DEF NoneBorn, Kept, Free
<1>17. CASE ControlLost
  BY <1>17 DEF ControlLost, NoneBorn
<1>18. CASE ReloadBegin
  BY <1>18 DEF ReloadBegin, NoneBorn
<1>19. CASE ReloadEnd
  BY <1>19 DEF ReloadEnd, NoneBorn
<1>20. ASSUME NEW r \in Runs, NEW t \in TradingStates, WorkerMoves(r, t) PROVE (Spawn \/ NoneBorn)
  BY <1>20 DEF WorkerMoves, NoneBorn
<1>21. ASSUME NEW r \in Runs, DeadlinePasses(r) PROVE (Spawn \/ NoneBorn)
  BY <1>21 DEF DeadlinePasses, NoneBorn
<1>22. ASSUME NEW r \in Runs, NEW how \in Exits, WorkerExits(r, how) PROVE (Spawn \/ NoneBorn)
  BY <1>22, WorkerExitsDoes DEF NoneBorn, Kept
<1>23. ASSUME NEW r \in Runs, Watch(r) PROVE (Spawn \/ NoneBorn)
  BY <1>23, WatchDoes DEF NoneBorn, Kept
<1>24. ASSUME NEW r \in Runs, Ages(r) PROVE (Spawn \/ NoneBorn)
  BY <1>24, AgesDoes DEF NoneBorn, Kept
<1>25. CASE Shutdown
  BY <1>25 DEF Shutdown, NoneBorn
<1>26. CASE ShutdownStops
  <2>1. PICK rs \in SUBSET Runs : /\ \A q \in Runs \ rs : row'[q] = row[q]
                                 /\ \A q \in rs : row'[q].group = row[q].group
    BY <1>26, ShutdownStopsDoes
  <2> QED BY <1>26, <2>1 DEF ShutdownStops, NoneBorn
<1>27. CASE ServiceEnds
  BY <1>27, ServiceEndsDoes DEF NoneBorn, Kept, Free, Idle
<1> QED
  BY <1>1, <1>2, <1>3, <1>4, <1>5, <1>6, <1>7, <1>8, <1>9, <1>10, <1>11, <1>12, <1>13,
     <1>14, <1>15, <1>16, <1>17, <1>18, <1>19, <1>20, <1>21, <1>22, <1>23, <1>24, <1>25,
     <1>26, <1>27
  DEF Next, PollNext, ExecuteNext, RequestNext, WorkerNext

Starting == ex.action = "start" /\ ex.pc \in {"check", "await", "preview", "spawn"}

\* A start that is under way after a step was before it, for the same group, or begins.
UnderWay == Starting' => \/ \E g \in Groups : StartBegin(g)
                         \/ \E r \in Runs : Launch(r)
                         \/ /\ Starting /\ ex'.group = ex.group
                            /\ (ex.pc = "spawn" \/ ex'.pc = "spawn") => ex' = ex

\* So a start goes on or begins with every step.
LEMMA StartUnderWay == TypeOK /\ Placed /\ InOrder /\ [Next]_vars => UnderWay
<1> SUFFICES ASSUME TypeOK, Placed, InOrder, [Next]_vars PROVE UnderWay
  OBVIOUS
<1>1. CASE UNCHANGED vars
  BY <1>1 DEF vars, UnderWay, Starting
<1>2. ASSUME NEW p \in Pollers, NEW r \in Runs, PollBegin(p, r) PROVE UnderWay
  BY <1>2 DEF PollBegin, UnderWay, Starting
<1>3. ASSUME NEW p \in Pollers, PollEnd(p) PROVE UnderWay
  BY <1>3 DEF PollEnd, UnderWay, Starting
<1>4. ASSUME NEW g \in Groups, StartBegin(g) PROVE UnderWay
  BY <1>4 DEF UnderWay
<1>5. ASSUME NEW a \in Offered, NEW r \in Runs, ControlBegin(a, r) PROVE UnderWay
  BY <1>5, ControlBeginDoes DEF UnderWay, Starting
<1>6. ASSUME NEW r \in Runs, CheckBegin(r) PROVE UnderWay
  <2>1. ex.pc # "spawn" /\ ex'.pc # "spawn"
    BY <1>6, CheckBeginDoes DEF Free
  <2>2. ex'.action = "none" \/ (ex'.action = ex.action /\ ex'.group = ex.group)
    BY <1>6, CheckBeginDoes DEF Free
  <2>3. ex.pc \in {"check", "await", "preview"}
    BY <1>6, CheckBeginDoes
  <2> QED BY <2>1, <2>2, <2>3 DEF UnderWay, Starting
<1>7. CASE CheckEnd
  <2>1. ex.pc # "spawn" /\ ex'.pc # "spawn"
    BY <1>7, CheckEndDoes DEF Free
  <2>2. ex'.action = "none" \/ (ex'.action = ex.action /\ ex'.group = ex.group)
    BY <1>7, CheckEndDoes DEF Free
  <2>3. ex.pc \in {"check", "await", "preview"}
    BY <1>7, CheckEndDoes
  <2> QED BY <2>1, <2>2, <2>3 DEF UnderWay, Starting
<1>8. CASE CheckNothing
  <2>1. ex.pc # "spawn" /\ ex'.pc # "spawn"
    BY <1>8, CheckNothingDoes DEF Free
  <2>2. ex'.action = "none" \/ (ex'.action = ex.action /\ ex'.group = ex.group)
    BY <1>8, CheckNothingDoes DEF Free
  <2>3. ex.pc \in {"check", "await", "preview"}
    BY <1>8, CheckNothingDoes
  <2> QED BY <2>1, <2>2, <2>3 DEF UnderWay, Starting
<1>9. ASSUME NEW r \in Runs, Launch(r) PROVE UnderWay
  BY <1>9, LaunchDoes DEF Launch, UnderWay, Starting
<1>10. CASE LaunchRefused
  <2>1. ex'.action = "none"
    BY <1>10 DEF LaunchRefused, Free
  <2> QED BY <2>1 DEF UnderWay, Starting
<1>11. CASE Spawn
  BY <1>11 DEF Spawn, UnderWay, Starting
<1>12. CASE SpawnRecorded
  <2>1. ex'.action = "none"
    BY <1>12 DEF SpawnRecorded, Free
  <2> QED BY <2>1 DEF UnderWay, Starting
<1>13. CASE SpawnFailed
  <2>1. ex'.action = "none"
    BY <1>13 DEF SpawnFailed, Free
  <2> QED BY <2>1 DEF UnderWay, Starting
<1>14. CASE ControlStop
  <2>1. ex'.action = "none"
    BY <1>14 DEF ControlStop, Free
  <2> QED BY <2>1 DEF UnderWay, Starting
<1>15. CASE ControlApplied
  BY <1>15, ControlAppliedDoes, Constants DEF UnderWay, Starting, Controls
<1>16. CASE ControlReply
  <2>1. ex'.action = "none"
    BY <1>16 DEF ControlReply, Free
  <2> QED BY <2>1 DEF UnderWay, Starting
<1>17. CASE ControlLost
  <2>1. ex'.action = "none"
    BY <1>17 DEF ControlLost, Free
  <2> QED BY <2>1 DEF UnderWay, Starting
<1>18. CASE ReloadBegin
  BY <1>18 DEF ReloadBegin, Free, UnderWay, Starting
<1>19. CASE ReloadEnd
  BY <1>19 DEF ReloadEnd, Free, UnderWay, Starting
<1>20. ASSUME NEW r \in Runs, NEW t \in TradingStates, WorkerMoves(r, t) PROVE UnderWay
  BY <1>20 DEF WorkerMoves, UnderWay, Starting
<1>21. ASSUME NEW r \in Runs, DeadlinePasses(r) PROVE UnderWay
  BY <1>21 DEF DeadlinePasses, UnderWay, Starting
<1>22. ASSUME NEW r \in Runs, NEW how \in Exits, WorkerExits(r, how) PROVE UnderWay
  BY <1>22 DEF WorkerExits, UnderWay, Starting
<1>23. ASSUME NEW r \in Runs, Watch(r) PROVE UnderWay
  BY <1>23 DEF Watch, UnderWay, Starting
<1>24. ASSUME NEW r \in Runs, Ages(r) PROVE UnderWay
  BY <1>24 DEF Ages, UnderWay, Starting
<1>25. CASE Shutdown
  BY <1>25 DEF Shutdown, UnderWay, Starting
<1>26. CASE ShutdownStops
  BY <1>26 DEF ShutdownStops, UnderWay, Starting
<1>27. CASE ServiceEnds
  <2>1. ex'.action = "none"
    BY <1>27 DEF ServiceEnds, Free
  <2> QED BY <2>1 DEF UnderWay, Starting
<1> QED
  BY <1>1, <1>2, <1>3, <1>4, <1>5, <1>6, <1>7, <1>8, <1>9, <1>10, <1>11, <1>12, <1>13,
     <1>14, <1>15, <1>16, <1>17, <1>18, <1>19, <1>20, <1>21, <1>22, <1>23, <1>24, <1>25,
     <1>26, <1>27
  DEF Next, PollNext, ExecuteNext, RequestNext, WorkerNext

\* Sets of runs are finite, and a part of one has no more members.
LEMMA Parts ==
    ASSUME NEW T \in SUBSET Runs, NEW S \in SUBSET T
    PROVE  Cardinality(S) \in Nat /\ Cardinality(T) \in Nat /\ Cardinality(S) <= Cardinality(T)
<1>1. IsFiniteSet(T)
  BY SupervisorAssumption, FS_Subset
<1> QED BY <1>1, FS_Subset, FS_CardinalityType

\* A free slot is kept for the worker of the start under way.
LEMMA ReservedStep == TypeOK /\ Placed /\ InOrder /\ Managed /\ Reserved /\ [Next]_vars => Reserved'
<1> SUFFICES ASSUME TypeOK, Placed, InOrder, Managed, Reserved, [Next]_vars,
                    Starting', ex'.group \in ModelGroups
             PROVE  Cardinality(LiveModels' \ (IF ex'.pc = "spawn" THEN {ex'.run} ELSE {})) < ModelLimit
  BY DEF Reserved, Starting
<1> ModelLimit \in Nat
  BY SupervisorAssumption
<1> LiveModels \in SUBSET Runs /\ LiveModels' \in SUBSET Runs
  BY DEF LiveModels
<1>1. ASSUME NoneBorn PROVE LiveModels' \subseteq LiveModels
  BY <1>1 DEF NoneBorn, LiveModels
<1>2. ASSUME NEW g \in Groups, StartBegin(g)
      PROVE  Cardinality(LiveModels' \ (IF ex'.pc = "spawn" THEN {ex'.run} ELSE {})) < ModelLimit
  <2>1. ex.pc = "idle" /\ HasCapacity(g) /\ ex'.pc = "check" /\ ex'.group = g /\ row' = row /\ proc' = proc
    BY <1>2, StartBeginDoes
  <2>2. LiveModels' \subseteq ModelRuns /\ ModelRuns \in SUBSET Runs
    BY <2>1 DEF LiveModels, ModelRuns, Managed, Owned
  <2>3. Cardinality(ModelRuns) < ModelLimit
    BY <2>1 DEF HasCapacity
  <2>4. Cardinality(LiveModels') < ModelLimit
    BY <2>2, <2>3, Parts
  <2> QED BY <2>1, <2>4
<1>3. ASSUME NEW r \in Runs, Launch(r)
      PROVE  Cardinality(LiveModels' \ (IF ex'.pc = "spawn" THEN {ex'.run} ELSE {})) < ModelLimit
  <2>1. ex.pc = "preview" /\ ex.action = "start" /\ ex'.group = ex.group /\ ex'.pc = "spawn"
    BY <1>3, LaunchDoes DEF InOrder
  <2>2. Cardinality(LiveModels) < ModelLimit
    <3>1. LiveModels \ (IF ex.pc = "spawn" THEN {ex.run} ELSE {}) = LiveModels
      BY <2>1
    <3> QED BY <2>1, <3>1 DEF Reserved
  <2>3. ~Spawn
    BY <2>1 DEF Spawn
  <2>4. LiveModels' \ {ex'.run} \subseteq LiveModels
    BY <1>1, <2>3, OnlySpawn
  <2>5. Cardinality(LiveModels' \ {ex'.run}) < ModelLimit
    BY <2>2, <2>4, Parts
  <2> QED BY <2>1, <2>5
<1>4. CASE Starting /\ ex'.group = ex.group /\ ((ex.pc = "spawn" \/ ex'.pc = "spawn") => ex' = ex)
  <2> DEFINE born == IF ex.pc = "spawn" THEN {ex.run} ELSE {}
  <2>1. (IF ex'.pc = "spawn" THEN {ex'.run} ELSE {}) = born
    BY <1>4
  <2>2. Cardinality(LiveModels \ born) < ModelLimit
    BY <1>4 DEF Starting, Reserved
  <2>3. LiveModels' \ born \subseteq LiveModels \ born
    <3>1. CASE Spawn
      BY <3>1, SpawnDoes DEF LiveModels
    <3>2. CASE NoneBorn
      BY <1>1, <3>2
    <3> QED BY <3>1, <3>2, OnlySpawn
  <2> HIDE DEF born
  <2>4. Cardinality(LiveModels' \ born) < ModelLimit
    BY <2>2, <2>3, Parts
  <2> QED BY <2>1, <2>4
<1> QED BY <1>2, <1>3, <1>4, StartUnderWay DEF UnderWay

\* So the slots are never exceeded ...
LEMMA SlotsStep ==
    TypeOK /\ Placed /\ InOrder /\ Managed /\ Reserved /\ SlotsRespected /\ [Next]_vars => SlotsRespected'
<1> SUFFICES ASSUME TypeOK, Placed, InOrder, Managed, Reserved, SlotsRespected, [Next]_vars
             PROVE  Cardinality(LiveModels') <= ModelLimit
  BY DEF SlotsRespected, LiveModels
<1> ModelLimit \in Nat
  BY SupervisorAssumption
<1> LiveModels \in SUBSET Runs /\ LiveModels' \in SUBSET Runs /\ Cardinality(LiveModels) <= ModelLimit
  BY DEF LiveModels, SlotsRespected
<1>1. CASE NoneBorn
  <2>1. LiveModels' \subseteq LiveModels
    BY <1>1 DEF NoneBorn, LiveModels
  <2> QED BY <2>1, Parts
<1>2. CASE Spawn
  <2>1. /\ ex.pc = "spawn" /\ ex.run \in Runs /\ proc'[ex.run] = "alive" /\ row' = row
        /\ \A q \in Runs : q # ex.run => proc'[q] = proc[q]
    BY <1>2, SpawnDoes
  <2>2. CASE ex.group \in ModelGroups
    <3> DEFINE others == LiveModels \ {ex.run}
    <3>1. ex.action = "start"
      BY <2>1 DEF InOrder
    <3>2. Cardinality(others) < ModelLimit
      BY <2>1, <2>2, <3>1 DEF Reserved
    <3>3. LiveModels' \subseteq others \cup {ex.run} /\ others \cup {ex.run} \in SUBSET Runs
      BY <2>1 DEF LiveModels
    <3>4. IsFiniteSet(others) /\ ex.run \notin others
      BY SupervisorAssumption, FS_Subset
    <3> HIDE DEF others
    <3>5. Cardinality(others \cup {ex.run}) = Cardinality(others) + 1
      BY <3>4, FS_AddElement
    <3>6. Cardinality(LiveModels') <= Cardinality(others \cup {ex.run}) /\ Cardinality(LiveModels') \in Nat
      BY <3>3, Parts
    <3>7. Cardinality(others) \in Nat
      BY <3>4, FS_CardinalityType
    <3> QED BY <3>2, <3>5, <3>6, <3>7
  <2>3. CASE ex.group \notin ModelGroups
    <3>1. LiveModels' \subseteq LiveModels
      BY <2>1, <2>3 DEF LiveModels, Managed
    <3> QED BY <3>1, Parts
  <2> QED BY <2>2, <2>3
<1> QED BY <1>1, <1>2, OnlySpawn

\* ... nor does a group, or an account, get a second worker.
LEMMA OneLiveStep ==
    TypeOK /\ Placed /\ InOrder /\ Managed /\ Cleared /\ OneLiveRunPerAccount /\ [Next]_vars => OneLiveRunPerAccount'
<1> DEFINE Together(g, h) == g = h \/ ({g, h} \subseteq LiveGroups /\ Account[g] = Account[h])
<1> SUFFICES ASSUME TypeOK, Placed, InOrder, Managed, Cleared, OneLiveRunPerAccount, [Next]_vars,
                    NEW r \in Runs, NEW q \in Runs, proc'[r] = "alive", proc'[q] = "alive",
                    Together(row'[r].group, row'[q].group), r # q
             PROVE  FALSE
  BY DEF OneLiveRunPerAccount
<1>1. CASE NoneBorn
  BY <1>1 DEF NoneBorn, OneLiveRunPerAccount
<1>2. CASE Spawn
  <2>1. /\ ex.pc = "spawn" /\ ex.run \in Runs /\ row' = row
        /\ \A o \in Runs : o # ex.run => proc'[o] = proc[o]
    BY <1>2, SpawnDoes
  <2>2. ex.action = "start" /\ ex.todo = {} /\ row[ex.run].group = ex.group
    BY <2>1 DEF InOrder, Managed
  <2>3. ASSUME NEW o \in Runs, proc[o] = "alive", o # ex.run PROVE ~Together(row[o].group, ex.group)
    <3>1. row[o].group \notin Conflicting(ex.group)
      BY <2>1, <2>2, <2>3 DEF Cleared
    <3>2. row[o].group \in Groups
      BY <2>3 DEF Placed
    <3> QED BY <3>1, <3>2 DEF Conflicting
  <2>4. CASE r = ex.run
    BY <2>1, <2>2, <2>3, <2>4
  <2>5. CASE q = ex.run
    BY <2>1, <2>2, <2>3, <2>5
  <2>6. CASE r # ex.run /\ q # ex.run
    BY <2>1, <2>6 DEF OneLiveRunPerAccount
  <2> QED BY <2>4, <2>5, <2>6
<1> QED BY <1>1, <1>2, OnlySpawn

-----------------------------------------------------------------------------
(* What is said of the runs.                                               *)

\* Evidence, for the row of r.
Evident(r) ==
    /\ row[r].stopRequested \/ (row[r].state = "stopping" /\ ~row[r].automatic) => r \in stopped
    /\ row[r].state \in {"stopped", "completed"} => proc[r] = "gone"

\* The evidence of a stop is not made up.
LEMMA EvidenceStep == TypeOK /\ Placed /\ InOrder /\ Evidence /\ [Next]_vars => Evidence'
<1> SUFFICES ASSUME TypeOK, Placed, InOrder, Evidence, [Next]_vars PROVE Evidence'
  OBVIOUS
<1>1. CASE UNCHANGED vars
  BY <1>1 DEF vars, Evidence, Placed, InOrder, Kept, NoRow
<1>2. ASSUME NEW p \in Pollers, NEW r \in Runs, PollBegin(p, r) PROVE Evidence'
  BY <1>2, PollBeginDoes, Constants DEF Evidence, Placed, InOrder, Kept, NoRow
<1>3. ASSUME NEW p \in Pollers, PollEnd(p) PROVE Evidence'
  <2>1. /\ poll[p].run \in Runs /\ \A q \in Runs : q # poll[p].run => row'[q] = row[q]
        /\ row'[poll[p].run].state \in Active
        /\ row'[poll[p].run].stopRequested = poll[p].row.stopRequested
        /\ row'[poll[p].run].state = "stopping" => row'[poll[p].run].automatic = TRUE
    BY <1>3, PollEndDoes
  <2>2. /\ \A o \in Pollers : o # p => poll'[o] = poll[o]
        /\ poll'[p].row = NoRow /\ UNCHANGED <<proc, ex, stopped>>
    BY <1>3, PollEndDoes
  <2>3. poll[p].row.stopRequested => poll[p].run \in stopped
    BY DEF Evidence
  <2>4. \A q \in Runs : Evident(q)'
    BY <2>1, <2>2, <2>3 DEF Evidence, Evident, Active
  <2> QED BY <2>2, <2>4 DEF Evidence, Evident, NoRow
<1>4. ASSUME NEW g \in Groups, StartBegin(g) PROVE Evidence'
  <2>1. ex'.row = NoRow /\ UNCHANGED <<row, proc, poll, stopped>>
    BY <1>4 DEF StartBegin, Free
  <2> QED BY <2>1 DEF Evidence, NoRow
<1>5. ASSUME NEW a \in Offered, NEW r \in Runs, ControlBegin(a, r) PROVE Evidence'
  <2>1. ex'.row = NoRow /\ UNCHANGED <<row, proc, poll, stopped>>
    BY <1>5 DEF ControlBegin, Free
  <2> QED BY <2>1 DEF Evidence, NoRow
<1>6. ASSUME NEW r \in Runs, CheckBegin(r) PROVE Evidence'
  <2>1. /\ UNCHANGED <<proc, poll, stopped>>
        /\ \A q \in Runs : /\ row'[q].stopRequested = row[q].stopRequested /\ row'[q].automatic = row[q].automatic
                           /\ row'[q].state = row[q].state \/ row'[q].state = "interrupted"
    BY <1>6, CheckBeginDoes
  <2>2. ex'.row = NoRow \/ (ex'.run = r /\ ex'.row = row[r])
    BY <1>6, CheckBeginDoes DEF Free
  <2> QED BY <2>1, <2>2 DEF Evidence, NoRow
<1>7. CASE CheckEnd
  <2>1. /\ ex.run \in Runs /\ \A q \in Runs : q # ex.run => row'[q] = row[q]
        /\ row'[ex.run].state \in Active /\ row'[ex.run].stopRequested = ex.row.stopRequested
        /\ row'[ex.run].state = "stopping" => row'[ex.run].automatic = TRUE
    BY <1>7, CheckEndDoes
  <2>2. ex'.row = NoRow /\ UNCHANGED <<proc, poll, stopped>>
    BY <1>7, CheckEndDoes DEF Free
  <2>3. \A q \in Runs : Evident(q)'
    BY <2>1, <2>2 DEF Evidence, Evident, Active
  <2> QED BY <2>2, <2>3 DEF Evidence, Evident, NoRow
<1>8. CASE CheckNothing
  BY <1>8, CheckNothingDoes, Constants DEF Evidence, Placed, InOrder, Kept, NoRow
<1>9. ASSUME NEW r \in Runs, Launch(r) PROVE Evidence'
  <2>1. /\ \A q \in Runs : q # r => row'[q] = row[q]
        /\ row'[r].state = "starting" /\ row'[r].stopRequested = FALSE
        /\ ex'.row = ex.row /\ ex'.run = r /\ UNCHANGED <<proc, poll, stopped>>
    BY <1>9, LaunchDoes
  <2>2. ex.row.stopRequested => r \in stopped
    BY <1>9 DEF Launch, InOrder, NoRow
  <2> QED BY <2>1, <2>2 DEF Evidence
<1>10. CASE LaunchRefused
  <2>1. ex'.row = NoRow /\ UNCHANGED <<row, proc, poll, stopped>>
    BY <1>10 DEF LaunchRefused, Free
  <2> QED BY <2>1 DEF Evidence, NoRow
<1>11. CASE Spawn
  BY <1>11, SpawnDoes, Constants DEF Evidence, Placed, InOrder, Kept, NoRow
<1>12. CASE SpawnRecorded
  <2>1. /\ \A q \in Runs : q # ex.run => row'[q] = row[q]
        /\ row'[ex.run].state = row[ex.run].state /\ row'[ex.run].stopRequested = row[ex.run].stopRequested
        /\ row'[ex.run].automatic = row[ex.run].automatic /\ UNCHANGED <<proc, poll, stopped>>
    BY <1>12, SpawnRecordedDoes
  <2>2. ex'.row = NoRow
    BY <1>12 DEF SpawnRecorded, Free
  <2> QED BY <2>1, <2>2 DEF Evidence, NoRow
<1>13. CASE SpawnFailed
  <2>1. /\ \A q \in Runs : /\ q # ex.run => row'[q] = row[q]
                           /\ proc'[q] = IF q = ex.run THEN "gone" ELSE proc[q]
        /\ row'[ex.run].state = "failed" /\ row'[ex.run].stopRequested = FALSE /\ UNCHANGED <<poll, stopped>>
    BY <1>13, SpawnFailedDoes
  <2>2. ex'.row = NoRow
    BY <1>13 DEF SpawnFailed, Free
  <2> QED BY <2>1, <2>2 DEF Evidence, NoRow
<1>14. CASE ControlStop
  <2>1. /\ \A q \in Runs : q # ex.run => row'[q] = row[q]
        /\ row'[ex.run].state = "stopping" /\ stopped' = stopped \cup {ex.run} /\ UNCHANGED <<proc, poll>>
    BY <1>14, ControlStopDoes
  <2>2. ex'.row = NoRow
    BY <1>14 DEF ControlStop, Free
  <2>3. \A q \in Runs : Evident(q)'
    BY <2>1 DEF Evidence, Evident
  <2> QED BY <2>1, <2>2, <2>3 DEF Evidence, Evident, NoRow
<1>15. CASE ControlApplied
  BY <1>15, ControlAppliedDoes, Constants DEF Evidence, Placed, InOrder, Kept, NoRow
<1>16. CASE ControlReply
  <2>1. /\ ex.run \in Runs /\ UNCHANGED <<proc, poll, stopped>>
        /\ \A q \in Runs : /\ q # ex.run => row'[q] = row[q]
                           /\ row'[q].stopRequested = row[q].stopRequested
                           /\ row'[q].automatic = row[q].automatic
        /\ row' = row \/ row'[ex.run].state \in Active \ {"stopping"}
    BY <1>16, ControlReplyDoes
  <2>2. ex'.row = NoRow
    BY <1>16 DEF ControlReply, Free
  <2>3. \A q \in Runs : Evident(q)'
    BY <2>1 DEF Evidence, Evident, Active
  <2> QED BY <2>1, <2>2, <2>3 DEF Evidence, Evident, NoRow
<1>17. CASE ControlLost
  <2>1. ex'.row = NoRow /\ UNCHANGED <<row, proc, poll, stopped>>
    BY <1>17 DEF ControlLost, Free
  <2> QED BY <2>1 DEF Evidence, NoRow
<1>18. CASE ReloadBegin
  <2>1. ex'.row = NoRow /\ UNCHANGED <<row, proc, poll, stopped>>
    BY <1>18 DEF ReloadBegin, Free
  <2> QED BY <2>1 DEF Evidence, NoRow
<1>19. CASE ReloadEnd
  <2>1. ex'.row = NoRow /\ UNCHANGED <<row, proc, poll, stopped>>
    BY <1>19 DEF ReloadEnd, Free
  <2> QED BY <2>1 DEF Evidence, NoRow
<1>20. ASSUME NEW r \in Runs, NEW t \in TradingStates, WorkerMoves(r, t) PROVE Evidence'
  BY <1>20, Constants DEF WorkerMoves, Evidence, Placed, InOrder, Kept, NoRow
<1>21. ASSUME NEW r \in Runs, DeadlinePasses(r) PROVE Evidence'
  BY <1>21, Constants DEF DeadlinePasses, Evidence, Placed, InOrder, Kept, NoRow
<1>22. ASSUME NEW r \in Runs, NEW how \in Exits, WorkerExits(r, how) PROVE Evidence'
  BY <1>22, WorkerExitsDoes, Constants DEF Evidence, Placed, InOrder, Kept, NoRow
<1>23. ASSUME NEW r \in Runs, Watch(r) PROVE Evidence'
  <2>1. /\ proc[r] = "gone" /\ UNCHANGED <<proc, poll, ex, stopped>>
        /\ \A q \in Runs : /\ q # r => row'[q] = row[q]
                           /\ row'[q].stopRequested = row[q].stopRequested
                           /\ row'[q].automatic = row[q].automatic
        /\ row'[r].state \in Terminal
    BY <1>23, WatchDoes
  <2> QED BY <2>1 DEF Evidence, Terminal
<1>24. ASSUME NEW r \in Runs, Ages(r) PROVE Evidence'
  BY <1>24, AgesDoes, Constants DEF Evidence, Placed, InOrder, Kept, NoRow
<1>25. CASE Shutdown
  BY <1>25, Constants DEF Shutdown, Evidence, Placed, InOrder, Kept, NoRow
<1>26. CASE ShutdownStops
  <2>1. PICK rs \in SUBSET Runs :
              /\ stopped' = stopped \cup rs
              /\ \A q \in Runs \ rs : row'[q] = row[q]
              /\ \A q \in rs : row'[q].state = "stopping"
    BY <1>26, ShutdownStopsDoes
  <2>2. UNCHANGED <<proc, poll, ex>>
    BY <1>26 DEF ShutdownStops
  <2>3. \A q \in Runs : Evident(q)'
    BY <2>1, <2>2 DEF Evidence, Evident
  <2> QED BY <2>1, <2>2, <2>3 DEF Evidence, Evident
<1>27. CASE ServiceEnds
  <2>1. /\ \A q \in Runs : proc[q] # "alive" => proc'[q] = proc[q]
        /\ \A o \in Pollers : poll'[o].row = NoRow
        /\ ex'.row = NoRow /\ UNCHANGED <<row, stopped>>
    BY <1>27, ServiceEndsDoes DEF Idle, Free
  <2> QED BY <2>1 DEF Evidence, NoRow
<1> QED
  BY <1>1, <1>2, <1>3, <1>4, <1>5, <1>6, <1>7, <1>8, <1>9, <1>10, <1>11, <1>12, <1>13,
     <1>14, <1>15, <1>16, <1>17, <1>18, <1>19, <1>20, <1>21, <1>22, <1>23, <1>24, <1>25,
     <1>26, <1>27
  DEF Next, PollNext, ExecuteNext, RequestNext, WorkerNext

\* So only a run that ended clean, and was stopped or had reached its deadline, is said to have.
LEMMA VerdictRows ==
    ASSUME TypeOK, Evidence, NEW r \in Runs
    PROVE  /\ Verdict(r) = "stopped" => r \in stopped /\ worker[r].exit = "clean"
           /\ Verdict(r) = "completed" => worker[r].deadline = TRUE /\ worker[r].exit = "clean"
<1>1. worker[r].deadline \in BOOLEAN /\ row[r] \in Row
  BY DEF TypeOK
<1>2. (row[r].state = "stopping" /\ ~row[r].automatic) \/ row[r].stopRequested => r \in stopped
  BY DEF Evidence
<1> QED BY <1>1, <1>2 DEF Verdict

\* No run is said to have been stopped or completed, and the evidence about the dead stays.
Undecided ==
    /\ \A q \in Runs : row'[q].state \notin {"stopped", "completed"} \/ row'[q].state = row[q].state
    /\ \A q \in Runs : proc[q] # "alive" => /\ worker'[q].deadline = worker[q].deadline
                                            /\ worker'[q].exit = worker[q].exit
    /\ stopped \subseteq stopped'

\* Only watch decides that a run was stopped or completed.
LEMMA OnlyWatch == TypeOK /\ Placed /\ InOrder /\ [Next]_vars => ((\E o \in Runs : Watch(o)) \/ Undecided)
<1> SUFFICES ASSUME TypeOK, Placed, InOrder, [Next]_vars PROVE ((\E o \in Runs : Watch(o)) \/ Undecided)
  OBVIOUS
<1>1. CASE UNCHANGED vars
  BY <1>1 DEF vars, Undecided
<1>2. ASSUME NEW p \in Pollers, NEW r \in Runs, PollBegin(p, r) PROVE ((\E o \in Runs : Watch(o)) \/ Undecided)
  <2>1. \A q \in Runs : row'[q].state \notin {"stopped", "completed"} \/ row'[q].state = row[q].state
    BY <1>2, PollBeginDoes
  <2>2. UNCHANGED <<worker, stopped>>
    BY <1>2 DEF PollBegin
  <2> QED BY <2>1, <2>2 DEF Undecided
<1>3. ASSUME NEW p \in Pollers, PollEnd(p) PROVE ((\E o \in Runs : Watch(o)) \/ Undecided)
  <2>1. \A q \in Runs : row'[q].state \notin {"stopped", "completed"} \/ row'[q].state = row[q].state
    BY <1>3, PollEndDoes DEF Active
  <2>2. UNCHANGED <<worker, stopped>>
    BY <1>3 DEF PollEnd
  <2> QED BY <2>1, <2>2 DEF Undecided
<1>4. ASSUME NEW g \in Groups, StartBegin(g) PROVE ((\E o \in Runs : Watch(o)) \/ Undecided)
  BY <1>4 DEF StartBegin, Undecided
<1>5. ASSUME NEW a \in Offered, NEW r \in Runs, ControlBegin(a, r) PROVE ((\E o \in Runs : Watch(o)) \/ Undecided)
  BY <1>5 DEF ControlBegin, Undecided
<1>6. ASSUME NEW r \in Runs, CheckBegin(r) PROVE ((\E o \in Runs : Watch(o)) \/ Undecided)
  <2>1. \A q \in Runs : row'[q].state \notin {"stopped", "completed"} \/ row'[q].state = row[q].state
    BY <1>6, CheckBeginDoes
  <2>2. UNCHANGED <<worker, stopped>>
    BY <1>6 DEF CheckBegin
  <2> QED BY <2>1, <2>2 DEF Undecided
<1>7. CASE CheckEnd
  <2>1. \A q \in Runs : row'[q].state \notin {"stopped", "completed"} \/ row'[q].state = row[q].state
    BY <1>7, CheckEndDoes DEF Active
  <2>2. UNCHANGED <<worker, stopped>>
    BY <1>7 DEF CheckEnd
  <2> QED BY <2>1, <2>2 DEF Undecided
<1>8. CASE CheckNothing
  BY <1>8 DEF CheckNothing, Undecided
<1>9. ASSUME NEW r \in Runs, Launch(r) PROVE ((\E o \in Runs : Watch(o)) \/ Undecided)
  <2>1. \A q \in Runs : row'[q].state \notin {"stopped", "completed"} \/ row'[q].state = row[q].state
    BY <1>9, LaunchDoes
  <2>2. UNCHANGED <<worker, stopped>>
    BY <1>9 DEF Launch
  <2> QED BY <2>1, <2>2 DEF Undecided
<1>10. CASE LaunchRefused
  BY <1>10 DEF LaunchRefused, Undecided
<1>11. CASE Spawn
  BY <1>11 DEF Spawn, Undecided
<1>12. CASE SpawnRecorded
  <2>1. \A q \in Runs : row'[q].state \notin {"stopped", "completed"} \/ row'[q].state = row[q].state
    BY <1>12, SpawnRecordedDoes
  <2>2. UNCHANGED <<worker, stopped>>
    BY <1>12 DEF SpawnRecorded
  <2> QED BY <2>1, <2>2 DEF Undecided
<1>13. CASE SpawnFailed
  <2>1. \A q \in Runs : row'[q].state \notin {"stopped", "completed"} \/ row'[q].state = row[q].state
    BY <1>13, SpawnFailedDoes
  <2>2. UNCHANGED <<worker, stopped>>
    BY <1>13 DEF SpawnFailed
  <2> QED BY <2>1, <2>2 DEF Undecided
<1>14. CASE ControlStop
  <2>1. \A q \in Runs : row'[q].state \notin {"stopped", "completed"} \/ row'[q].state = row[q].state
    BY <1>14, ControlStopDoes
  <2>2. /\ \A q \in Runs : worker'[q].deadline = worker[q].deadline /\ worker'[q].exit = worker[q].exit
        /\ stopped \subseteq stopped'
    BY <1>14, ControlStopDoes
  <2> QED BY <2>1, <2>2 DEF Undecided
<1>15. CASE ControlApplied
  BY <1>15, ControlAppliedDoes DEF Undecided
<1>16. CASE ControlReply
  <2>1. \A q \in Runs : row'[q].state \notin {"stopped", "completed"} \/ row'[q].state = row[q].state
    BY <1>16, ControlReplyDoes DEF Active
  <2>2. UNCHANGED <<worker, stopped>>
    BY <1>16 DEF ControlReply
  <2> QED BY <2>1, <2>2 DEF Undecided
<1>17. CASE ControlLost
  BY <1>17 DEF ControlLost, Undecided
<1>18. CASE ReloadBegin
  BY <1>18 DEF ReloadBegin, Undecided
<1>19. CASE ReloadEnd
  BY <1>19 DEF ReloadEnd, Undecided
<1>20. ASSUME NEW r \in Runs, NEW t \in TradingStates, WorkerMoves(r, t) PROVE ((\E o \in Runs : Watch(o)) \/ Undecided)
  BY <1>20 DEF WorkerMoves, Undecided, TypeOK
<1>21. ASSUME NEW r \in Runs, DeadlinePasses(r) PROVE ((\E o \in Runs : Watch(o)) \/ Undecided)
  BY <1>21 DEF DeadlinePasses, Undecided, TypeOK
<1>22. ASSUME NEW r \in Runs, NEW how \in Exits, WorkerExits(r, how) PROVE ((\E o \in Runs : Watch(o)) \/ Undecided)
  <2>1. /\ proc[r] = "alive" /\ \A q \in Runs : q # r => worker'[q] = worker[q]
        /\ UNCHANGED <<row, stopped>>
    BY <1>22, WorkerExitsDoes
  <2> QED BY <2>1 DEF Undecided
<1>23. ASSUME NEW r \in Runs, Watch(r) PROVE ((\E o \in Runs : Watch(o)) \/ Undecided)
  BY <1>23
<1>24. ASSUME NEW r \in Runs, Ages(r) PROVE ((\E o \in Runs : Watch(o)) \/ Undecided)
  <2>1. \A q \in Runs : row'[q].state \notin {"stopped", "completed"} \/ row'[q].state = row[q].state
    BY <1>24, AgesDoes
  <2>2. UNCHANGED <<worker, stopped>>
    BY <1>24 DEF Ages
  <2> QED BY <2>1, <2>2 DEF Undecided
<1>25. CASE Shutdown
  BY <1>25 DEF Shutdown, Undecided
<1>26. CASE ShutdownStops
  <2>1. PICK rs \in SUBSET Runs :
              /\ stopped' = stopped \cup rs
              /\ \A q \in Runs \ rs : row'[q] = row[q]
              /\ \A q \in rs : row'[q].state = "stopping"
              /\ \A q \in Runs : worker'[q].deadline = worker[q].deadline /\ worker'[q].exit = worker[q].exit
    BY <1>26, ShutdownStopsDoes
  <2> QED BY <2>1 DEF Undecided
<1>27. CASE ServiceEnds
  <2>1. /\ \A q \in Runs : proc[q] # "alive" => worker'[q] = worker[q]
        /\ UNCHANGED <<row, stopped>>
    BY <1>27, ServiceEndsDoes
  <2> QED BY <2>1 DEF Undecided
<1> QED
  BY <1>1, <1>2, <1>3, <1>4, <1>5, <1>6, <1>7, <1>8, <1>9, <1>10, <1>11, <1>12, <1>13,
     <1>14, <1>15, <1>16, <1>17, <1>18, <1>19, <1>20, <1>21, <1>22, <1>23, <1>24, <1>25,
     <1>26, <1>27
  DEF Next, PollNext, ExecuteNext, RequestNext, WorkerNext

\* Nothing is said of a run that the evidence does not support.
LEMMA SuccessStep ==
    TypeOK /\ Placed /\ InOrder /\ Evidence /\ NoFalseSuccess /\ [Next]_vars => NoFalseSuccess'
<1> SUFFICES ASSUME TypeOK, Placed, InOrder, Evidence, NoFalseSuccess, [Next]_vars PROVE NoFalseSuccess'
  OBVIOUS
<1>1. ASSUME NEW r \in Runs, Watch(r) PROVE NoFalseSuccess'
  <2>1. /\ \A q \in Runs : q # r => row'[q] = row[q]
        /\ row'[r].state = Verdict(r) /\ UNCHANGED <<worker, stopped>>
    BY <1>1, WatchDoes
  <2> QED BY <2>1, VerdictRows DEF NoFalseSuccess
<1>2. CASE Undecided
  <2>1. \A q \in Runs : row[q].state \in {"stopped", "completed"} => proc[q] # "alive"
    BY DEF Evidence
  <2> QED BY <1>2, <2>1 DEF Undecided, NoFalseSuccess
<1> QED BY <1>1, <1>2, OnlyWatch

\* The initial states.
LEMMA SupStart == Init => SupInv
<1> SUFFICES ASSUME Init PROVE SupInv
  OBVIOUS
<1> USE SupervisorAssumption, Constants
<1>1. TypeOK
  BY DEF Init, TypeOK, NoRow, NoWorker, Idle, Free, Row, TradingStates
<1>2. Placed /\ InOrder
  BY DEF Init, Placed, InOrder, NoRow, Idle, Free
<1>3. Managed /\ Cleared /\ Reserved
  BY DEF Init, Managed, Cleared, Reserved, Free
<1>4. Evidence
  BY DEF Init, Evidence, NoRow, Idle, Free
<1>5. OneLiveRunPerAccount /\ NoFalseSuccess
  BY DEF Init, OneLiveRunPerAccount, NoFalseSuccess, NoRow
<1>6. SlotsRespected
  <2>1. {r \in Runs : proc[r] = "alive" /\ row[r].group \in ModelGroups} = {}
    BY DEF Init
  <2>2. Cardinality({r \in Runs : proc[r] = "alive" /\ row[r].group \in ModelGroups}) = 0
    BY <2>1, FS_EmptySet
  <2>3. 0 <= ModelLimit
    BY SupervisorAssumption
  <2> QED BY <2>2, <2>3 DEF SlotsRespected
<1> QED BY <1>1, <1>2, <1>3, <1>4, <1>5, <1>6 DEF SupInv

\* Every step.
LEMMA SupStep == SupInv /\ [Next]_vars => SupInv'
BY TypeStep, PlacedStep, InOrderStep, ManagedStep, ClearedStep, ReservedStep, SlotsStep, OneLiveStep,
   EvidenceStep, SuccessStep
DEF SupInv

\* So the invariant holds throughout.
LEMMA Supervised == Spec => []SupInv

<1> QED BY SupStart, SupStep, PTL DEF Spec

\* Every variable keeps its type: rows, processes, tasks and the operation that holds the lock
\* (the runs table and execute).
THEOREM TypesOK == Spec => []TypeOK
BY Supervised, PTL DEF SupInv

\* At most one worker of a group, and one on an account, is alive: a start finds every
\* conflicting run dead before it creates its own, and nothing revives one meanwhile.
THEOREM OneLiveRun == Spec => []OneLiveRunPerAccount
BY Supervised, PTL DEF SupInv

\* The live workers of published models stay within the slots of the node.
THEOREM SlotsBounded == Spec => []SlotsRespected
BY Supervised, PTL DEF SupInv

\* A recorded worker that is alive is active in the table, and owned.
THEOREM LiveRunsManaged == Spec => []LiveRunIsManaged
<1>1. SupInv => LiveRunIsManaged
  <2> SUFFICES ASSUME SupInv, NEW r \in Runs, proc[r] = "alive", row[r].pid
               PROVE  row[r].state \in Active /\ Owned(r, row[r])
    BY DEF LiveRunIsManaged
  <2>1. ~(ex.pc = "spawn" /\ ex.run = r)
    BY DEF SupInv, Managed
  <2> QED BY <2>1 DEF SupInv, Managed, Owned
<1> QED BY <1>1, Supervised, PTL

\* No run is shown as stopped or completed without the evidence for it.
THEOREM SuccessIsEvident == Spec => []NoFalseSuccess
BY Supervised, PTL DEF SupInv
=============================================================================
