------------------------------ MODULE RunPanel ------------------------------
(***************************************************************************)
(* Starting and controlling runs from a page: StrategyRunPanel.tsx, the    *)
(* confirmation dialog ConfirmOperation.tsx, the tickets and receipts of   *)
(* the web backend (app.py), and what the supervisor (group_runtime.py)    *)
(* records of an operation. What the operator sees changes with the        *)
(* selection, with polls, and with answers that arrive late.               *)
(*                                                                         *)
(* An operation is a number; a started run has the number of its start,    *)
(* and one run may have been started before.                               *)
(* Settings, capabilities and previews are what tells them apart: the      *)
(* operator's own settings or those of one version of the configuration.   *)
(***************************************************************************)
EXTENDS Integers, FiniteSets

CONSTANTS
    Groups,
    Offered,        \* bound: the actions looked at
    MaxOps,         \* bound: operations prepared
    MaxChanges,     \* bound: selections, inputs, checks and configurations that change
    MaxTroubles     \* bound: failures, restarts, time limits and runs that end

ASSUME PanelAssumption == MaxOps \in Nat /\ MaxChanges \in Nat /\ MaxTroubles \in Nat

VARIABLES
    run,            \* by group, its last run, whether that is alive, its configuration
    op,             \* the operations the backend knows
    expired,        \* tickets whose ninety seconds are over
    panel,          \* the state of StrategyRunPanel, see PanelInit
    runtimeLoads,   \* answers of loadRuntime on their way
    asking,         \* the preflight or prepare that keeps the panel busy, or its answer
    executing,      \* the execute of the dialog, and its answer
    polled,         \* the request of refreshReceipt, and its answer
    changes         \* how much of MaxChanges and MaxTroubles is used

panelServerVars == <<run, op, expired>>
panelVars == <<panelServerVars, panel, runtimeLoads, asking, executing, polled, changes>>

Ops == 1 .. MaxOps
Earlier == MaxOps + 1
RunIds == 0 .. Earlier      \* 0 is none
\* halt stands for reduce and resume as well, flatten for cancel.
Actions == {"start", "stop", "halt", "flatten"}
ASSUME OfferedAssumption == Offered \subseteq Actions

\* The controls whose outcome the supervisor asks the worker for.
Reconciled == {"halt"}

\* An operation: its row at the web backend (status, the run told), whether the backend waits for
\* the supervisor, the supervisor's record, the receipt the worker keeps, and its request.
NoOp == [status |-> "none", told |-> 0, performing |-> FALSE, book |-> "none", worker |-> "silent",
         action |-> "none", group |-> "none", run |-> 0, inputs |-> "none"]
NoRuntime == [group |-> "none", available |-> FALSE, run |-> 0, alive |-> FALSE, runs |-> {}, pending |-> 0, config |-> "none"]
NoTicket == [op |-> 0, action |-> "none", scope |-> <<>>, inputs |-> "none"]
NoReceipt == [op |-> 0, action |-> "none", status |-> "none", group |-> "none", run |-> 0]
NoAsking == [what |-> "none", scope |-> <<>>, inputs |-> "none", op |-> 0]
NoExecute == [ticket |-> NoTicket, group |-> "none", at |-> "none", answer |-> NoReceipt]
NoPoll == [at |-> "none", receipt |-> NoReceipt]

PanelInit ==
    /\ \E busy \in Groups \cup {"none"} :
         run = [g \in Groups |-> IF g = busy THEN [last |-> Earlier, alive |-> TRUE, runs |-> {Earlier}, config |-> "v1"]
                                ELSE [last |-> 0, alive |-> FALSE, runs |-> {}, config |-> "v1"]]
    /\ op = [i \in Ops |-> NoOp] /\ expired = {}
    /\ \E g \in Groups :
         panel = [selectedGroup |-> g, selectedRuns |-> [h \in Groups |-> 0], runtime |-> NoRuntime,
                  own |-> FALSE, reduction |-> "all",
                  ticket |-> NoTicket, receipt |-> NoReceipt]
    /\ runtimeLoads = {} /\ asking = NoAsking /\ executing = NoExecute /\ polled = NoPoll
    /\ changes = [seen |-> 0, unseen |-> 0]

-----------------------------------------------------------------------------
(* What the panel derives from its state p.                                *)

SelectedRun(p) == p.selectedRuns[p.selectedGroup]
Scope(p) == <<p.selectedGroup, SelectedRun(p)>>
Control(p) == p.runtime.available /\ p.runtime.group = p.selectedGroup
Inputs(p) == IF ~Control(p) THEN "none" ELSE IF p.own THEN "own" ELSE p.runtime.config
Fingerprint(p) == <<Scope(p), Inputs(p)>>

\* The run the panel looks at: the one selected, or the last of a managed group.
Observed(p) ==
    IF ~Control(p) THEN 0
    ELSE IF SelectedRun(p) = 0 THEN p.runtime.run
    ELSE IF SelectedRun(p) \in p.runtime.runs THEN SelectedRun(p) ELSE 0

Open == {"processing", "unknown"}
ReceiptOpen(p) == p.receipt.status \in Open

Eligible(p) == Control(p) /\ asking = NoAsking

\* The buttons that are not disabled.
MayStart(p) ==
    /\ Eligible(p) /\ ~(p.receipt.action = "start" /\ ReceiptOpen(p))
    /\ ~p.runtime.alive /\ p.runtime.pending = 0
MayControl(p) == Eligible(p) /\ p.runtime.alive /\ Observed(p) = p.runtime.run

-----------------------------------------------------------------------------
(* Effects: what React runs after a render of new that followed old.       *)

OnGroup(old, new, p) ==
    IF old.selectedGroup = new.selectedGroup THEN p
    ELSE [p EXCEPT !.runtime = NoRuntime, !.own = FALSE, !.ticket = NoTicket,
                   !.receipt = NoReceipt, !.reduction = "all"]

PendingStart(p) == IF Control(p) THEN p.runtime.pending ELSE 0

\* A start under way that the backend knows of is shown, whoever began it.
OnPendingStart(old, new, p) ==
    IF PendingStart(new) \in {0, p.receipt.op}
       \/ (PendingStart(old) = PendingStart(new) /\ old.selectedGroup = new.selectedGroup)
    THEN p
    ELSE [p EXCEPT !.receipt = [op |-> PendingStart(new), action |-> "start", status |-> "processing",
                                group |-> new.selectedGroup, run |-> 0]]

Followed(p) == <<p.receipt.action, p.receipt.run, p.receipt.group, p.selectedGroup>>

\* The run that a start has brought is selected.
OnReceipt(old, new, p) ==
    IF Followed(old) # Followed(new) /\ new.receipt.action = "start" /\ new.receipt.run # 0
       /\ new.receipt.group = new.selectedGroup
    THEN [p EXCEPT !.selectedRuns[new.selectedGroup] = new.receipt.run]
    ELSE p

\* Other settings are not what a ticket for a start was made for.
OnFingerprint(old, new, p) ==
    IF Fingerprint(old) # Fingerprint(new) /\ p.ticket.action = "start"
    THEN [p EXCEPT !.ticket = NoTicket] ELSE p

\* Another run is not what a ticket was made for, or a receipt is about.
OnRun(old, new, p) ==
    IF SelectedRun(old) = SelectedRun(new) THEN p
    ELSE [p EXCEPT !.ticket = NoTicket,
                   !.receipt = IF @.run \in {0, SelectedRun(new)} THEN @ ELSE NoReceipt]

Effects(old, new) ==
    OnRun(old, new, OnFingerprint(old, new, OnReceipt(old, new,
        OnPendingStart(old, new, OnGroup(old, new, new)))))

\* A render, and those its effects cause.
Become(new) ==
    \E rendered \in {new} : \E first \in {Effects(panel, rendered)} : \E second \in {Effects(rendered, first)} :
        panel' = Effects(first, second)

-----------------------------------------------------------------------------
(* The operator.                                                           *)

Change == changes.seen < MaxChanges /\ changes' = [changes EXCEPT !.seen = @ + 1]
Trouble == changes.unseen < MaxTroubles /\ changes' = [changes EXCEPT !.unseen = @ + 1]

\* Aborts the poll of the group that was shown; a load after a confirmation goes on.
SelectGroup(g) ==
    /\ Change /\ g # panel.selectedGroup /\ Become([panel EXCEPT !.selectedGroup = g])
    /\ runtimeLoads' = {l \in runtimeLoads : l.kind # "poll"}
    /\ UNCHANGED <<panelServerVars, asking, executing, polled>>

SelectRun(r) ==
    /\ Change /\ Control(panel) /\ r \in panel.runtime.runs \cup {0} /\ r # SelectedRun(panel)
    /\ Become([panel EXCEPT !.selectedRuns[panel.selectedGroup] = r])
    /\ UNCHANGED <<panelServerVars, runtimeLoads, asking, executing, polled>>

\* The inputs are disabled while the panel is busy, and covered by an open dialog.
Edit ==
    /\ Change /\ asking = NoAsking /\ panel.ticket = NoTicket /\ Control(panel)
    /\ \/ Become([panel EXCEPT !.own = ~@])
       \/ MayControl(panel) /\ Become([panel EXCEPT !.reduction = IF @ = "all" THEN "some" ELSE "all",
                                                    !.ticket = NoTicket])
    /\ UNCHANGED <<panelServerVars, runtimeLoads, asking, executing, polled>>

Preflight ==
    /\ Change /\ MayStart(panel) /\ panel.ticket = NoTicket
    /\ asking' = [what |-> "preflight", scope |-> Scope(panel), inputs |-> Inputs(panel), op |-> 0]
    /\ UNCHANGED <<panelServerVars, panel, runtimeLoads, executing, polled>>

\* prepare, with what its button shows at this moment.
Prepare(action) ==
    /\ panel.ticket = NoTicket
    /\ IF action = "start" THEN MayStart(panel) ELSE MayControl(panel)
    /\ asking' = [what |-> action, scope |-> Scope(panel), op |-> 0,
                  inputs |-> IF action = "flatten" THEN panel.reduction ELSE Inputs(panel)]
    /\ UNCHANGED <<panelServerVars, panel, runtimeLoads, executing, polled, changes>>

\* Seeded fault: a ticket is shown if its group and run are still selected.
StillWanted_Scope == Scope(panel) = asking.scope

\* The answer is for what is selected and, for a start, for the settings shown.
StillWanted ==
    /\ Scope(panel) = asking.scope
    /\ asking.what = "start" => Inputs(panel) = asking.inputs

\* prepare or preflight ends: with a ticket, or with what is only shown.
Prepared ==
    /\ asking.op # 0
    /\ Become(IF asking.op \in Ops /\ StillWanted
              THEN [panel EXCEPT !.ticket = [op |-> asking.op, action |-> asking.what,
                                             scope |-> asking.scope, inputs |-> asking.inputs]]
              ELSE panel)
    /\ asking' = NoAsking
    /\ UNCHANGED <<panelServerVars, runtimeLoads, executing, polled, changes>>

-----------------------------------------------------------------------------
(* The dialog.                                                             *)

\* Cancel, which is disabled while an execute is under way.
Cancel ==
    /\ panel.ticket # NoTicket /\ executing = NoExecute
    /\ Become([panel EXCEPT !.ticket = NoTicket])
    /\ UNCHANGED <<panelServerVars, runtimeLoads, asking, executing, polled, changes>>

\* One execute at a time, of the ticket on the screen, in its time.
MayExecute == panel.ticket # NoTicket /\ executing = NoExecute /\ panel.ticket.op \notin expired

Execute ==
    /\ MayExecute
    /\ executing' = [ticket |-> panel.ticket, group |-> panel.selectedGroup, at |-> "asked", answer |-> NoReceipt]
    /\ UNCHANGED <<panelServerVars, panel, runtimeLoads, asking, polled, changes>>

\* Seeded fault: an answer is taken wherever the operator is.
Concerned_Always == TRUE

\* onComplete ignores what belongs to another group or run.
Concerned == executing.ticket.scope = Scope(panel)

\* The state after onComplete and close, which closes whatever dialog there is.
Completed ==
    LET closed == [panel EXCEPT !.ticket = NoTicket]
    IN  IF ~Concerned THEN closed
        ELSE [closed EXCEPT !.selectedRuns[executing.group] =
                                IF executing.answer.run # 0 THEN executing.answer.run ELSE @,
                            !.receipt = executing.answer]

Runtime(g) ==
    LET starts == {i \in Ops : op[i].group = g /\ op[i].action = "start" /\ op[i].status = "processing"}
    IN  [group |-> g, available |-> TRUE, run |-> run[g].last, alive |-> run[g].alive, runs |-> run[g].runs,
         pending |-> IF starts = {} THEN 0 ELSE CHOOSE i \in starts : \A j \in starts : j <= i,
         config |-> run[g].config]

\* The execute ends: with a receipt, after which the state is loaded, or with an error,
\* which leaves the dialog open.
Executed ==
    /\ executing # NoExecute /\ executing.answer # NoReceipt
    /\ IF executing.answer.status = "refused" THEN UNCHANGED <<panel, runtimeLoads>>
       ELSE /\ Become(Completed)
            /\ runtimeLoads' = IF Concerned
                        THEN {l \in runtimeLoads : l.kind = "poll"}
                             \cup {[kind |-> "load", runtime |-> Runtime(executing.group)]}
                        ELSE runtimeLoads
    /\ executing' = NoExecute
    /\ UNCHANGED <<panelServerVars, asking, polled, changes>>

-----------------------------------------------------------------------------
(* Polls.                                                                  *)

\* loadRuntime reads, and its answer arrives if its group is still selected.
Poll ==
    /\ \A l \in runtimeLoads : l.kind # "poll"
    /\ runtimeLoads' = runtimeLoads \cup {[kind |-> "poll", runtime |-> Runtime(panel.selectedGroup)]}
    /\ UNCHANGED <<panelServerVars, panel, asking, executing, polled, changes>>

Loaded(l) ==
    /\ l \in runtimeLoads /\ runtimeLoads' = runtimeLoads \ {l}
    /\ IF l.runtime.group # panel.selectedGroup THEN UNCHANGED <<panel, changes>>
       ELSE \/ Become([panel EXCEPT !.runtime = l.runtime]) /\ UNCHANGED changes
            \/ Trouble /\ Become([panel EXCEPT !.runtime = NoRuntime])
    /\ UNCHANGED <<panelServerVars, asking, executing, polled>>

\* Seeded fault: only a start is asked about again.
Unsettled_Start == panel.receipt.op # 0 /\ panel.receipt.status = "processing"

Unsettled == panel.receipt.op # 0 /\ ReceiptOpen(panel)

\* The row of an operation as the backend tells it.
Receipt(i) ==
    [op |-> i, action |-> op[i].action, status |-> op[i].status, group |-> op[i].group, run |-> op[i].told]

\* Seeded fault: the supervisor's word is the status of the row.
StatusOf_Verbatim(b) == IF b = "failed" THEN "error" ELSE b

\* What the supervisor's record b of an operation comes to: the status, and the run it names.
StatusOf(b) ==
    CASE b = "completed" -> "completed"
      [] b \in {"refused", "raised", "failed"} -> "error"
      [] OTHER -> "unknown"
RunNamed(i, b) == IF b \in {"completed", "failed", "unknown"} THEN op[i].run ELSE 0

\* Seeded fault: no worker is asked.
Recorded_Alone(i) == op[i].book

\* The supervisor's record of i when it is asked: an outcome it does not know is the worker's.
Recorded(i) ==
    IF op[i].book \in {"lost", "unknown"} /\ op[i].action \in Reconciled /\ op[i].worker # "silent"
    THEN op[i].worker ELSE op[i].book

\* refreshReceipt asks, and group_receipt_route answers what the row says, or asks the supervisor
\* about an open one. When that does not know of it or is not reached, the answer is "unknown".
PollReceipt ==
    LET i == panel.receipt.op
        unknown == [Receipt(i) EXCEPT !.status = "unknown"]
    IN  /\ Unsettled /\ polled = NoPoll /\ op[i].status \notin {"none", "prepared"}
        /\ \/ /\ op[i].status \notin Open /\ polled' = [at |-> "answered", receipt |-> Receipt(i)]
              /\ UNCHANGED <<op, changes>>
           \/ /\ op[i].status \in Open /\ op[i].book \in {"sent", "gone", "refused"}
              /\ polled' = [at |-> "answered", receipt |-> unknown] /\ UNCHANGED <<op, changes>>
           \/ /\ op[i].status \in Open /\ op[i].book \notin {"sent", "gone", "refused"}
              /\ op' = [op EXCEPT ![i].book = Recorded(i)]
              /\ polled' = [at |-> "said", receipt |-> [Receipt(i) EXCEPT !.status = StatusOf(Recorded(i)),
                                                                          !.run = RunNamed(i, Recorded(i))]]
              /\ UNCHANGED changes
           \/ /\ Trouble /\ op[i].status \in Open
              /\ polled' = [at |-> "answered", receipt |-> unknown] /\ UNCHANGED op
        /\ UNCHANGED <<run, expired, panel, runtimeLoads, asking, executing>>

\* After the await, what the supervisor said is written over the row, whatever that is by now.
RouteWrites ==
    /\ polled.at = "said" /\ polled' = [polled EXCEPT !.at = "answered"]
    /\ op' = [op EXCEPT ![polled.receipt.op].status = polled.receipt.status,
                       ![polled.receipt.op].told = polled.receipt.run]
    /\ UNCHANGED <<run, expired, panel, runtimeLoads, asking, executing, changes>>

ReceiptPolled ==
    /\ polled.at = "answered" /\ polled' = NoPoll
    /\ Become(IF panel.receipt.op # polled.receipt.op THEN panel
              ELSE [panel EXCEPT !.receipt = polled.receipt])
    /\ UNCHANGED <<panelServerVars, runtimeLoads, asking, executing, changes>>

-----------------------------------------------------------------------------
(* The web backend and what is behind it.                                  *)

Answered(answer) == executing' = [executing EXCEPT !.answer = answer]
Said(status) == [NoReceipt EXCEPT !.op = executing.ticket.op, !.status = status,
                                  !.action = executing.ticket.action, !.group = executing.group]

\* prepare_route: a new ticket, or a refusal.
PrepareRoute ==
    /\ asking # NoAsking /\ asking.op = 0
    /\ \/ /\ asking.what # "preflight"
          /\ \E i \in Ops :
               /\ op[i] = NoOp /\ \A j \in Ops : j < i => op[j] # NoOp
               /\ op' = [op EXCEPT ![i] = [NoOp EXCEPT !.status = "prepared", !.action = asking.what,
                                             !.group = asking.scope[1], !.inputs = asking.inputs,
                                             !.run = IF asking.what = "start" THEN i ELSE run[asking.scope[1]].last]]
               /\ asking' = [asking EXCEPT !.op = i]
          /\ UNCHANGED changes
       \/ asking.what = "preflight" /\ asking' = [asking EXCEPT !.op = -1] /\ UNCHANGED <<op, changes>>
       \/ Trouble /\ asking' = [asking EXCEPT !.op = -1, !.what = "refused"] /\ UNCHANGED op
    /\ UNCHANGED <<run, expired, panel, runtimeLoads, executing, polled>>

\* A ticket that is still to be confirmed.
Confirmable(i) == op[i].status = "prepared" /\ i \notin expired

\* write_lock: nothing but i is on its way to the supervisor and back.
WriteLockFree(i) == \A j \in Ops \ {i} : op[j].performing => op[j].book = "sent"

\* execute_route: a start is answered at once and goes on in the background, a control is answered
\* when it is done. An operation that has a row answers what that says; anything else is refused.
ExecuteRoute ==
    /\ executing.at = "asked" /\ executing.answer = NoReceipt
    /\ LET i == executing.ticket.op
       IN  IF Confirmable(i)
           THEN /\ WriteLockFree(i)
                /\ op' = [op EXCEPT ![i].status = "processing", ![i].performing = TRUE, ![i].book = "sent"]
                /\ IF op[i].action = "start" THEN Answered(Said("processing"))
                   ELSE executing' = [executing EXCEPT !.at = "held"]
           ELSE /\ Answered(IF op[i].status = "prepared" THEN Said("refused") ELSE Receipt(i))
                /\ UNCHANGED op
    /\ UNCHANGED <<run, expired, panel, runtimeLoads, asking, polled, changes>>

\* The request or its answer is lost (api.ts): the outcome is unknown. A session that
\* changed refuses the request and lets the operator confirm again.
ExecuteLost ==
    /\ Trouble /\ executing # NoExecute /\ executing.answer.status # "refused"
    /\ \/ Answered(Said("unknown"))
       \/ executing.at = "asked" /\ executing.answer = NoReceipt /\ Answered(Said("refused"))
    /\ UNCHANGED <<panelServerVars, panel, runtimeLoads, asking, polled>>

\* perform_confirmed: the answer of the supervisor, or the end of the wait for it, is written to
\* the row and answers the execute that waits.
Performed(i) ==
    /\ op[i].performing
    /\ \E b \in {op[i].book, "gone"} :
         /\ IF b = op[i].book THEN b \notin {"sent", "open"} /\ UNCHANGED changes ELSE Trouble
         /\ op' = [op EXCEPT ![i].status = StatusOf(b), ![i].told = RunNamed(i, b), ![i].performing = FALSE]
         /\ IF executing.ticket.op = i /\ executing.at = "held" /\ executing.answer = NoReceipt
            THEN Answered([Said(StatusOf(b)) EXCEPT !.run = RunNamed(i, b)]) ELSE UNCHANGED executing
    /\ UNCHANGED <<run, expired, panel, runtimeLoads, asking, polled>>

-----------------------------------------------------------------------------
(* The supervisor.                                                         *)

\* The runs after operation i has taken effect.
RunsAfter(i) ==
    LET r == run[op[i].group]
    IN  [run EXCEPT ![op[i].group] =
            IF op[i].action = "start" THEN [r EXCEPT !.last = i, !.alive = TRUE, !.runs = r.runs \cup {i}]
            ELSE [r EXCEPT !.alive = r.alive /\ op[i].action # "stop"]]

PanelUntouched == <<expired, panel, runtimeLoads, asking, executing, polled>>

\* execute: under its lock the supervisor records the operation and begins with it, or refuses it.
Take(i) ==
    /\ op[i].book = "sent" /\ WriteLockFree(i) /\ \A j \in Ops : op[j].book # "open"
    /\ \E b \in {"open", "refused"} : op' = [op EXCEPT ![i].book = b]
    /\ UNCHANGED <<run, changes, PanelUntouched>>

\* launch or control ends and its outcome is recorded. The reply of a worker may be lost.
Act(i) ==
    /\ op[i].book = "open"
    /\ \E b \in {"completed", "raised"} \cup (IF op[i].action \in {"halt", "flatten"} THEN {"failed", "unknown"} ELSE {}) :
         /\ op' = [op EXCEPT ![i].book = b]
         /\ run' = IF b = "completed" THEN RunsAfter(i) ELSE run
    /\ UNCHANGED <<changes, PanelUntouched>>

\* The worker ends what it was told although the supervisor did not hear of it.
WorkerEndsIt(i) ==
    /\ op[i].book \in {"lost", "unknown"} /\ op[i].action \in Reconciled /\ op[i].worker = "silent"
    /\ \E w \in {"completed", "failed"} : op' = [op EXCEPT ![i].worker = w]
    /\ UNCHANGED <<run, changes, PanelUntouched>>

\* A restart of the supervisor: what it was doing is unknown, what it was sent may be gone.
Restart ==
    /\ Trouble
    /\ \E gone \in SUBSET {i \in Ops : op[i].book = "sent"} :
         op' = [i \in Ops |-> IF i \in gone THEN [op[i] EXCEPT !.book = "gone"]
                             ELSE IF op[i].book = "open" THEN [op[i] EXCEPT !.book = "lost"] ELSE op[i]]
    /\ op' # op /\ run' \in {run} \cup {RunsAfter(i) : i \in {j \in Ops : op[j].book = "open"}}
    /\ UNCHANGED PanelUntouched

\* The configuration is reloaded, a run ends, a ticket expires.
Elsewhere ==
    /\ \/ Change /\ (\E g \in Groups : run' = [run EXCEPT ![g].config = IF @ = "v1" THEN "v2" ELSE "v1"])
          /\ UNCHANGED expired
       \/ Trouble /\ (\E g \in Groups : run[g].alive /\ run' = [run EXCEPT ![g].alive = FALSE]) /\ UNCHANGED expired
       \/ Trouble /\ (\E i \in Ops \ expired : op[i].status = "prepared" /\ expired' = expired \cup {i}) /\ UNCHANGED run
    /\ UNCHANGED <<op, panel, runtimeLoads, asking, executing, polled>>

-----------------------------------------------------------------------------
PanelSteps == Prepared \/ Executed \/ PollReceipt \/ RouteWrites \/ ReceiptPolled \/ (\E l \in runtimeLoads : Loaded(l)) \/ Poll

PanelNext ==
    \/ \E g \in Groups : SelectGroup(g)
    \/ \E r \in RunIds : SelectRun(r)
    \/ Edit \/ Preflight \/ (\E a \in Offered : Prepare(a)) \/ Cancel \/ Execute
    \/ PanelSteps
    \/ PrepareRoute \/ ExecuteRoute \/ ExecuteLost \/ Elsewhere \/ Restart
    \/ \E i \in Ops : Take(i) \/ Act(i) \/ WorkerEndsIt(i) \/ Performed(i)

-----------------------------------------------------------------------------
PanelTypeOK ==
    /\ \A g \in Groups : /\ run[g].last \in RunIds /\ run[g].runs \subseteq RunIds
                        /\ run[g].alive \in BOOLEAN /\ run[g].config \in {"v1", "v2"}
    /\ \A i \in Ops : /\ op[i].status \in Open \cup {"none", "prepared", "completed", "error"}
                      /\ op[i].action \in Actions \cup {"none"} /\ op[i].told \in {0, op[i].run}
                      /\ op[i].worker # "silent" => op[i].book \in {"lost", "unknown", op[i].worker}
    /\ expired \subseteq Ops /\ changes \in [seen : 0 .. MaxChanges, unseen : 0 .. MaxTroubles]
    /\ panel.selectedGroup \in Groups /\ panel.selectedRuns \in [Groups -> RunIds]
    /\ panel.runtime.group \in Groups \cup {"none"} /\ panel.ticket.op \in Ops \cup {0}
    /\ panel.receipt.op \in Ops \cup {0} /\ panel.receipt.run \in RunIds
    /\ \A l \in runtimeLoads : l.kind \in {"poll", "load"} /\ l.runtime.group \in Groups
    /\ asking.what \in Actions \cup {"none", "preflight", "refused"} /\ asking.op \in Ops \cup {0, -1}
    /\ executing.ticket.op \in Ops \cup {0} /\ polled.receipt.op \in Ops \cup {0}

\* The ticket on the screen is for the group and run that are selected and, for a start, for
\* the settings shown: neither a late answer, a new configuration nor a run that appears
\* leaves an older one to be confirmed.
TicketIsCurrent ==
    panel.ticket # NoTicket =>
        /\ panel.ticket.scope = Scope(panel)
        /\ panel.ticket.action = "start" => panel.ticket.inputs = Inputs(panel)

\* A receipt is shown with the group it is about, and one that tells of a started run with
\* that run selected.
ReceiptIsCurrent ==
    panel.receipt # NoReceipt =>
        /\ panel.receipt.group = panel.selectedGroup
        /\ panel.receipt.action = "start" /\ panel.receipt.run # 0 => panel.receipt.run = SelectedRun(panel)

\* What nobody can find out: the supervisor never recorded the operation and its answer was lost, or
\* it does not know the outcome and asks no worker, or the worker has none.
Undecided(i) ==
    \/ op[i].book \in {"gone", "refused"} /\ op[i].status \in Open
    \/ op[i].book \in {"lost", "unknown"} /\ (op[i].action \notin Reconciled \/ op[i].worker = "silent")

\* An open receipt does not stay open for ever once the backend has heard of the operation, unless
\* nobody can find out how that ended: neither time limits, a late "unknown" written over a row
\* nor a lost answer keeps it open (refreshReceipt, group_receipt_route, receipt).
ReceiptSettles ==
    \A i \in Ops : ~<>[](/\ panel.receipt.op = i /\ ReceiptOpen(panel)
                        /\ op[i].status \notin {"none", "prepared"} /\ ~Undecided(i))
=============================================================================
