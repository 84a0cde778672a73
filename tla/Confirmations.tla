---------------------------- MODULE Confirmations ----------------------------
(***************************************************************************)
(* Tickets and connections. An order, a start or a change of connections   *)
(* is prepared, shown and confirmed (OrderTicket.tsx, HeaderStatus.tsx,    *)
(* app.py); a query is answered (ApiWorkbench.tsx). All are meant for the  *)
(* connections of one epoch, which anybody may change in between. The      *)
(* backend performs what is confirmed one after the other, a start later.  *)
(***************************************************************************)
EXTENDS Integers

CONSTANTS
    MaxTickets,     \* bound: operations prepared
    MaxInputs       \* bound: times the operator types, times the page learns of an epoch

ASSUME ConfirmationsAssumption == {MaxTickets, MaxInputs} \subseteq Nat

VARIABLES
    epochNow,       \* profiles.epoch
    tickets,        \* by id: confirmations and the operations table
    writeLock,      \* the ticket that holds write_lock, 0 for none
    form, seen,     \* what the operator has typed, and the epoch the page knows
    preparing,      \* the order's prepare under way: its context, and its ticket
    dialog,         \* the ticket of OrderTicket on the screen
    query, answer,  \* the query of ApiWorkbench under way, and the result it shows
    inputs

deskVars == <<epochNow, tickets, writeLock>>
formVars == <<form, seen, preparing, dialog, query, answer>>
confirmVars == <<deskVars, formVars, inputs>>

Ids == 1 .. MaxTickets
OpKinds == {"order", "start", "switch"}

NoTicket1 == [status |-> "none", kind |-> "none", form |-> 0, epoch |-> 0, ran |-> 0]
NotPreparing == [context |-> <<>>, id |-> 0]
NoQuery == [scope |-> <<>>, at |-> "none", epoch |-> 0]

\* context of OrderTicket, scope of ApiWorkbench
Context == <<form, seen>>

ConfirmInit ==
    /\ epochNow = 1 /\ tickets = [i \in Ids |-> NoTicket1] /\ writeLock = 0
    /\ form = 0 /\ seen = 1 /\ preparing = NotPreparing /\ dialog = 0 /\ query = NoQuery /\ answer = 0
    /\ inputs = 0

-----------------------------------------------------------------------------
(* The pages.                                                              *)

Input == inputs < MaxInputs /\ inputs' = inputs + 1

\* The operator types, or chooses another instrument or operation: the ticket goes, and so
\* does a result that belongs to what was selected.
Type ==
    /\ Input /\ form' = 1 - form /\ dialog' = 0 /\ answer' = 0
    /\ UNCHANGED <<deskVars, seen, preparing, query>>

\* The page learns of an epoch, by push or by a read that was overtaken.
SeeEpoch(e) ==
    /\ Input /\ e # seen /\ seen' = e /\ form' = 0 /\ dialog' = 0 /\ answer' = 0
    /\ UNCHANGED <<deskVars, preparing, query>>

PrepareOrder ==
    /\ preparing = NotPreparing /\ dialog = 0 /\ preparing' = [context |-> Context, id |-> 0]
    /\ UNCHANGED <<deskVars, form, seen, dialog, query, answer, inputs>>

\* Seeded fault: a ticket is shown whatever was typed meanwhile.
StillTyped_Always == TRUE

StillTyped == preparing.context = Context

OrderPrepared ==
    /\ preparing.id # 0 /\ preparing' = NotPreparing
    /\ dialog' = IF StillTyped THEN preparing.id ELSE dialog
    /\ UNCHANGED <<deskVars, form, seen, query, answer, inputs>>

ConfirmOrder ==
    /\ dialog # 0 /\ dialog' = 0
    /\ tickets' = [tickets EXCEPT ![dialog].status = "sent"]
    /\ UNCHANGED <<epochNow, writeLock, form, seen, preparing, query, answer, inputs>>

AskQuery ==
    /\ query = NoQuery /\ query' = [scope |-> Context, at |-> "net", epoch |-> 0] /\ answer' = 0
    /\ UNCHANGED <<deskVars, form, seen, preparing, dialog, inputs>>

\* Seeded fault: a result is shown whatever is selected now.
StillSelected_Always == TRUE

\* currentScope.current === scope
StillSelected == query.scope = Context

QueryAnswered ==
    /\ query.at = "answered" /\ query' = NoQuery
    /\ answer' = IF StillSelected THEN query.epoch ELSE answer
    /\ UNCHANGED <<deskVars, form, seen, preparing, dialog, inputs>>

-----------------------------------------------------------------------------
(* The backend.                                                            *)

NewTicket(i, kind, f) ==
    /\ tickets[i] = NoTicket1 /\ \A j \in Ids : j < i => tickets[j] # NoTicket1
    /\ tickets' = [tickets EXCEPT ![i] = [status |-> IF kind = "order" THEN "prepared" ELSE "sent",
                                          kind |-> kind, form |-> f, epoch |-> epochNow, ran |-> 0]]

\* prepare_route. What another page prepares, a start or a change of the connections, is
\* confirmed there at once.
PrepareTicket(i) ==
    /\ \/ /\ preparing # NotPreparing /\ preparing.id = 0
          /\ NewTicket(i, "order", preparing.context[1]) /\ preparing' = [preparing EXCEPT !.id = i]
       \/ /\ \E kind \in {"start", "switch"} : NewTicket(i, kind, 0)
          /\ UNCHANGED preparing
    /\ UNCHANGED <<epochNow, writeLock, form, seen, dialog, query, answer, inputs>>

\* Seeded fault: execute_route does not take the lock.
LockFree_Ignored == TRUE

LockFree == writeLock = 0

\* execute_route once it has the lock: the ticket must be of this epoch. A start goes on in a
\* task of its own, which gives the lock back.
ExecuteTicket(i) ==
    /\ tickets[i].status = "sent" /\ LockFree
    /\ IF tickets[i].epoch # epochNow
       THEN tickets' = [tickets EXCEPT ![i].status = "error"] /\ UNCHANGED writeLock
       ELSE IF tickets[i].kind = "start"
       THEN tickets' = [tickets EXCEPT ![i].status = "processing"] /\ UNCHANGED writeLock
       ELSE tickets' = [tickets EXCEPT ![i].status = "performing"] /\ writeLock' = i
    /\ UNCHANGED <<epochNow, formVars, inputs>>

\* Seeded fault: the task does not look at the epoch again.
StillOfEpoch_Always(i) == TRUE

StillOfEpoch(i) == tickets[i].epoch = epochNow

\* Seeded fault: a start that is refused late keeps its row.
Refused_Silent(i) == tickets

Refused(i) == [tickets EXCEPT ![i].status = "error"]

\* finish_start
FinishStart(i) ==
    /\ tickets[i].status = "processing" /\ writeLock = 0
    /\ IF StillOfEpoch(i)
       THEN tickets' = [tickets EXCEPT ![i].status = "performing"] /\ writeLock' = i
       ELSE tickets' = Refused(i) /\ UNCHANGED writeLock
    /\ UNCHANGED <<epochNow, formVars, inputs>>

\* perform, after its await: an order has gone to the connections of the epoch; a change of
\* the connections, which were verified first, makes the next.
Perform(i) ==
    /\ tickets[i].status = "performing"
    /\ tickets' = [tickets EXCEPT ![i].status = "completed", ![i].ran = epochNow]
    /\ epochNow' = IF tickets[i].kind = "switch" THEN epochNow + 1 ELSE epochNow
    /\ writeLock' = 0
    /\ UNCHANGED <<formVars, inputs>>

\* query_route: asked of the connections of one epoch, and refused if it has passed.
QueryRoute ==
    /\ \/ query.at = "net" /\ query' = [query EXCEPT !.at = "exchange", !.epoch = epochNow]
       \/ query.at = "exchange" /\ query' = IF query.epoch = epochNow THEN [query EXCEPT !.at = "answered"] ELSE NoQuery
    /\ UNCHANGED <<deskVars, form, seen, preparing, dialog, answer, inputs>>

-----------------------------------------------------------------------------
ConfirmNext ==
    \/ Type \/ (\E e \in 1 .. epochNow : SeeEpoch(e))
    \/ PrepareOrder \/ OrderPrepared \/ ConfirmOrder \/ AskQuery \/ QueryAnswered
    \/ \E i \in Ids : PrepareTicket(i) \/ ExecuteTicket(i) \/ FinishStart(i) \/ Perform(i)
    \/ QueryRoute

ConfirmSpec == ConfirmInit /\ [][ConfirmNext]_confirmVars

-----------------------------------------------------------------------------
ConfirmTypeOK ==
    /\ epochNow \in 1 .. MaxTickets + 1 /\ seen \in 1 .. epochNow /\ form \in 0 .. 1
    /\ \A i \in Ids : /\ tickets[i].kind \in OpKinds \cup {"none"} /\ tickets[i].epoch \in 0 .. epochNow
                      /\ tickets[i].status \in {"none", "prepared", "sent", "processing", "performing", "completed", "error"}
    /\ {writeLock, preparing.id, dialog} \subseteq Ids \cup {0} /\ answer \in 0 .. epochNow
    /\ inputs \in 0 .. MaxInputs

\* What was confirmed is done with the connections that its ticket named, or not at all,
\* however long a change of the connections or another operation takes.
RanWithTicket == \A i \in Ids : tickets[i].status = "completed" => tickets[i].ran = tickets[i].epoch

\* The order in the dialog is the one in the form.
DialogIsForm == dialog # 0 => tickets[dialog].form = form

\* The result of a query is never of connections older than those the page shows.
AnswerIsCurrent == answer # 0 => answer >= seen

\* An operation that was accepted ends, and the lock is free again.
ConfirmedEnds ==
    \A i \in Ids : tickets[i].status \in {"processing", "performing"}
                   ~> tickets[i].status \in {"completed", "error"}
=============================================================================
