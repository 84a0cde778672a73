------------------------- MODULE ConfirmationsProofs -------------------------
(***************************************************************************)
(* Proofs about tickets and connections, for any number of tickets, and    *)
(* however often the operator types and the page learns of an epoch.       *)
(***************************************************************************)
EXTENDS Confirmations, TLAPS

Statuses == {"none", "prepared", "sent", "processing", "performing", "completed", "error"}
Ticket == [status : Statuses, kind : OpKinds \cup {"none"}, form : 0 .. 1, epoch : Nat, ran : Nat]
Contexts == (0 .. 1) \X (Nat \ {0})

DeskTypes ==
    /\ epochNow \in Nat \ {0} /\ tickets \in [Ids -> Ticket] /\ writeLock \in Ids \cup {0}

FormTypes ==
    /\ form \in 0 .. 1 /\ seen \in 1 .. epochNow /\ dialog \in Ids \cup {0} /\ answer \in Nat
    /\ preparing = NotPreparing \/ preparing \in [context : Contexts, id : Ids \cup {0}]
    /\ query = NoQuery \/ query \in [scope : Contexts, at : {"net", "exchange", "answered"}, epoch : Nat]

\* While a ticket is performed the lock is its own, and the connections are those of the
\* ticket: only who holds the lock changes them. This is what makes RanWithTicket inductive.
LockInv ==
    /\ \A i \in Ids : tickets[i].status = "performing" => writeLock = i /\ tickets[i].epoch = epochNow
    /\ RanWithTicket

\* The ticket that the page waits for, and the one it shows, exist and keep the form they
\* were prepared with.
DialogInv ==
    /\ preparing.id # 0 => /\ tickets[preparing.id].status # "none"
                           /\ tickets[preparing.id].form = preparing.context[1]
    /\ dialog # 0 => tickets[dialog].status # "none"
    /\ DialogIsForm

\* A query is answered from connections no older than those the page knew when it asked.
QueryInv ==
    /\ query # NoQuery => query.scope[2] <= epochNow
    /\ query.at \in {"exchange", "answered"} => query.epoch >= query.scope[2]
    /\ AnswerIsCurrent

ConfirmInv == DeskTypes /\ FormTypes /\ LockInv /\ DialogInv /\ QueryInv

-----------------------------------------------------------------------------
LEMMA ConfirmStart == ConfirmInit => ConfirmInv
<1> SUFFICES ASSUME ConfirmInit PROVE ConfirmInv
  OBVIOUS
<1>1. NoTicket1 \in Ticket
  BY DEF NoTicket1, Ticket, Statuses
<1>2. DeskTypes /\ FormTypes
  BY <1>1 DEF ConfirmInit, DeskTypes, FormTypes
<1>3. LockInv
  BY DEF ConfirmInit, LockInv, RanWithTicket, NoTicket1
<1>4. DialogInv
  BY DEF ConfirmInit, DialogInv, DialogIsForm, NotPreparing
<1>5. QueryInv
  BY DEF ConfirmInit, QueryInv, AnswerIsCurrent, NoQuery
<1> QED BY <1>2, <1>3, <1>4, <1>5 DEF ConfirmInv

\* A step that leaves the backend alone: what the operator types and what the page asks.
LEMMA FormStep ==
    ASSUME ConfirmInv,
           \/ Type \/ (\E e \in 1 .. epochNow : SeeEpoch(e))
           \/ PrepareOrder \/ OrderPrepared \/ AskQuery \/ QueryAnswered
    PROVE  ConfirmInv'
<1> USE DEF ConfirmInv, deskVars
<1>1. DeskTypes' /\ LockInv'
  <2>1. UNCHANGED deskVars
    BY DEF Type, SeeEpoch, PrepareOrder, OrderPrepared, AskQuery, QueryAnswered
  <2> QED BY <2>1 DEF DeskTypes, LockInv, RanWithTicket
<1>2. CASE Type
  BY <1>1, <1>2 DEF Type, FormTypes, DialogInv, DialogIsForm, QueryInv, AnswerIsCurrent
<1>3. CASE \E e \in 1 .. epochNow : SeeEpoch(e)
  BY <1>1, <1>3 DEF SeeEpoch, FormTypes, DialogInv, DialogIsForm, QueryInv, AnswerIsCurrent
<1>4. CASE PrepareOrder
  <2>1. preparing' = [context |-> Context, id |-> 0] /\ Context \in Contexts
    BY <1>4 DEF PrepareOrder, Context, Contexts, FormTypes, DeskTypes
  <2>2. FormTypes'
    BY <1>4, <2>1 DEF PrepareOrder, FormTypes
  <2> QED BY <1>1, <1>4, <2>1, <2>2 DEF PrepareOrder, DialogInv, DialogIsForm, QueryInv, AnswerIsCurrent
<1>5. CASE OrderPrepared
  <2>1. preparing \in [context : Contexts, id : Ids \cup {0}]
    BY <1>5 DEF OrderPrepared, FormTypes, NotPreparing
  <2>2. StillTyped => preparing.context[1] = form
    BY DEF StillTyped, Context
  <2>3. FormTypes'
    BY <1>5, <2>1 DEF OrderPrepared, FormTypes
  <2>4. DialogInv'
    BY <1>5, <2>1, <2>2 DEF OrderPrepared, DialogInv, DialogIsForm, NotPreparing
  <2> QED BY <1>1, <1>5, <2>3, <2>4 DEF OrderPrepared, QueryInv, AnswerIsCurrent
<1>6. CASE AskQuery
  <2>1. query' = [scope |-> Context, at |-> "net", epoch |-> 0] /\ Context \in Contexts /\ Context[2] = seen
    BY <1>6 DEF AskQuery, Context, Contexts, FormTypes, DeskTypes
  <2>2. FormTypes'
    BY <1>6, <2>1 DEF AskQuery, FormTypes
  <2>3. QueryInv'
    BY <1>6, <2>1 DEF AskQuery, QueryInv, AnswerIsCurrent, FormTypes
  <2> QED BY <1>1, <1>6, <2>2, <2>3 DEF AskQuery, DialogInv, DialogIsForm
<1>7. CASE QueryAnswered
  <2>1. query \in [scope : Contexts, at : {"net", "exchange", "answered"}, epoch : Nat]
    BY <1>7 DEF QueryAnswered, FormTypes, NoQuery
  <2>2. StillSelected => query.scope[2] = seen
    BY DEF StillSelected, Context
  <2>3. FormTypes'
    BY <1>7, <2>1 DEF QueryAnswered, FormTypes
  <2>4. QueryInv'
    BY <1>7, <2>1, <2>2 DEF QueryAnswered, QueryInv, AnswerIsCurrent, NoQuery
  <2> QED BY <1>1, <1>7, <2>3, <2>4 DEF QueryAnswered, DialogInv, DialogIsForm
<1> QED BY <1>2, <1>3, <1>4, <1>5, <1>6, <1>7

\* A ticket is made, confirmed, refused, begun or performed.
LEMMA DeskStep ==
    ASSUME ConfirmInv, NEW i \in Ids,
           PrepareTicket(i) \/ ExecuteTicket(i) \/ FinishStart(i) \/ Perform(i)
    PROVE  ConfirmInv'
<1> USE DEF ConfirmInv
<1>0. /\ tickets \in [Ids -> Ticket] /\ \A j \in Ids : tickets[j] \in Ticket
      /\ \A j \in Ids : j # 0
  BY DEF DeskTypes, Ids
<1>1. CASE PrepareTicket(i)
  <2>1. PICK kind \in OpKinds, f \in 0 .. 1 :
            /\ NewTicket(i, kind, f)
            /\ \/ /\ preparing # NotPreparing /\ preparing.id = 0
                  /\ f = preparing.context[1] /\ preparing' = [preparing EXCEPT !.id = i]
               \/ UNCHANGED preparing
    <3>1. CASE /\ preparing # NotPreparing /\ preparing.id = 0
               /\ NewTicket(i, "order", preparing.context[1]) /\ preparing' = [preparing EXCEPT !.id = i]
      <4>1. preparing.context[1] \in 0 .. 1
        BY <3>1 DEF FormTypes, Contexts
      <4> QED BY <3>1, <4>1 DEF OpKinds
    <3>2. CASE (\E kind \in {"start", "switch"} : NewTicket(i, kind, 0)) /\ UNCHANGED preparing
      BY <3>2 DEF OpKinds
    <3> QED BY <1>1, <3>1, <3>2 DEF PrepareTicket
  <2> DEFINE new == [status |-> IF kind = "order" THEN "prepared" ELSE "sent",
                     kind |-> kind, form |-> f, epoch |-> epochNow, ran |-> 0]
  <2>2. /\ new \in Ticket /\ new.status \in {"prepared", "sent"} /\ new.form = f
        /\ tickets' = [tickets EXCEPT ![i] = new] /\ tickets[i].status = "none"
    <3>2. epochNow \in Nat
      BY DEF DeskTypes
    <3>3. new \in Ticket /\ new.status \in {"prepared", "sent"} /\ new.form = f
      BY <3>2 DEF Ticket, Statuses
    <3>4. tickets[i].status = "none"
      BY <2>1 DEF NewTicket, NoTicket1
    <3> QED BY <2>1, <3>3, <3>4 DEF NewTicket
  <2> HIDE DEF new
  <2>3. /\ UNCHANGED <<epochNow, writeLock, form, seen, dialog, query, answer>>
        /\ \A j \in Ids : tickets'[j] = IF j = i THEN new ELSE tickets[j]
    BY <1>0, <1>1, <2>2 DEF PrepareTicket
  <2>4. DeskTypes'
    BY <1>0, <2>2, <2>3 DEF DeskTypes
  <2>5. FormTypes'
    BY <2>1, <2>3 DEF FormTypes
  <2>6. LockInv'
    BY <2>2, <2>3 DEF LockInv, RanWithTicket
  <2>7. DialogInv'
    <3>1. dialog' # 0 => tickets'[dialog].status # "none" /\ tickets'[dialog].form = form'
      BY <2>2, <2>3 DEF DialogInv, DialogIsForm, FormTypes
    <3>2. CASE /\ preparing # NotPreparing /\ preparing.id = 0
               /\ f = preparing.context[1] /\ preparing' = [preparing EXCEPT !.id = i]
      <4>1. preparing'.id = i /\ preparing'.context[1] = f
        BY <3>2 DEF FormTypes
      <4> QED BY <2>2, <2>3, <3>1, <4>1 DEF DialogInv, DialogIsForm
    <3>3. CASE UNCHANGED preparing
      <4>1. preparing.id \in Ids \cup {0}
        BY DEF FormTypes, NotPreparing
      <4> QED BY <2>2, <2>3, <3>1, <3>3, <4>1 DEF DialogInv, DialogIsForm
    <3> QED BY <2>1, <3>2, <3>3
  <2>8. QueryInv'
    BY <2>3 DEF QueryInv, AnswerIsCurrent
  <2> QED BY <2>4, <2>5, <2>6, <2>7, <2>8
<1>2. CASE ExecuteTicket(i) \/ FinishStart(i)
  <2>1. PICK status \in {"error", "processing", "performing"} :
            /\ tickets' = [tickets EXCEPT ![i].status = status]
            /\ IF status = "performing" THEN writeLock' = i /\ tickets[i].epoch = epochNow
               ELSE UNCHANGED writeLock
    BY <1>2 DEF ExecuteTicket, FinishStart, Refused, StillOfEpoch
  <2>2. /\ UNCHANGED <<epochNow, form, seen, preparing, dialog, query, answer>>
        /\ writeLock = 0
    BY <1>2 DEF ExecuteTicket, FinishStart, formVars, LockFree
  <2>3. \A j \in Ids : /\ tickets'[j] \in Ticket
                       /\ tickets'[j].form = tickets[j].form /\ tickets'[j].epoch = tickets[j].epoch
                       /\ tickets'[j].ran = tickets[j].ran
                       /\ tickets'[j].status = IF j = i THEN status ELSE tickets[j].status
    BY <1>0, <2>1 DEF Ticket, Statuses
  <2>4. DeskTypes'
    BY <1>0, <2>1, <2>2, <2>3 DEF DeskTypes
  <2>5. LockInv'
    <3>1. \A j \in Ids : tickets[j].status # "performing"
      BY <1>0, <2>2 DEF LockInv
    <3>2. RanWithTicket'
      BY <2>1, <2>3 DEF LockInv, RanWithTicket
    <3>3. \A j \in Ids : tickets'[j].status = "performing" => j = i /\ status = "performing"
      BY <2>3, <3>1
    <3>4. \A j \in Ids : tickets'[j].status = "performing" => writeLock' = j /\ tickets'[j].epoch = epochNow'
      BY <2>1, <2>2, <2>3, <3>3
    <3> QED BY <3>2, <3>4 DEF LockInv
  <2>6. preparing.id \in Ids \cup {0} /\ dialog \in Ids \cup {0}
    BY DEF FormTypes, NotPreparing
  <2>7. DialogInv'
    <3>1. /\ preparing.id # 0 => /\ tickets'[preparing.id].status # "none"
                                 /\ tickets'[preparing.id].form = preparing.context[1]
          /\ dialog # 0 => tickets'[dialog].status # "none" /\ tickets'[dialog].form = form
      BY <2>1, <2>3, <2>6 DEF DialogInv, DialogIsForm
    <3>2. preparing' = preparing /\ dialog' = dialog /\ form' = form
      BY <2>2
    <3> QED BY <3>1, <3>2 DEF DialogInv, DialogIsForm
  <2> QED BY <2>2, <2>4, <2>5, <2>7 DEF FormTypes, QueryInv, AnswerIsCurrent
<1>3. CASE Perform(i)
  <2>1. /\ tickets[i].status = "performing" /\ writeLock' = 0
        /\ tickets' = [tickets EXCEPT ![i].status = "completed", ![i].ran = epochNow]
        /\ epochNow' \in {epochNow, epochNow + 1}
        /\ UNCHANGED <<form, seen, preparing, dialog, query, answer>>
    BY <1>3 DEF Perform, formVars
  <2>2. \A j \in Ids : /\ tickets'[j] \in Ticket
                       /\ tickets'[j].form = tickets[j].form /\ tickets'[j].epoch = tickets[j].epoch
                       /\ tickets'[j].ran = IF j = i THEN epochNow ELSE tickets[j].ran
                       /\ tickets'[j].status = IF j = i THEN "completed" ELSE tickets[j].status
    BY <1>0, <2>1 DEF Ticket, Statuses, DeskTypes
  <2>3. \A j \in Ids : j # i => tickets[j].status # "performing"
    BY <2>1 DEF LockInv
  <2>4. DeskTypes'
    BY <1>0, <2>1, <2>2 DEF DeskTypes
  <2>5. LockInv'
    <3>1. tickets[i].epoch = epochNow
      BY <2>1 DEF LockInv
    <3>2. RanWithTicket'
      BY <2>2, <3>1 DEF LockInv, RanWithTicket
    <3>3. \A j \in Ids : tickets'[j].status # "performing"
      BY <2>2, <2>3
    <3> QED BY <3>2, <3>3 DEF LockInv
  <2>6. preparing.id \in Ids \cup {0} /\ dialog \in Ids \cup {0}
    BY DEF FormTypes, NotPreparing
  <2>7. DialogInv'
    <3>1. /\ preparing.id # 0 => /\ tickets'[preparing.id].status # "none"
                                 /\ tickets'[preparing.id].form = preparing.context[1]
          /\ dialog # 0 => tickets'[dialog].status # "none" /\ tickets'[dialog].form = form
      BY <2>2, <2>6 DEF DialogInv, DialogIsForm
    <3>2. preparing' = preparing /\ dialog' = dialog /\ form' = form
      BY <2>1
    <3> QED BY <3>1, <3>2 DEF DialogInv, DialogIsForm
  <2>8. FormTypes' /\ QueryInv'
    <3>1. epochNow \in Nat /\ epochNow' >= epochNow /\ epochNow' \in Nat
      BY <2>1 DEF DeskTypes
    <3>2. FormTypes'
      BY <2>1, <3>1 DEF FormTypes
    <3>3. query # NoQuery => query.scope[2] \in Nat
      BY DEF FormTypes, Contexts
    <3>4. QueryInv'
      BY <2>1, <3>1, <3>3 DEF QueryInv, AnswerIsCurrent
    <3> QED BY <3>2, <3>4
  <2> QED BY <2>4, <2>5, <2>7, <2>8
<1> QED BY <1>1, <1>2, <1>3

LEMMA ConfirmOrderStep == ConfirmInv /\ ConfirmOrder => ConfirmInv'
<1> SUFFICES ASSUME ConfirmInv, ConfirmOrder PROVE ConfirmInv'
  OBVIOUS
<1> USE DEF ConfirmInv
<1>1. /\ dialog \in Ids /\ dialog' = 0 /\ tickets' = [tickets EXCEPT ![dialog].status = "sent"]
      /\ UNCHANGED <<epochNow, writeLock, form, seen, preparing, query, answer>>
  BY DEF ConfirmOrder, FormTypes
<1>2. \A j \in Ids : /\ tickets'[j] \in Ticket
                     /\ tickets'[j].form = tickets[j].form /\ tickets'[j].epoch = tickets[j].epoch
                     /\ tickets'[j].ran = tickets[j].ran
                     /\ tickets'[j].status = IF j = dialog THEN "sent" ELSE tickets[j].status
  BY <1>1 DEF Ticket, Statuses, DeskTypes
<1>3. DeskTypes' /\ FormTypes'
  BY <1>1, <1>2 DEF DeskTypes, FormTypes
<1>4. LockInv'
  BY <1>1, <1>2 DEF LockInv, RanWithTicket
<1>5. preparing.id \in Ids \cup {0}
  BY DEF FormTypes, NotPreparing
<1>6. DialogInv'
  BY <1>1, <1>2, <1>5 DEF DialogInv, DialogIsForm
<1> QED BY <1>1, <1>3, <1>4, <1>6 DEF QueryInv, AnswerIsCurrent

LEMMA QueryRouteStep == ConfirmInv /\ QueryRoute => ConfirmInv'
<1> SUFFICES ASSUME ConfirmInv, QueryRoute PROVE ConfirmInv'
  OBVIOUS
<1> USE DEF ConfirmInv
<1>1. UNCHANGED <<epochNow, tickets, writeLock, form, seen, dialog, preparing, answer>>
  BY DEF QueryRoute, deskVars
<1>2. query \in [scope : Contexts, at : {"net", "exchange", "answered"}, epoch : Nat]
  BY DEF QueryRoute, FormTypes, NoQuery
<1>3. query.scope[2] \in Nat /\ epochNow \in Nat
  BY <1>2 DEF Contexts, DeskTypes
<1>4. \/ query' = [query EXCEPT !.at = "exchange", !.epoch = epochNow]
      \/ query' = [query EXCEPT !.at = "answered"] /\ query.at = "exchange"
      \/ query' = NoQuery
  BY DEF QueryRoute
<1>5. FormTypes'
  BY <1>1, <1>2, <1>3, <1>4 DEF FormTypes
<1>6. QueryInv'
  <2>1. query # NoQuery /\ query.scope[2] <= epochNow
    BY <1>2 DEF QueryInv, QueryRoute, NoQuery
  <2>2. AnswerIsCurrent'
    BY <1>1 DEF QueryInv, AnswerIsCurrent
  <2>3. CASE query' = [query EXCEPT !.at = "exchange", !.epoch = epochNow]
    <3>1. query'.scope = query.scope /\ query'.epoch = epochNow
      BY <1>2, <2>3
    <3> QED BY <1>1, <1>3, <2>1, <2>2, <3>1 DEF QueryInv
  <2>4. CASE query' = [query EXCEPT !.at = "answered"] /\ query.at = "exchange"
    <3>1. query'.scope = query.scope /\ query'.epoch = query.epoch
      BY <1>2, <2>4
    <3> QED BY <1>1, <2>1, <2>2, <2>4, <3>1 DEF QueryInv
  <2>5. CASE query' = NoQuery
    BY <2>2, <2>5 DEF QueryInv, NoQuery
  <2> QED BY <1>4, <2>3, <2>4, <2>5
<1> QED BY <1>1, <1>5, <1>6 DEF DeskTypes, LockInv, RanWithTicket, DialogInv, DialogIsForm

LEMMA ConfirmStep == ConfirmInv /\ [ConfirmNext]_confirmVars => ConfirmInv'
<1> SUFFICES ASSUME ConfirmInv, [ConfirmNext]_confirmVars PROVE ConfirmInv'
  OBVIOUS
<1>1. CASE ConfirmNext
  BY <1>1, FormStep, DeskStep, ConfirmOrderStep, QueryRouteStep DEF ConfirmNext
<1>2. CASE UNCHANGED confirmVars
  BY <1>2 DEF confirmVars, deskVars, formVars, ConfirmInv, DeskTypes, FormTypes, LockInv, RanWithTicket,
              DialogInv, DialogIsForm, QueryInv, AnswerIsCurrent
<1> QED BY <1>1, <1>2

-----------------------------------------------------------------------------
\* What is confirmed runs with the connections of its ticket: finish_start and execute_route
\* look at the epoch under the lock that a change of the connections needs too.
THEOREM ConfirmedRunsWithTicket == ConfirmSpec => []RanWithTicket
<1>1. ConfirmInv => RanWithTicket
  BY DEF ConfirmInv, LockInv
<1> QED BY <1>1, ConfirmStart, ConfirmStep, PTL DEF ConfirmSpec

\* The dialog never asks to confirm another order than the one in the form.
THEOREM DialogShowsForm == ConfirmSpec => []DialogIsForm
<1>1. ConfirmInv => DialogIsForm
  BY DEF ConfirmInv, DialogInv
<1> QED BY <1>1, ConfirmStart, ConfirmStep, PTL DEF ConfirmSpec

\* A result on the screen is never of connections older than those the page shows.
THEOREM QueryAnswerIsCurrent == ConfirmSpec => []AnswerIsCurrent
<1>1. ConfirmInv => AnswerIsCurrent
  BY DEF ConfirmInv, QueryInv
<1> QED BY <1>1, ConfirmStart, ConfirmStep, PTL DEF ConfirmSpec
=============================================================================
