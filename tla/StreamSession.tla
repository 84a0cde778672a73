--------------------------- MODULE StreamSession ---------------------------
(***************************************************************************)
(* One terminal following one run: the gateway's stream_socket (lib.rs)    *)
(* with its broadcast receiver and the replay journal, the connection, and *)
(* TerminalClient with TerminalStreamStore (sdk-ts). A page follows the    *)
(* stream of one run at a time; changing the run stops and starts the      *)
(* client, which keeps its store.                                          *)
(*                                                                         *)
(* An event is abstracted to the entity it updates. For a stream, a view   *)
(* gives the sequence of the last event shown for each entity, 0 if none.  *)
(***************************************************************************)
EXTENDS Integers, Sequences, FiniteSets

CONSTANTS
    Streams,    \* run.<id>
    Entities,   \* entity keys of a stream: orders, fills, quotes, ...
    Market,     \* the entities whose events are conflated: quotes and books
    Capacity,   \* 8192 in the code: events the broadcast channel keeps for a receiver
    MaxEvents,  \* bound: events of all streams
    MaxBreaks   \* bound: broken connections, sessions revoked and changes of the run

ASSUME StreamAssumption ==
    /\ "none" \notin Streams /\ Market \subseteq Entities /\ Capacity \in Nat \ {0}
    /\ MaxEvents \in Nat /\ MaxBreaks \in Nat

VARIABLES
    log,        \* the replay journal: the entity of each event of a stream
    breaks,
    gatewaySession,    \* the gateway's end of the connection
    queue,      \* events the session's receiver holds
    lagged,     \* the receiver lost events
    net,        \* messages on their way to the client
    topic,      \* the run the page shows
    socket,     \* the client's end: "open", "closed" (a retry is due) or "stopped"
    phase, positions, view, pending, staged     \* the store

gatewayVars == <<gatewaySession, queue, lagged>>
storeVars == <<phase, positions, view, pending, staged>>
streamVars == <<log, breaks, gatewayVars, net, topic, socket, storeVars>>

NoPositions == [s \in Streams |-> 0]
NoView == [s \in Streams |-> [k \in Entities |-> 0]]
NoSession == [pc |-> "none", topic |-> "none", resume |-> NoPositions, position |-> 0]
NoStage == [stream |-> "none", last |-> 0, rows |-> [k \in Entities |-> 0]]

StreamInit ==
    /\ log = [s \in Streams |-> <<>>] /\ breaks = 0
    /\ gatewaySession = NoSession /\ queue = <<>> /\ lagged = FALSE /\ net = <<>>
    /\ topic \in Streams /\ socket = "closed"
    /\ phase = "connecting" /\ positions = NoPositions /\ view = NoView
    /\ pending = NoView /\ staged = NoStage

-----------------------------------------------------------------------------
(* The gateway.                                                            *)

Published == UNION {{s} \X DOMAIN log[s] : s \in Streams}

\* publish_batch: the journal commits the event and it is sent to the receivers, under
\* the lock that snapshots take too. A full receiver loses its oldest event.
Publish(s, k) ==
    /\ Cardinality(Published) < MaxEvents
    /\ log' = [log EXCEPT ![s] = Append(@, k)]
    /\ IF gatewaySession.pc \notin {"open", "live"} THEN UNCHANGED <<queue, lagged>>
       ELSE /\ queue' = IF Len(queue) < Capacity THEN Append(queue, [stream |-> s, seq |-> Len(log[s]) + 1])
                        ELSE Append(Tail(queue), [stream |-> s, seq |-> Len(log[s]) + 1])
            /\ lagged' = (lagged \/ Len(queue) = Capacity)
    /\ UNCHANGED <<breaks, gatewaySession, net, topic, socket, storeVars>>

\* stream_socket reads the hello and subscribes its receiver.
Hello ==
    /\ gatewaySession.pc = "new"
    /\ gatewaySession' = [gatewaySession EXCEPT !.pc = "open"] /\ queue' = <<>> /\ lagged' = FALSE
    /\ UNCHANGED <<log, breaks, net, topic, socket, storeVars>>

\* The events of a stream after one sequence and up to another (Journal::after).
After(s, from, to) ==
    [i \in 1 .. to - from |-> [type |-> "event", stream |-> s, last |-> from + i, rows |-> log[s][from + i]]]

Updates(s, k, to) == {0} \cup {i \in 1 .. to : log[s][i] = k}

\* Journal::snapshot: the last event of each entity.
Latest(s, to) ==
    [k \in Entities |-> CHOOSE i \in Updates(s, k, to) : \A j \in Updates(s, k, to) : j <= i]

\* Every stream the snapshot knows has a resume position it can replay from.
Replayable(s) == log[s] # <<>> /\ gatewaySession.resume[s] \in 1 .. Len(log[s])

\* Seeded fault: a replay is one page.
Initial_OnePage(s) ==
    LET last == Len(log[s])
        mark == [type |-> "end", stream |-> s, last |-> last, rows |-> 0]
    IN  IF Replayable(s)
        THEN Append(After(s, gatewaySession.resume[s], gatewaySession.resume[s] + (IF gatewaySession.resume[s] < last THEN 1 ELSE 0)), mark)
        ELSE <<[mark EXCEPT !.type = "begin"], [mark EXCEPT !.type = "batch", !.rows = Latest(s, last)], mark>>

\* What deliver_initial sends for a stream.
Initial(s) ==
    LET last == Len(log[s])
        mark == [type |-> "end", stream |-> s, last |-> last, rows |-> 0]
    IN  IF Replayable(s) THEN Append(After(s, gatewaySession.resume[s], last), mark)
        ELSE <<[mark EXCEPT !.type = "begin"], [mark EXCEPT !.type = "batch", !.rows = Latest(s, last)], mark>>

Subscribe ==
    /\ gatewaySession.pc = "open"
    /\ net' = net \o Initial(gatewaySession.topic)
    /\ gatewaySession' = [gatewaySession EXCEPT !.pc = "live", !.position = Len(log[gatewaySession.topic])]
    /\ UNCHANGED <<log, breaks, queue, lagged, topic, socket, storeVars>>

\* A receiver that lost events tells the client and ends; before a subscription too.
ReceiveLagged ==
    /\ gatewaySession.pc \in {"open", "live"} /\ lagged
    /\ net' = Append(net, [type |-> "error", stream |-> "none", last |-> 0, rows |-> 0])
    /\ gatewaySession' = [gatewaySession EXCEPT !.pc = "ended"]
    /\ UNCHANGED <<log, breaks, queue, lagged, topic, socket, storeVars>>

\* The next event is sent, after those between the session's position and it; events of
\* other streams, already sent or from before the subscription are skipped.
ReceiveEvent ==
    /\ gatewaySession.pc \in {"open", "live"} /\ ~lagged /\ queue # <<>>
    /\ queue' = Tail(queue)
    /\ LET e == Head(queue)
       IN  IF gatewaySession.pc = "live" /\ e.stream = gatewaySession.topic /\ e.seq > gatewaySession.position
           THEN /\ net' = net \o After(e.stream, gatewaySession.position, e.seq)
                /\ gatewaySession' = [gatewaySession EXCEPT !.position = e.seq]
           ELSE UNCHANGED <<net, gatewaySession>>
    /\ UNCHANGED <<log, breaks, lagged, topic, socket, storeVars>>

\* The session is revoked, cannot send for five seconds or fails to read its journal.
SessionEnds ==
    /\ gatewaySession.pc \in {"new", "open", "live"} /\ breaks < MaxBreaks /\ breaks' = breaks + 1
    /\ gatewaySession' = [gatewaySession EXCEPT !.pc = "ended"]
    /\ UNCHANGED <<log, queue, lagged, net, topic, socket, storeVars>>

-----------------------------------------------------------------------------
(* The client.                                                             *)

\* The view with the market events that wait for the next frame.
Overlay(s) == [k \in Entities |-> IF pending[s][k] > 0 THEN pending[s][k] ELSE view[s][k]]

\* store.disconnected(): pending market events are kept, a staged snapshot is not.
Disconnected ==
    /\ phase' = "disconnected" /\ staged' = NoStage
    /\ view' = [s \in Streams |-> Overlay(s)] /\ pending' = NoView
    /\ UNCHANGED positions

\* The connection is gone for both ends, with what was on its way.
Hangup == gatewaySession' = NoSession /\ queue' = <<>> /\ lagged' = FALSE /\ net' = <<>>

\* Seeded fault: the hello carries a list.
Connect_List ==
    /\ socket = "closed" /\ socket' = "open" /\ phase' = "connecting"
    /\ gatewaySession' = [NoSession EXCEPT !.pc = "new", !.topic = topic, !.resume = <<positions>>]
    /\ UNCHANGED <<log, breaks, queue, lagged, net, topic, positions, view, pending, staged>>

\* connect: hello with the positions of the store, and the subscription.
Connect ==
    /\ socket = "closed" /\ socket' = "open" /\ phase' = "connecting"
    /\ gatewaySession' = [NoSession EXCEPT !.pc = "new", !.topic = topic, !.resume = positions]
    /\ UNCHANGED <<log, breaks, queue, lagged, net, topic, positions, view, pending, staged>>

\* onclose, after a broken connection or once the messages of an ended session are read.
Closed ==
    /\ socket = "open" /\ socket' = "closed"
    /\ \/ gatewaySession.pc = "ended" /\ net = <<>> /\ UNCHANGED breaks
       \/ breaks < MaxBreaks /\ breaks' = breaks + 1
    /\ Hangup /\ Disconnected
    /\ UNCHANGED <<log, topic>>

\* The page leaves its run: client.stop().
Stop ==
    /\ socket # "stopped" /\ breaks < MaxBreaks /\ breaks' = breaks + 1
    /\ socket' = "stopped" /\ Hangup /\ Disconnected
    /\ UNCHANGED <<log, topic>>

\* The page shows a run: client.start().
Start(s) ==
    /\ socket = "stopped" /\ socket' = "closed" /\ topic' = s
    /\ UNCHANGED <<log, breaks, gatewayVars, net, storeVars>>

-----------------------------------------------------------------------------
(* TerminalStreamStore.ingest, one message.                                *)

\* What the store takes without an error and without noticing a gap.
Acceptable(m) ==
    CASE m.type = "begin" -> m.last >= positions[m.stream]
      [] m.type = "batch" -> staged # NoStage /\ \A k \in Entities : m.rows[k] <= staged.last
      [] m.type = "end"   -> IF staged # NoStage THEN m.last = staged.last
                             ELSE m.last <= positions[m.stream]
      [] m.type = "event" -> m.last <= positions[m.stream] + 1
      [] m.type = "error" -> FALSE

\* Seeded fault: the positions of a snapshot count from its beginning.
Begin_Positions(m) ==
    /\ staged' = [NoStage EXCEPT !.stream = m.stream, !.last = m.last] /\ phase' = "snapshot"
    /\ positions' = [positions EXCEPT ![m.stream] = m.last]
    /\ UNCHANGED <<view, pending>>

Begin(m) ==
    /\ staged' = [NoStage EXCEPT !.stream = m.stream, !.last = m.last] /\ phase' = "snapshot"
    /\ UNCHANGED <<positions, view, pending>>

Batch(m) ==
    /\ staged' = [staged EXCEPT !.rows = m.rows]
    /\ UNCHANGED <<phase, positions, view, pending>>

\* Seeded fault: only a snapshot ends the wait.
End_SnapshotOnly(m) ==
    /\ staged' = NoStage
    /\ IF staged = NoStage THEN UNCHANGED <<phase, positions, view, pending>>
       ELSE /\ positions' = [NoPositions EXCEPT ![staged.stream] = staged.last] /\ phase' = "live"
            /\ view' = [NoView EXCEPT ![staged.stream] = staged.rows]
            /\ pending' = NoView

\* A staged snapshot replaces all events and positions; a replay has brought its own.
End(m) ==
    /\ phase' = "live" /\ staged' = NoStage
    /\ IF staged = NoStage THEN UNCHANGED <<positions, view, pending>>
       ELSE /\ positions' = [NoPositions EXCEPT ![staged.stream] = staged.last]
            /\ view' = [NoView EXCEPT ![staged.stream] = staged.rows]
            /\ pending' = NoView

\* accept: a market event waits for the frame, any other is shown at once.
Accept(m) ==
    /\ IF m.last <= positions[m.stream] THEN UNCHANGED <<positions, view, pending>>
       ELSE /\ positions' = [positions EXCEPT ![m.stream] = m.last]
            /\ IF m.rows \in Market
               THEN pending' = [pending EXCEPT ![m.stream][m.rows] = m.last] /\ UNCHANGED view
               ELSE view' = [view EXCEPT ![m.stream][m.rows] = m.last] /\ UNCHANGED pending
    /\ UNCHANGED <<phase, staged>>

\* Anything else ends in reconnect(): the socket is closed and what it still holds dropped.
Ingest ==
    /\ socket = "open" /\ net # <<>>
    /\ LET m == Head(net)
       IN  IF ~Acceptable(m)
           THEN socket' = "closed" /\ Hangup /\ Disconnected
           ELSE /\ net' = Tail(net) /\ UNCHANGED <<socket, gatewayVars>>
                /\ CASE m.type = "begin" -> Begin(m)
                     [] m.type = "batch" -> Batch(m)
                     [] m.type = "end"   -> End(m)
                     [] OTHER            -> Accept(m)
    /\ UNCHANGED <<log, breaks, topic>>

\* The frame timer: pending market events are shown.
Frame ==
    /\ pending # NoView
    /\ view' = [s \in Streams |-> Overlay(s)] /\ pending' = NoView
    /\ UNCHANGED <<log, breaks, gatewayVars, net, topic, socket, phase, positions, staged>>

-----------------------------------------------------------------------------
SessionNext == Hello \/ Subscribe \/ ReceiveLagged \/ ReceiveEvent
ClientNext == Connect \/ Closed \/ Ingest \/ Frame

StreamNext ==
    \/ \E s \in Streams, k \in Entities : Publish(s, k)
    \/ SessionNext \/ SessionEnds
    \/ ClientNext \/ Stop \/ \E s \in Streams : Start(s)

-----------------------------------------------------------------------------
Message == [type : {"begin", "batch", "end", "event", "error"}, stream : Streams \cup {"none"}, last : Nat]

StreamTypeOK ==
    /\ log \in [Streams -> Seq(Entities)] /\ breaks \in Nat
    /\ gatewaySession \in [pc : {"none", "new", "open", "live", "ended"}, topic : Streams \cup {"none"},
                    resume : [Streams -> Nat], position : Nat]
    /\ queue \in Seq([stream : Streams, seq : Nat]) /\ lagged \in BOOLEAN
    /\ \A i \in DOMAIN net : [type |-> net[i].type, stream |-> net[i].stream, last |-> net[i].last] \in Message
    /\ topic \in Streams /\ socket \in {"open", "closed", "stopped"}
    /\ phase \in {"connecting", "snapshot", "live", "disconnected"}
    /\ positions \in [Streams -> Nat]
    /\ view \in [Streams -> [Entities -> Nat]] /\ pending \in [Streams -> [Entities -> Nat]]
    /\ staged \in [stream : Streams \cup {"none"}, last : Nat, rows : [Entities -> Nat]]

\* What the terminal shows is at every moment the journal as of the store's position: for
\* each entity its last event up to there, none missing and none older, through snapshots,
\* replays, conflated frames, lost connections and changes of the run (ingest, accept,
\* deliver_initial).
ShownIsJournal ==
    \A s \in Streams : positions[s] <= Len(log[s]) /\ Overlay(s) = Latest(s, positions[s])

\* The gateway never sends what the store refuses: no gap, no snapshot behind the store and
\* no replay short of its watermark, although snapshot and live events come from two sources
\* (deliver_initial's comment: the receiver is subscribed before the journal transaction).
ServerIsAccepted ==
    socket = "open" /\ net # <<>> /\ Head(net).type # "error" => Acceptable(Head(net))

\* A terminal that stays on a run shows all of it in the end, after lag and lost connections.
CatchesUp ==
    \A s \in Streams :
        <>[](socket # "stopped" /\ topic = s) => <>[](phase = "live" /\ positions[s] = Len(log[s]))
=============================================================================
