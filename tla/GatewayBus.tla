----------------------------- MODULE GatewayBus -----------------------------
(***************************************************************************)
(* The gateway's side of the event bus: bus::follow pulls messages from a  *)
(* durable JetStream consumer in small chunks, EventHub::publish_batch     *)
(* appends a chunk to the replay journal in one transaction, and each      *)
(* message is acknowledged afterwards. An error anywhere ends `follow`;    *)
(* main runs it again a second later. Messages left unacknowledged are     *)
(* redelivered.                                                            *)
(***************************************************************************)
EXTENDS Adapter

CONSTANTS
    InboxMax,       \* bound: messages in flight to the client
    MaxAckPending   \* max_ack_pending, 2048 in the code

ASSUME GatewayAssumption == InboxMax \in Nat \ {0} /\ MaxAckPending \in Nat \ {0}

VARIABLES
    cursor,         \* the consumer's position in js: messages delivered at least once (external)
    ackPending,     \* delivered and not acknowledged (external)
    inbox,          \* messages on their way to the gateway, as positions in js
    gphase,         \* what the follow task is doing
    chunk, at,      \* the chunk being handled, and the next message of it
    journal, pos,   \* event_log and stream_positions
    txJournal, txPos    \* the same inside append_many's transaction

consumerVars == <<cursor, ackPending>>
taskVars == <<inbox, gphase, chunk, at>>
journalVars == <<journal, pos>>
txVars == <<txJournal, txPos>>
gatewayVars == <<consumerVars, taskVars, journalVars, txVars>>

GatewayInit ==
    /\ cursor = 0 /\ ackPending = {}
    /\ inbox = <<>> /\ gphase = "down" /\ chunk = <<>> /\ at = 1
    /\ journal = {} /\ pos = [s \in Streams |-> 0]
    /\ txJournal = {} /\ txPos = [s \in Streams |-> 0]

-----------------------------------------------------------------------------
(* The consumer (external): new messages in storage order, redeliveries of *)
(* unacknowledged ones whenever their ack_wait has passed.                 *)

Deliver ==
    /\ gphase # "down" /\ Len(inbox) < InboxMax
    /\ cursor < Len(js) /\ Cardinality(ackPending) < MaxAckPending
    /\ cursor' = cursor + 1
    /\ ackPending' = ackPending \cup {cursor + 1}
    /\ inbox' = Append(inbox, cursor + 1)
    /\ UNCHANGED <<gphase, chunk, at, journalVars, txVars>>

Redeliver(i) ==
    /\ gphase # "down" /\ Len(inbox) < InboxMax
    /\ i \in ackPending
    /\ inbox' = Append(inbox, i)
    /\ UNCHANGED <<consumerVars, gphase, chunk, at, journalVars, txVars>>

-----------------------------------------------------------------------------
(* The follow task.                                                        *)

\* main's loop calls follow (again).
Follow ==
    /\ gphase = "down" /\ gphase' = "ready"
    /\ UNCHANGED <<consumerVars, inbox, chunk, at, journalVars, txVars>>

\* follow returns an error, or the process dies: what it held is dropped, an open
\* transaction is rolled back, and nothing is acknowledged.
FollowEnds ==
    /\ gphase' = "down" /\ inbox' = <<>> /\ chunk' = <<>> /\ at' = 1
    /\ txJournal' = journal /\ txPos' = pos
    /\ UNCHANGED <<consumerVars, journalVars>>

GatewayCrash ==
    /\ "gateway_crash" \in Faults /\ gphase # "down"
    /\ FollowEnds

\* chunks_timeout hands over what arrived within a millisecond, at most Batch.
TakeChunk(n) ==
    /\ gphase = "ready" /\ n \in 1 .. SmallerOf(Batch, Len(inbox))
    /\ gphase' = "appending"
    /\ chunk' = SubSeq(inbox, 1, n) /\ inbox' = SubSeq(inbox, n + 1, Len(inbox)) /\ at' = 1
    /\ txJournal' = journal /\ txPos' = pos
    /\ UNCHANGED <<consumerVars, journalVars>>

Message == js[chunk[at]]

\* The row of event_log with this identifier, or at this stream and sequence.
Prior(e) == {f \in txJournal : f.id = e.id \/ (f.stream = e.stream /\ f.seq = e.seq)}

Appending == gphase = "appending" /\ at <= Len(chunk)

\* Fault seeded for EveryRecordJournaled: a redelivered event is an error.
AppendDuplicate_Bails ==
    /\ Appending /\ Prior(Message) = {Message} /\ FollowEnds

AppendDuplicate ==
    /\ Appending
    /\ Prior(Message) = {Message}
    /\ at' = at + 1
    /\ UNCHANGED <<consumerVars, inbox, gphase, chunk, journalVars, txVars>>

\* Fault seeded for JournalIsLogPrefix: the sequence gap is not refused.
AppendNew_AnySequence ==
    /\ Appending /\ Prior(Message) = {}
    /\ txJournal' = txJournal \cup {Message}
    /\ txPos' = [txPos EXCEPT ![Message.stream] = Message.seq]
    /\ at' = at + 1
    /\ UNCHANGED <<consumerVars, inbox, gphase, chunk, journalVars>>

\* Fault seeded for JournalIsLogPrefix: one position is kept for all streams.
AppendNew_OnePosition ==
    /\ Appending
    /\ Prior(Message) = {} /\ Message.seq = txPos[Message.stream] + 1
    /\ txJournal' = txJournal \cup {Message}
    /\ txPos' = [s \in Streams |-> Message.seq]
    /\ at' = at + 1
    /\ UNCHANGED <<consumerVars, inbox, gphase, chunk, journalVars>>

AppendNew ==
    /\ Appending
    /\ Prior(Message) = {} /\ Message.seq = txPos[Message.stream] + 1
    /\ txJournal' = txJournal \cup {Message}
    /\ txPos' = [txPos EXCEPT ![Message.stream] = Message.seq]
    /\ at' = at + 1
    /\ UNCHANGED <<consumerVars, inbox, gphase, chunk, journalVars>>

\* Reused identity or a sequence gap: append_many bails, the whole chunk is rolled back
\* and follow ends.
Refused(e) ==
    IF Prior(e) = {} THEN e.seq # txPos[e.stream] + 1 ELSE Prior(e) # {e}

AppendRefused ==
    /\ Appending
    /\ Refused(Message)
    /\ FollowEnds

CommitChunk ==
    /\ gphase = "appending" /\ at > Len(chunk)
    /\ journal' = txJournal /\ pos' = txPos
    /\ gphase' = "acking" /\ at' = 1
    /\ UNCHANGED <<consumerVars, inbox, chunk, txVars>>

\* message.ack(): the acknowledgement reaches the consumer, or is lost on the way.
AckMessage(arrives) ==
    /\ gphase = "acking" /\ at <= Len(chunk)
    /\ arrives \/ "gateway_ack_lost" \in Faults
    /\ ackPending' = IF arrives THEN ackPending \ {chunk[at]} ELSE ackPending
    /\ at' = at + 1
    /\ UNCHANGED <<cursor, inbox, gphase, chunk, journalVars, txVars>>

ChunkDone ==
    /\ gphase = "acking" /\ at > Len(chunk)
    /\ gphase' = "ready" /\ chunk' = <<>> /\ at' = 1
    /\ UNCHANGED <<consumerVars, inbox, journalVars, txVars>>

\* What the follow task always goes on to do.
FollowStep ==
    \/ Follow
    \/ \E n \in 1 .. Batch : TakeChunk(n)
    \/ AppendDuplicate \/ AppendNew \/ AppendRefused \/ CommitChunk
    \/ AckMessage(TRUE) \/ ChunkDone

GatewayFault == GatewayCrash \/ AckMessage(FALSE)

GatewayNext ==
    \/ Deliver
    \/ \E i \in ackPending : Redeliver(i)
    \/ FollowStep
    \/ GatewayFault
=============================================================================
