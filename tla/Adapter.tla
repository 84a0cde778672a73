------------------------------ MODULE Adapter ------------------------------
(***************************************************************************)
(* The Nautilus adapter: it tails a run's persisted event log, commits     *)
(* source offset, stream sequences and pending envelopes in one SQLite     *)
(* transaction (outbox.rs), and publishes the pending rows to JetStream    *)
(* under their event identifier (main.rs).                                 *)
(*                                                                         *)
(* A record of the log is abstracted to the stream it belongs to, the      *)
(* sequence its writer supplied (0: none) and whether its line parses. An  *)
(* envelope keeps the position of its record in the log, so that the       *)
(* properties can say which record it carries.                             *)
(***************************************************************************)
EXTENDS Integers, FiniteSets, Sequences

CONSTANTS
    Streams,    \* stream names (run.<id>, market.<instrument>, ...)
    Records,    \* the records the log's writer may append
    Batch,      \* 256 in the code: rows per publication, lines per stage, messages per chunk
    MaxLog,     \* bound: length of the log
    MaxStored,  \* bound: the deduplication window only passes below this stream length
    Faults      \* the environment faults this instance exercises

ASSUME BatchAssumption == Batch \in Nat \ {0}
ASSUME RecordsAssumption == Records \subseteq [stream : Streams, seq : Nat, ok : BOOLEAN]
ASSUME BoundAssumption == MaxLog \in Nat /\ MaxStored \in Nat

VARIABLES
    log,        \* the persisted run log, one entry per complete line
    phase,      \* what the adapter process is doing
    offset,     \* source_offsets.offset, in lines
    seqs,       \* stream_sequences
    outbox,     \* rows of the outbox table
    nextId,     \* source of fresh UUIDv7 event identifiers
    txOffset, txSeqs, txOutbox, txNextId,   \* the same four inside the open transaction
    txEnd,      \* the cursor after the lines read for this batch
    sending,    \* rows of the pending batch not yet handed to JetStream
    acked,      \* identifiers whose publication was acknowledged
    js,         \* the JetStream stream, in storage order (external)
    window      \* identifiers JetStream still deduplicates (external)

committed == <<offset, seqs, outbox, nextId>>
transaction == <<txOffset, txSeqs, txOutbox, txNextId, txEnd>>
publication == <<sending, acked>>
jetVars == <<js, window>>
adapterVars == <<log, phase, committed, transaction, publication, jetVars>>

Event == [id : Nat, src : Nat, stream : Streams, seq : Nat]

AdapterInit ==
    /\ log = <<>> /\ phase = "down"
    /\ offset = 0 /\ seqs = [s \in Streams |-> 0] /\ outbox = {} /\ nextId = 1
    /\ txOffset = 0 /\ txSeqs = [s \in Streams |-> 0] /\ txOutbox = {} /\ txNextId = 1
    /\ txEnd = 0 /\ sending = {} /\ acked = {}
    /\ js = <<>> /\ window = {}

\* The trading process appends a line to its run log.
WriteRecord(r) ==
    /\ Len(log) < MaxLog
    /\ log' = Append(log, r)
    /\ UNCHANGED <<phase, committed, transaction, publication, jetVars>>

-----------------------------------------------------------------------------
(* The adapter process: main's start-up and loop.                          *)

\* Fault seeded for NeverBackwards: a restart reads the file from its beginning.
AdapterStart_FromScratch ==
    /\ phase = "down" /\ phase' = "idle" /\ offset' = 0
    /\ UNCHANGED <<log, seqs, outbox, nextId, transaction, publication, jetVars>>

\* main opens the outbox, binds the file and refuses a log shorter than its cursor.
AdapterStart ==
    /\ phase = "down" /\ offset <= Len(log)
    /\ phase' = "idle"
    /\ UNCHANGED <<log, committed, transaction, publication, jetVars>>

\* Everything the process holds in memory is gone, an open transaction with it.
AdapterExit ==
    /\ phase' = "down"
    /\ txOffset' = offset /\ txSeqs' = seqs /\ txOutbox' = outbox /\ txNextId' = nextId
    /\ txEnd' = offset
    /\ sending' = {} /\ acked' = {}
    /\ UNCHANGED <<log, committed, jetVars>>

AdapterCrash ==
    /\ "adapter_crash" \in Faults /\ phase # "down"
    /\ AdapterExit

SmallerOf(a, b) == IF a <= b THEN a ELSE b

\* The cursor after reading the complete lines available, at most a batch of them.
ReadEnd == offset + SmallerOf(Batch, Len(log) - offset)

Unread == phase = "idle" /\ outbox = {} /\ offset < Len(log)

\* With nothing pending, read the next lines and open the stage transaction.
ReadBatch ==
    /\ Unread
    /\ \A i \in offset + 1 .. ReadEnd : log[i].ok
    /\ phase' = "staging"
    /\ txOffset' = offset /\ txSeqs' = seqs /\ txOutbox' = outbox /\ txNextId' = nextId
    /\ txEnd' = ReadEnd
    /\ UNCHANGED <<log, committed, publication, jetVars>>

\* A line that does not parse ends the process before anything is staged.
ReadMalformed ==
    /\ Unread
    /\ \E i \in offset + 1 .. ReadEnd : ~log[i].ok
    /\ AdapterExit

NextRecord == log[txOffset + 1]

\* Fault seeded for OnlyGoodRecordsStaged: a supplied sequence is not compared.
SequenceFits_Any(r) == r.seq \in Nat

\* Checkpoint::next_sequence: a supplied sequence must be the expected one.
SequenceFits(r) == r.seq \in {0, txSeqs[r.stream] + 1}

Envelope(r) == [id |-> txNextId, src |-> txOffset + 1, stream |-> r.stream,
                seq |-> txSeqs[r.stream] + 1]

\* map_event and the row's INSERT, inside the transaction.
StageOne ==
    /\ phase = "staging" /\ txOffset < txEnd
    /\ SequenceFits(NextRecord)
    /\ txOutbox' = txOutbox \cup {Envelope(NextRecord)}
    /\ txSeqs' = [txSeqs EXCEPT ![NextRecord.stream] = @ + 1]
    /\ txOffset' = txOffset + 1
    /\ txNextId' = txNextId + 1
    /\ UNCHANGED <<log, phase, committed, txEnd, publication, jetVars>>

\* A source sequence gap makes stage bail: rollback and exit.
StageGap ==
    /\ phase = "staging" /\ txOffset < txEnd
    /\ ~SequenceFits(NextRecord)
    /\ AdapterExit

\* Fault seeded for IdentityIsStable: the rows commit without the cursor and the sequences.
CommitStage_RowsOnly ==
    /\ phase = "staging" /\ txOffset = txEnd
    /\ outbox' = txOutbox /\ nextId' = txNextId /\ phase' = "idle"
    /\ UNCHANGED <<log, offset, seqs, transaction, publication, jetVars>>

\* Offset, sequences and rows commit together.
CommitStage ==
    /\ phase = "staging" /\ txOffset = txEnd
    /\ offset' = txOffset /\ seqs' = txSeqs /\ outbox' = txOutbox /\ nextId' = txNextId
    /\ phase' = "idle"
    /\ UNCHANGED <<log, transaction, publication, jetVars>>

\* The Batch oldest rows of the outbox.
Pending == {e \in outbox : Cardinality({f \in outbox : f.id < e.id}) < Batch}

BeginPublish ==
    /\ phase = "idle" /\ outbox # {}
    /\ phase' = "publishing" /\ sending' = Pending /\ acked' = {}
    /\ UNCHANGED <<log, committed, transaction, jetVars>>

\* The row publish_with_headers sends next.
IsNext(e) == e \in sending /\ \A f \in sending : e.id <= f.id

\* JetStream stores a message unless it remembers its identifier.
Store(e) ==
    /\ js' = IF e.id \in window THEN js ELSE Append(js, e)
    /\ window' = window \cup {e.id}

\* The message is stored (or recognised); its acknowledgement arrives, or is lost.
PublishStored(e, arrives) ==
    /\ phase = "publishing" /\ IsNext(e)
    /\ arrives \/ "ack_lost" \in Faults
    /\ Store(e)
    /\ sending' = sending \ {e}
    /\ acked' = IF arrives THEN acked \cup {e.id} ELSE acked
    /\ UNCHANGED <<log, phase, committed, transaction>>

\* The message is dropped with the connection or refused (DiscardPolicy::New on a
\* full stream); the loop goes on with the next row.
PublishLost(e) ==
    /\ "publish_lost" \in Faults
    /\ phase = "publishing" /\ IsNext(e)
    /\ sending' = sending \ {e}
    /\ UNCHANGED <<log, phase, committed, transaction, acked, jetVars>>

\* The client refuses to send: the rest of the batch stays pending.
PublishBreaks ==
    /\ "publish_lost" \in Faults
    /\ phase = "publishing" /\ sending # {}
    /\ sending' = {}
    /\ UNCHANGED <<log, phase, committed, transaction, acked, jetVars>>

\* Fault seeded for NothingLost: the whole batch is deleted once something was acknowledged.
Acknowledge_WholeBatch ==
    /\ phase = "publishing" /\ sending = {}
    /\ outbox' = IF acked = {} THEN outbox ELSE outbox \ Pending
    /\ phase' = "idle" /\ acked' = {}
    /\ UNCHANGED <<log, offset, seqs, nextId, transaction, sending, jetVars>>

\* Delete exactly the acknowledged rows.
Acknowledge ==
    /\ phase = "publishing" /\ sending = {}
    /\ outbox' = {e \in outbox : e.id \notin acked}
    /\ phase' = "idle" /\ acked' = {}
    /\ UNCHANGED <<log, offset, seqs, nextId, transaction, sending, jetVars>>

\* JetStream forgets an identifier when its deduplication window passes.
WindowPasses(i) ==
    /\ "window_passes" \in Faults /\ i \in window /\ Len(js) < MaxStored
    /\ window' = window \ {i}
    /\ UNCHANGED <<log, phase, committed, transaction, publication, js>>

\* The steps of the adapter's own loop, the ones its process always takes.
AdapterStep ==
    \/ AdapterStart \/ ReadBatch \/ ReadMalformed \/ StageOne \/ StageGap \/ CommitStage
    \/ BeginPublish \/ \E e \in sending : PublishStored(e, TRUE)
    \/ Acknowledge

AdapterFault ==
    \/ AdapterCrash
    \/ \E e \in sending : PublishStored(e, FALSE) \/ PublishLost(e)
    \/ PublishBreaks
    \/ \E i \in window : WindowPasses(i)

AdapterNext ==
    \/ \E r \in Records : WriteRecord(r)
    \/ AdapterStep
    \/ AdapterFault
=============================================================================
