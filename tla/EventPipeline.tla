--------------------------- MODULE EventPipeline ---------------------------
(***************************************************************************)
(* The path of an event from the persisted run log to the gateway's replay *)
(* journal: adapter, JetStream and gateway, each failing on its own.       *)
(***************************************************************************)
EXTENDS GatewayBus

vars == <<adapterVars, gatewayVars>>

Init == AdapterInit /\ GatewayInit

Next ==
    \/ AdapterNext /\ UNCHANGED gatewayVars
    \/ GatewayNext /\ UNCHANGED adapterVars

Spec == Init /\ [][Next]_vars

\* Both processes keep running: the run watcher and systemd restart them, and each loop
\* has no other exit. Of JetStream it is assumed that an acknowledgement cannot be lost
\* for ever and that neither new messages nor redeliveries are starved.
Fairness ==
    /\ WF_vars(AdapterStep /\ UNCHANGED gatewayVars)
    /\ WF_vars(FollowStep /\ UNCHANGED adapterVars)
    /\ SF_vars((\E e \in sending : PublishStored(e, TRUE)) /\ UNCHANGED gatewayVars)
    /\ SF_vars(AckMessage(TRUE) /\ UNCHANGED adapterVars)
    /\ SF_vars(Deliver /\ UNCHANGED adapterVars)
    /\ SF_vars((\E i \in ackPending : Redeliver(i)) /\ UNCHANGED adapterVars)

FairSpec == Spec /\ Fairness

-----------------------------------------------------------------------------
\* The messages JetStream holds.
Stored == {js[i] : i \in DOMAIN js}

\* Every envelope outside the adapter's open transaction.
Envelopes == outbox \cup sending \cup Stored \cup journal \cup txJournal

\* The place of the i-th record among the records of stream s.
Ordinal(s, i) == Cardinality({j \in 1 .. i : log[j].stream = s})

TypeOK ==
    /\ log \in Seq(Records)
    /\ phase \in {"down", "idle", "staging", "publishing"}
    /\ offset \in Nat /\ seqs \in [Streams -> Nat] /\ outbox \subseteq Event /\ nextId \in Nat
    /\ txOffset \in Nat /\ txSeqs \in [Streams -> Nat] /\ txOutbox \subseteq Event
    /\ txNextId \in Nat /\ txEnd \in Nat
    /\ sending \subseteq Event /\ acked \subseteq Nat
    /\ js \in Seq(Event) /\ window \subseteq Nat
    /\ cursor \in Nat /\ ackPending \subseteq Nat
    /\ inbox \in Seq(Nat) /\ chunk \in Seq(Nat) /\ at \in Nat \ {0}
    /\ gphase \in {"down", "ready", "appending", "acking"}
    /\ journal \subseteq Event /\ pos \in [Streams -> Nat]
    /\ txJournal \subseteq Event /\ txPos \in [Streams -> Nat]

\* The journal holds, for every stream, exactly the first records of that stream in the
\* source log, in order, each once: neither a crash between the adapter's commits, a
\* republication nor a redelivery loses, doubles or reorders an event (outbox.rs,
\* journal.rs append_in_transaction).
JournalIsLogPrefix ==
    /\ \A e \in journal : e.src \in 1 .. Len(log) /\ e.stream = log[e.src].stream
    /\ \A s \in Streams :
        /\ pos[s] <= Ordinal(s, Len(log))
        /\ \A k \in 1 .. pos[s] :
            \E e \in journal : /\ e.stream = s /\ e.seq = k /\ Ordinal(s, e.src) = k
                               /\ \A f \in journal : f.stream = s /\ f.seq = k => f = e
    /\ \A e \in journal : e.seq \in 1 .. pos[e.stream]

\* A record behind the durable cursor is in the outbox until JetStream stores it, and a
\* message the gateway acknowledged is in its committed journal (outbox.rs acknowledge,
\* bus.rs: publish_batch before ack).
NothingLost ==
    /\ \A i \in 1 .. offset : \E e \in outbox \cup Stored : e.src = i
    /\ \A m \in 1 .. cursor : m \notin ackPending => js[m] \in journal

\* A record has one envelope for ever: identifier and sequence survive crashes and
\* republication, so append_in_transaction never meets a reused identity.
IdentityIsStable ==
    \A e, f \in Envelopes :
        e.src = f.src \/ e.id = f.id \/ (e.stream = f.stream /\ e.seq = f.seq) => e = f

\* A record that parses and is the next of its stream.
Good(i) == log[i].ok /\ log[i].seq \in {0, Ordinal(log[i].stream, i)}

\* No line that fails to parse, and no record out of its stream's sequence, is ever behind
\* the cursor: a bad batch cannot advance the source (stage, next_sequence).
OnlyGoodRecordsStaged == \A i \in 1 .. offset : Good(i)

\* Committed state only moves forward: the cursor, the sequences and the journal never
\* go back, whatever crashes in between.
NeverBackwards ==
    [][/\ offset' >= offset /\ journal \subseteq journal'
       /\ \A s \in Streams : seqs'[s] >= seqs[s] /\ pos'[s] >= pos[s]]_vars

\* The record a row of the journal carries; 0 if there is no such row.
SourceOf(rows) == IF rows = {} THEN 0 ELSE (CHOOSE e \in rows : TRUE).src

\* What the journal publishes: for each stream the records its rows carry, by sequence.
Journaled ==
    [s \in Streams |-> [k \in 1 .. pos[s] |-> SourceOf({e \in journal : e.stream = s /\ e.seq = k})]]

Feed == INSTANCE EventFeed WITH published <- Journaled

\* The three processes together are one feed: every commit of the journal publishes the next
\* records of the streams it is about, and nothing else does.
ImplementsFeed == Feed!FeedSpec

\* Every record of the log reaches the journal (main.rs loop, follow's retry loop).
EveryRecordJournaled ==
    \A i \in 1 .. MaxLog :
        <>(i \in DOMAIN log) /\ [](\A j \in DOMAIN log : Good(j)) => <>(\E e \in journal : e.src = i)
=============================================================================
