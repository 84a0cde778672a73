------------------------ MODULE EventPipelineProofs ------------------------
(***************************************************************************)
(* Proofs about the event path, for every set of streams and records,      *)
(* every batch size, bound and set of faults.                              *)
(***************************************************************************)
EXTENDS EventPipeline, FiniteSetTheorems, SequenceTheorems, TLAPS

\* Cursors stay inside what they point into. Without this the types are not inductive: the
\* record staged next and the message appended next have to exist.
Bounds ==
    /\ offset <= Len(log)
    /\ phase = "staging" => offset <= txOffset /\ txOffset <= txEnd /\ txEnd <= Len(log)
    /\ cursor <= Len(js)
    /\ ackPending \subseteq 1 .. cursor
    /\ \A k \in 1 .. Len(inbox) : inbox[k] \in 1 .. cursor
    /\ \A k \in 1 .. Len(chunk) : chunk[k] \in 1 .. cursor

\* What the adapter's rows, its volatile state and JetStream have to do with each other.
\* An identifier is given out once, so one that was acknowledged, or that JetStream still
\* remembers, tells that this very row is stored: then it may be deleted.
AdapterInv ==
    /\ sending \subseteq outbox
    /\ \A e, f \in outbox : e.id = f.id => e = f
    /\ \A e \in outbox : e.id < nextId
    /\ \A i \in acked \cup window : i < nextId
    /\ \A e \in outbox : e.id \in acked \cup window => e \in Stored
    /\ \A i \in 1 .. offset : \E e \in outbox \cup Stored : e.src = i

\* The open transaction extends the committed state: rows are only added, under fresh
\* identifiers, one for every line behind its cursor.
StageInv ==
    phase = "staging" =>
        /\ nextId <= txNextId /\ outbox \subseteq txOutbox
        /\ \A e, f \in txOutbox : e.id = f.id => e = f
        /\ \A e \in txOutbox : e.id < txNextId /\ (e \in outbox \/ nextId <= e.id)
        /\ \A i \in offset + 1 .. txOffset : \E e \in txOutbox : e.src = i
        /\ \A s \in Streams : seqs[s] <= txSeqs[s]

\* The gateway acknowledges only what its committed journal holds.
GatewayInv ==
    /\ \A m \in 1 .. cursor : m \notin ackPending => js[m] \in journal
    /\ gphase = "appending" =>
        /\ journal \subseteq txJournal /\ \A s \in Streams : pos[s] <= txPos[s]
        /\ \A k \in 1 .. Len(chunk) : k < at => js[chunk[k]] \in txJournal
    /\ gphase = "acking" => \A k \in 1 .. Len(chunk) : js[chunk[k]] \in journal

-----------------------------------------------------------------------------
(* Type correctness.                                                       *)

\* What handing an envelope to JetStream does to the stream: it is stored or was known.
LEMMA StoreGrows ==
    ASSUME TypeOK, NEW e \in Event, Store(e)
    PROVE  /\ js' \in Seq(Event) /\ Len(js') >= Len(js)
           /\ \A i \in 1 .. Len(js) : js'[i] = js[i]
           /\ window' \subseteq Nat
           /\ e.id \notin window => Len(js') = Len(js) + 1 /\ js'[Len(js) + 1] = e
           /\ e.id \in window => js' = js
<1>1. js \in Seq(Event) /\ Len(js) \in Nat /\ e.id \in Nat /\ window \subseteq Nat
  BY DEF TypeOK, Event
<1>2. window' \subseteq Nat
  BY <1>1 DEF Store
<1>3. CASE e.id \in window
  <2>1. js' = js
    BY <1>3 DEF Store
  <2> QED BY <1>1, <1>2, <1>3, <2>1
<1>4. CASE e.id \notin window
  <2>1. js' = Append(js, e)
    BY <1>4 DEF Store
  <2>2. /\ js' \in Seq(Event) /\ Len(js') = Len(js) + 1 /\ js'[Len(js) + 1] = e
        /\ \A i \in 1 .. Len(js) : js'[i] = js[i]
    BY <1>1, <2>1, AppendProperties
  <2> QED BY <1>1, <1>2, <1>4, <2>2
<1> QED BY <1>3, <1>4

\* The steps of the adapter, the log's writer and JetStream keep types and bounds.
LEMMA AdapterTypes == TypeOK /\ Bounds /\ AdapterNext /\ UNCHANGED gatewayVars => TypeOK' /\ Bounds'
<1> SUFFICES ASSUME TypeOK, Bounds, AdapterNext, UNCHANGED gatewayVars PROVE TypeOK' /\ Bounds'
  OBVIOUS
<1> USE DEF gatewayVars, consumerVars, taskVars, journalVars, txVars,
        committed, transaction, publication, jetVars
<1>0. Len(log) \in Nat /\ Len(js) \in Nat
  BY DEF TypeOK
<1>1. CASE \E r \in Records : WriteRecord(r)
  <2>1. PICK r \in Records : WriteRecord(r)
    BY <1>1
  <2>2. log' \in Seq(Records) /\ Len(log') = Len(log) + 1
    BY <2>1, AppendProperties DEF WriteRecord, TypeOK
  <2> QED BY <1>0, <2>1, <2>2 DEF WriteRecord, TypeOK, Bounds
<1>2. CASE AdapterStart
  BY <1>2 DEF AdapterStart, TypeOK, Bounds
<1>3. CASE AdapterExit
  BY <1>3 DEF AdapterExit, TypeOK, Bounds
<1>4. CASE ReadBatch
  <2>1. ReadEnd \in Nat /\ offset <= ReadEnd /\ ReadEnd <= Len(log)
    BY <1>0, BatchAssumption DEF ReadEnd, SmallerOf, TypeOK, Bounds
  <2> QED BY <1>4, <2>1 DEF ReadBatch, TypeOK, Bounds
<1>5. CASE StageOne
  <2>1. NextRecord \in [stream : Streams, seq : Nat, ok : BOOLEAN]
    BY <1>0, <1>5, ElementOfSeq, RecordsAssumption DEF NextRecord, StageOne, TypeOK, Bounds
  <2>2. Envelope(NextRecord) \in Event
    BY <2>1 DEF Envelope, Event, TypeOK
  <2>3. txSeqs' \in [Streams -> Nat]
    BY <1>5, <2>1 DEF StageOne, TypeOK
  <2>4. txOutbox' \subseteq Event
    BY <1>5, <2>2 DEF StageOne, TypeOK
  <2>5. TypeOK'
    BY <1>5, <2>3, <2>4 DEF StageOne, TypeOK
  <2>6. Bounds'
    BY <1>0, <1>5 DEF StageOne, TypeOK, Bounds
  <2> QED BY <2>5, <2>6
<1>6. CASE CommitStage
  BY <1>6 DEF CommitStage, TypeOK, Bounds
<1>7. CASE BeginPublish
  BY <1>7 DEF BeginPublish, Pending, TypeOK, Bounds
<1>8. CASE \E e \in sending, arrives \in BOOLEAN : PublishStored(e, arrives)
  <2>1. PICK e \in sending, arrives \in BOOLEAN : PublishStored(e, arrives)
    BY <1>8
  <2>2. e \in Event /\ e.id \in Nat
    BY DEF TypeOK, Event
  <2>3. /\ js' \in Seq(Event) /\ Len(js') >= Len(js) /\ Len(js') \in Nat
        /\ window' \subseteq Nat
    BY <2>1, <2>2, StoreGrows DEF PublishStored
  <2>4. sending' \subseteq Event /\ acked' \subseteq Nat
    BY <2>1, <2>2 DEF PublishStored, TypeOK
  <2>5. TypeOK'
    BY <2>1, <2>3, <2>4 DEF PublishStored, TypeOK
  <2>6. Bounds'
    BY <1>0, <2>1, <2>3 DEF PublishStored, TypeOK, Bounds
  <2> QED BY <2>5, <2>6
<1>9. CASE \E e \in sending : PublishLost(e)
  BY <1>9 DEF PublishLost, TypeOK, Bounds
<1>10. CASE PublishBreaks
  BY <1>10 DEF PublishBreaks, TypeOK, Bounds
<1>11. CASE Acknowledge
  BY <1>11 DEF Acknowledge, TypeOK, Bounds
<1>12. CASE \E i \in window : WindowPasses(i)
  BY <1>12 DEF WindowPasses, TypeOK, Bounds
<1> QED
  BY <1>1, <1>2, <1>3, <1>4, <1>5, <1>6, <1>7, <1>8, <1>9, <1>10, <1>11, <1>12
  DEF AdapterNext, AdapterStep, AdapterFault, AdapterCrash, ReadMalformed, StageGap

\* The steps of the consumer and of the follow task keep types and bounds.
LEMMA GatewayTypes == TypeOK /\ Bounds /\ GatewayNext /\ UNCHANGED adapterVars => TypeOK' /\ Bounds'
<1> SUFFICES ASSUME TypeOK, Bounds, GatewayNext, UNCHANGED adapterVars PROVE TypeOK' /\ Bounds'
  OBVIOUS
<1> USE DEF consumerVars, taskVars, journalVars, txVars, adapterVars,
        committed, transaction, publication, jetVars
<1>0. Len(js) \in Nat /\ Len(inbox) \in Nat /\ Len(chunk) \in Nat
  BY DEF TypeOK
<1>1. CASE Deliver
  <2>1. /\ inbox' \in Seq(Nat) /\ Len(inbox') = Len(inbox) + 1
        /\ inbox'[Len(inbox) + 1] = cursor + 1
        /\ \A k \in 1 .. Len(inbox) : inbox'[k] = inbox[k]
    BY <1>1, AppendProperties DEF Deliver, TypeOK
  <2>2. cursor' = cursor + 1 /\ cursor \in Nat /\ cursor < Len(js)
    BY <1>1 DEF Deliver, TypeOK
  <2>3. ackPending' \subseteq 1 .. cursor'
    BY <1>1, <2>2 DEF Deliver, Bounds
  <2>4. \A k \in 1 .. Len(inbox') : inbox'[k] \in 1 .. cursor'
    <3>1. \A k \in 1 .. Len(inbox) : inbox'[k] \in 1 .. cursor
      BY <2>1 DEF Bounds
    <3>2. \A k \in 1 .. Len(inbox) + 1 : k \in 1 .. Len(inbox) \/ k = Len(inbox) + 1
      BY <1>0
    <3> QED BY <2>1, <2>2, <3>1, <3>2
  <2>5. TypeOK'
    BY <1>1, <2>1, <2>2, <2>3 DEF Deliver, TypeOK
  <2>6. Bounds'
    BY <1>0, <1>1, <2>2, <2>3, <2>4 DEF Deliver, Bounds
  <2> QED BY <2>5, <2>6
<1>2. CASE \E i \in ackPending : Redeliver(i)
  <2>1. PICK i \in ackPending : Redeliver(i)
    BY <1>2
  <2>2. i \in Nat /\ i \in 1 .. cursor
    BY DEF TypeOK, Bounds
  <2>3. /\ inbox' \in Seq(Nat) /\ Len(inbox') = Len(inbox) + 1
        /\ inbox'[Len(inbox) + 1] = i
        /\ \A k \in 1 .. Len(inbox) : inbox'[k] = inbox[k]
    BY <2>1, <2>2, AppendProperties DEF Redeliver, TypeOK
  <2>4. UNCHANGED <<consumerVars, gphase, chunk, at, journalVars, txVars>>
    BY <2>1 DEF Redeliver
  <2>5. \A k \in 1 .. Len(inbox') : inbox'[k] \in 1 .. cursor
    <3>1. \A k \in 1 .. Len(inbox) : inbox'[k] \in 1 .. cursor
      BY <2>3 DEF Bounds
    <3>2. \A k \in 1 .. Len(inbox) + 1 : k \in 1 .. Len(inbox) \/ k = Len(inbox) + 1
      BY <1>0
    <3> QED BY <2>2, <2>3, <3>1, <3>2
  <2>6. TypeOK'
    BY <1>0, <2>3, <2>4 DEF TypeOK
  <2>7. Bounds'
    BY <1>0, <2>4, <2>5 DEF Bounds
  <2> QED BY <2>6, <2>7
<1>3. CASE Follow
  BY <1>3 DEF Follow, TypeOK, Bounds
<1>4. CASE FollowEnds
  <2>1. <<>> \in Seq(Nat) /\ Len(<<>>) = 0
    BY EmptySeq
  <2> QED BY <1>4, <2>1 DEF FollowEnds, TypeOK, Bounds
<1>5. CASE \E n \in 1 .. Batch : TakeChunk(n)
  <2>1. PICK n \in 1 .. Batch : TakeChunk(n)
    BY <1>5
  <2>2. n \in 1 .. Len(inbox)
    BY <1>0, <2>1, BatchAssumption DEF TakeChunk, SmallerOf
  <2>n. n \in Nat /\ n <= Len(inbox) /\ \A k \in 1 .. n : k \in 1 .. Len(inbox)
    BY <1>0, <2>2
  <2>3. \A k \in 1 .. Len(inbox) : inbox[k] \in Nat
    BY ElementOfSeq DEF TypeOK
  <2>4. /\ chunk' \in Seq(Nat) /\ Len(chunk') = n
        /\ \A k \in 1 .. n : chunk'[k] = inbox[k]
    BY <1>0, <2>1, <2>2, <2>3, SubSeqProperties DEF TakeChunk
  <2>5. /\ inbox' \in Seq(Nat) /\ Len(inbox') = Len(inbox) - n
        /\ \A k \in 1 .. Len(inbox) - n : inbox'[k] = inbox[n + k]
    <3>1. \A k \in n + 1 .. Len(inbox) : inbox[k] \in Nat
      BY <1>0, <2>2, <2>3
    <3>2. /\ SubSeq(inbox, n + 1, Len(inbox)) \in Seq(Nat)
          /\ Len(SubSeq(inbox, n + 1, Len(inbox))) = IF n + 1 <= Len(inbox) THEN Len(inbox) - (n + 1) + 1 ELSE 0
          /\ \A k \in 1 .. Len(inbox) - (n + 1) + 1 : SubSeq(inbox, n + 1, Len(inbox))[k] = inbox[n + 1 + k - 1]
      BY <1>0, <2>2, <3>1, SubSeqProperties
    <3>3. inbox' = SubSeq(inbox, n + 1, Len(inbox))
      BY <2>1 DEF TakeChunk
    <3>4. /\ Len(inbox) - (n + 1) + 1 = Len(inbox) - n
          /\ (IF n + 1 <= Len(inbox) THEN Len(inbox) - (n + 1) + 1 ELSE 0) = Len(inbox) - n
          /\ \A k \in 1 .. Len(inbox) - n : n + 1 + k - 1 = n + k
      BY <1>0, <2>n
    <3> QED BY <3>2, <3>3, <3>4
  <2>6. TypeOK'
    <3>1. /\ gphase' = "appending" /\ at' = 1 /\ txJournal' = journal /\ txPos' = pos
          /\ UNCHANGED <<consumerVars, journalVars>>
      BY <2>1 DEF TakeChunk
    <3>2. gphase' \in {"down", "ready", "appending", "acking"} /\ at' \in Nat \ {0}
      BY <3>1
    <3>3. cursor' \in Nat /\ ackPending' \subseteq Nat
      BY <3>1 DEF TypeOK, consumerVars
    <3>4. /\ journal' \subseteq Event /\ pos' \in [Streams -> Nat]
          /\ txJournal' \subseteq Event /\ txPos' \in [Streams -> Nat]
      BY <3>1 DEF TypeOK, journalVars
    <3> QED BY <2>4, <2>5, <3>2, <3>3, <3>4 DEF TypeOK
  <2>7. \A k \in 1 .. Len(chunk') : chunk'[k] \in 1 .. cursor
    BY <2>n, <2>4 DEF Bounds
  <2>8. \A k \in 1 .. Len(inbox') : inbox'[k] \in 1 .. cursor
    <3>1. \A k \in 1 .. Len(inbox) - n : n + k \in 1 .. Len(inbox)
      BY <1>0, <2>n
    <3> QED BY <2>5, <3>1 DEF Bounds
  <2>9. Bounds'
    BY <2>1, <2>7, <2>8 DEF TakeChunk, Bounds
  <2> QED BY <2>6, <2>9
<1>6. CASE AppendDuplicate
  BY <1>6 DEF AppendDuplicate, TypeOK, Bounds
<1>7. CASE AppendNew
  <2>1. chunk[at] \in 1 .. Len(js)
    BY <1>0, <1>7 DEF AppendNew, Appending, TypeOK, Bounds
  <2>2. Message \in Event
    BY <2>1, ElementOfSeq DEF Message, TypeOK
  <2>3. txPos' \in [Streams -> Nat]
    BY <1>7, <2>2 DEF AppendNew, TypeOK, Event
  <2>4. /\ txJournal' \subseteq Event /\ at' \in Nat \ {0}
    BY <1>7, <2>2 DEF AppendNew, TypeOK
  <2>5. UNCHANGED <<consumerVars, inbox, gphase, chunk, journalVars>>
    BY <1>7 DEF AppendNew
  <2>6. TypeOK'
    BY <2>3, <2>4, <2>5 DEF TypeOK
  <2>7. Bounds'
    BY <2>5 DEF Bounds
  <2> QED BY <2>6, <2>7
<1>8. CASE CommitChunk
  BY <1>8 DEF CommitChunk, TypeOK, Bounds
<1>9. CASE AckMessage(TRUE) \/ AckMessage(FALSE)
  <2>1. ackPending' \subseteq ackPending /\ at' = at + 1
    BY <1>9 DEF AckMessage
  <2>2. TypeOK'
    BY <1>9, <2>1 DEF AckMessage, TypeOK
  <2>3. Bounds'
    BY <1>9, <2>1 DEF AckMessage, Bounds
  <2> QED BY <2>2, <2>3
<1>10. CASE ChunkDone
  <2>1. <<>> \in Seq(Nat) /\ Len(<<>>) = 0
    BY EmptySeq
  <2> QED BY <1>10, <2>1 DEF ChunkDone, TypeOK, Bounds
<1> QED
  BY <1>1, <1>2, <1>3, <1>4, <1>5, <1>6, <1>7, <1>8, <1>9, <1>10
  DEF GatewayNext, FollowStep, GatewayFault, GatewayCrash, AppendRefused

\* Every state of the pipeline is well typed and its cursors point at something.
THEOREM TypeCorrect == Spec => [](TypeOK /\ Bounds)
<1>1. Init => TypeOK /\ Bounds
  <2> SUFFICES ASSUME Init PROVE TypeOK /\ Bounds
    OBVIOUS
  <2>1. <<>> \in Seq(Records) /\ <<>> \in Seq(Event) /\ <<>> \in Seq(Nat) /\ Len(<<>>) = 0
    BY EmptySeq
  <2> QED BY <2>1 DEF Init, AdapterInit, GatewayInit, TypeOK, Bounds
<1>2. TypeOK /\ Bounds /\ UNCHANGED vars => TypeOK' /\ Bounds'
  BY DEF vars, adapterVars, gatewayVars, consumerVars, taskVars, journalVars, txVars,
         committed, transaction, publication, jetVars, TypeOK, Bounds
<1>3. TypeOK /\ Bounds /\ [Next]_vars => TypeOK' /\ Bounds'
  BY <1>2, AdapterTypes, GatewayTypes DEF Next
<1> QED BY <1>1, <1>3, PTL DEF Spec

-----------------------------------------------------------------------------
(* Nothing is lost.                                                        *)

\* JetStream keeps what it holds and now holds e, unless it recognised its identifier.
LEMMA StoredAfter ==
    ASSUME TypeOK, NEW e \in Event, Store(e)
    PROVE  Stored \subseteq Stored' /\ (e.id \notin window => e \in Stored')
<1>1. /\ js \in Seq(Event) /\ js' \in Seq(Event) /\ Len(js) \in Nat /\ Len(js') \in Nat
      /\ DOMAIN js = 1 .. Len(js) /\ DOMAIN js' = 1 .. Len(js')
  BY StoreGrows, LenProperties DEF TypeOK
<1>g. /\ Len(js') >= Len(js) /\ \A i \in 1 .. Len(js) : js'[i] = js[i]
      /\ e.id \notin window => Len(js') = Len(js) + 1 /\ js'[Len(js) + 1] = e
  BY StoreGrows
<1>2. /\ \A i \in 1 .. Len(js) : i \in 1 .. Len(js')
      /\ e.id \notin window => Len(js) + 1 \in 1 .. Len(js')
  <2>1. Len(js) \in Nat /\ Len(js') \in Nat
    BY <1>1
  <2> QED BY <2>1, <1>g
<1>3. Stored = {js[i] : i \in 1 .. Len(js)} /\ Stored' = {js'[i] : i \in 1 .. Len(js')}
  BY <1>1 DEF Stored
<1> QED BY <1>2, <1>3, <1>g

\* Staging one record extends the transaction as StageInv says.
LEMMA StageOneKeeps ==
    TypeOK /\ Bounds /\ AdapterInv /\ StageInv /\ StageOne => AdapterInv' /\ StageInv'
<1> SUFFICES ASSUME TypeOK, Bounds, AdapterInv, StageInv, StageOne PROVE AdapterInv' /\ StageInv'
  OBVIOUS
<1> DEFINE new == Envelope(NextRecord)
<1>1. /\ phase = "staging" /\ phase' = phase /\ offset' = offset /\ seqs' = seqs
      /\ outbox' = outbox /\ nextId' = nextId /\ sending' = sending /\ acked' = acked
      /\ js' = js /\ window' = window
      /\ txOffset' = txOffset + 1 /\ txNextId' = txNextId + 1 /\ txOutbox' = txOutbox \cup {new}
      /\ txSeqs' = [txSeqs EXCEPT ![NextRecord.stream] = @ + 1]
  BY DEF StageOne, committed, publication, jetVars
<1>2. new.id = txNextId /\ new.src = txOffset + 1
  BY DEF Envelope
<1>3. /\ offset \in Nat /\ txOffset \in Nat /\ nextId \in Nat /\ txNextId \in Nat
      /\ \A e \in txOutbox : e.id \in Nat
      /\ seqs \in [Streams -> Nat] /\ txSeqs \in [Streams -> Nat]
  BY DEF TypeOK, Event
<1>4. AdapterInv'
  BY <1>1 DEF AdapterInv, Stored
<1>5. /\ nextId <= txNextId' /\ outbox \subseteq txOutbox'
      /\ \A e, f \in txOutbox' : e.id = f.id => e = f
      /\ \A e \in txOutbox' : e.id < txNextId' /\ (e \in outbox \/ nextId <= e.id)
  BY <1>1, <1>2, <1>3 DEF StageInv
<1>6. \A i \in offset + 1 .. txOffset' : \E e \in txOutbox' : e.src = i
  <2>1. \A i \in offset + 1 .. txOffset' : i \in offset + 1 .. txOffset \/ i = txOffset + 1
    BY <1>1, <1>3
  <2>2. \A i \in offset + 1 .. txOffset : \E e \in txOutbox' : e.src = i
    BY <1>1 DEF StageInv
  <2> QED BY <1>1, <1>2, <2>1, <2>2
<1>7. \A s \in Streams : seqs[s] <= txSeqs'[s]
  BY <1>1, <1>3 DEF StageInv
<1> QED BY <1>1, <1>4, <1>5, <1>6, <1>7 DEF StageInv

\* The commit turns the transaction into the committed state.
LEMMA CommitKeeps ==
    TypeOK /\ Bounds /\ AdapterInv /\ StageInv /\ CommitStage => AdapterInv' /\ StageInv'
<1> SUFFICES ASSUME TypeOK, Bounds, AdapterInv, StageInv, CommitStage PROVE AdapterInv' /\ StageInv'
  OBVIOUS
<1>1. /\ phase = "staging" /\ phase' = "idle" /\ offset' = txOffset /\ outbox' = txOutbox
      /\ nextId' = txNextId /\ sending' = sending /\ acked' = acked /\ js' = js /\ window' = window
  BY DEF CommitStage, publication, jetVars
<1>2. /\ offset \in Nat /\ txOffset \in Nat /\ nextId \in Nat /\ txNextId \in Nat
      /\ acked \subseteq Nat /\ window \subseteq Nat /\ \A e \in txOutbox : e.id \in Nat
  BY DEF TypeOK, Event
<1>3. Stored' = Stored
  BY <1>1 DEF Stored
<1>4. sending \subseteq txOutbox /\ \A e, f \in txOutbox : e.id = f.id => e = f
  BY <1>1 DEF AdapterInv, StageInv
<1>5. \A e \in txOutbox : e.id < txNextId
  BY <1>1 DEF StageInv
<1>6. \A i \in acked \cup window : i < txNextId
  BY <1>1, <1>2 DEF AdapterInv, StageInv
<1>7. \A e \in txOutbox : e.id \in acked \cup window => e \in Stored
  BY <1>1, <1>2 DEF AdapterInv, StageInv
<1>8. \A i \in 1 .. txOffset : \E e \in txOutbox \cup Stored : e.src = i
  <2>1. \A i \in 1 .. txOffset : i \in 1 .. offset \/ i \in offset + 1 .. txOffset
    BY <1>2
  <2>2. \A i \in 1 .. offset : \E e \in txOutbox \cup Stored : e.src = i
    BY <1>1 DEF AdapterInv, StageInv
  <2>3. \A i \in offset + 1 .. txOffset : \E e \in txOutbox : e.src = i
    BY <1>1 DEF StageInv
  <2> QED BY <2>1, <2>2, <2>3
<1> QED BY <1>1, <1>3, <1>4, <1>5, <1>6, <1>7, <1>8 DEF AdapterInv, StageInv

\* An acknowledged publication is stored, whether JetStream appended or recognised it.
LEMMA PublishKeeps ==
    ASSUME TypeOK, AdapterInv, NEW e \in sending, NEW arrives \in BOOLEAN, PublishStored(e, arrives)
    PROVE  AdapterInv'
<1>1. /\ offset' = offset /\ outbox' = outbox /\ nextId' = nextId
      /\ sending' \subseteq sending /\ acked' \subseteq acked \cup {e.id} /\ Store(e)
  BY DEF PublishStored, committed
<1>2. e \in outbox /\ e \in Event
  BY DEF AdapterInv, TypeOK
<1>3. window' = window \cup {e.id}
  BY <1>1 DEF Store
<1>4. Stored \subseteq Stored' /\ e \in Stored'
  BY <1>1, <1>2, StoredAfter DEF AdapterInv
<1>5. \A f \in outbox : f.id \in acked' \cup window' => f \in Stored'
  BY <1>1, <1>2, <1>3, <1>4 DEF AdapterInv
<1>6. \A i \in acked' \cup window' : i < nextId
  BY <1>1, <1>2, <1>3 DEF AdapterInv
<1>7. \A i \in 1 .. offset : \E f \in outbox \cup Stored' : f.src = i
  BY <1>4 DEF AdapterInv
<1> QED BY <1>1, <1>5, <1>6, <1>7 DEF AdapterInv

\* Only rows that are stored are deleted.
LEMMA AcknowledgeKeeps == AdapterInv /\ Acknowledge => AdapterInv'
<1> SUFFICES ASSUME AdapterInv, Acknowledge PROVE AdapterInv'
  OBVIOUS
<1>1. /\ offset' = offset /\ nextId' = nextId /\ sending' = {} /\ acked' = {} /\ js' = js
      /\ window' = window /\ outbox' = {e \in outbox : e.id \notin acked}
  BY DEF Acknowledge, jetVars
<1>2. Stored' = Stored
  BY <1>1 DEF Stored
<1>3. \A e \in outbox : e \in outbox' \/ e \in Stored
  BY <1>1 DEF AdapterInv
<1>4. \A i \in 1 .. offset : \E e \in outbox' \cup Stored : e.src = i
  BY <1>3 DEF AdapterInv
<1> QED BY <1>1, <1>2, <1>4 DEF AdapterInv

\* Every step of the adapter and of JetStream keeps the adapter's invariant.
LEMMA AdapterKeeps ==
    TypeOK /\ Bounds /\ AdapterInv /\ StageInv /\ AdapterNext => AdapterInv' /\ StageInv'
<1> SUFFICES ASSUME TypeOK, Bounds, AdapterInv, StageInv, AdapterNext PROVE AdapterInv' /\ StageInv'
  OBVIOUS
<1> USE DEF committed, transaction, publication, jetVars
<1>1. CASE \E r \in Records : WriteRecord(r)
  BY <1>1 DEF WriteRecord, AdapterInv, StageInv, Stored
<1>2. CASE AdapterStart
  BY <1>2 DEF AdapterStart, AdapterInv, StageInv, Stored
<1>3. CASE AdapterExit
  BY <1>3 DEF AdapterExit, AdapterInv, StageInv, Stored
<1>4. CASE ReadBatch
  <2>1. AdapterInv'
    BY <1>4 DEF ReadBatch, AdapterInv, Stored
  <2>2. /\ outbox = {} /\ txOutbox' = {} /\ outbox' = {} /\ nextId' = nextId /\ txNextId' = nextId
        /\ offset' = offset /\ txOffset' = offset /\ seqs' = seqs /\ txSeqs' = seqs
    BY <1>4 DEF ReadBatch, Unread
  <2>3. nextId \in Nat /\ offset \in Nat /\ seqs \in [Streams -> Nat]
    BY DEF TypeOK
  <2>4. offset + 1 .. offset = {}
    BY <2>3
  <2> QED BY <2>1, <2>2, <2>3, <2>4 DEF StageInv
<1>5. CASE StageOne
  BY <1>5, StageOneKeeps
<1>6. CASE CommitStage
  BY <1>6, CommitKeeps
<1>7. CASE BeginPublish
  BY <1>7 DEF BeginPublish, Pending, AdapterInv, StageInv, Stored
<1>8. CASE \E e \in sending, arrives \in BOOLEAN : PublishStored(e, arrives)
  BY <1>8, PublishKeeps DEF PublishStored, StageInv
<1>9. CASE \E e \in sending : PublishLost(e)
  BY <1>9 DEF PublishLost, AdapterInv, StageInv, Stored
<1>10. CASE PublishBreaks
  BY <1>10 DEF PublishBreaks, AdapterInv, StageInv, Stored
<1>11. CASE Acknowledge
  BY <1>11, AcknowledgeKeeps DEF Acknowledge, StageInv
<1>12. CASE \E i \in window : WindowPasses(i)
  BY <1>12 DEF WindowPasses, AdapterInv, StageInv, Stored
<1> QED
  BY <1>1, <1>2, <1>3, <1>4, <1>5, <1>6, <1>7, <1>8, <1>9, <1>10, <1>11, <1>12
  DEF AdapterNext, AdapterStep, AdapterFault, AdapterCrash, ReadMalformed, StageGap

\* What JetStream has stored stays where it is.
LEMMA StreamIsAppendOnly ==
    TypeOK /\ AdapterNext => Len(js') >= Len(js) /\ \A i \in 1 .. Len(js) : js'[i] = js[i]
<1> SUFFICES ASSUME TypeOK, AdapterNext
             PROVE  Len(js') >= Len(js) /\ \A i \in 1 .. Len(js) : js'[i] = js[i]
  OBVIOUS
<1>1. Len(js) \in Nat
  BY DEF TypeOK
<1>2. CASE \E e \in sending, arrives \in BOOLEAN : PublishStored(e, arrives)
  <2>1. PICK e \in sending, arrives \in BOOLEAN : PublishStored(e, arrives)
    BY <1>2
  <2>2. e \in Event /\ Store(e)
    BY <2>1 DEF PublishStored, TypeOK
  <2> QED BY <2>2, StoreGrows
<1>3. CASE js' = js
  BY <1>1, <1>3
<1> QED
  BY <1>2, <1>3
  DEF AdapterNext, AdapterStep, AdapterFault, AdapterCrash, ReadMalformed, StageGap, AdapterExit,
      WriteRecord, AdapterStart, ReadBatch, StageOne, CommitStage, BeginPublish, PublishLost,
      PublishBreaks, Acknowledge, WindowPasses, jetVars

\* Every step of the gateway keeps its invariant: a chunk is acknowledged after its commit.
LEMMA GatewayKeeps ==
    TypeOK /\ Bounds /\ GatewayInv /\ GatewayNext /\ UNCHANGED adapterVars => GatewayInv'
<1> SUFFICES ASSUME TypeOK, Bounds, GatewayInv, GatewayNext, UNCHANGED adapterVars PROVE GatewayInv'
  OBVIOUS
<1> USE DEF consumerVars, taskVars, journalVars, txVars
<1>0. js' = js /\ at \in Nat /\ Len(chunk) \in Nat /\ cursor \in Nat
  BY DEF adapterVars, jetVars, TypeOK
<1>1. CASE Deliver
  BY <1>0, <1>1 DEF Deliver, GatewayInv
<1>2. CASE \E i \in ackPending : Redeliver(i)
  BY <1>0, <1>2 DEF Redeliver, GatewayInv
<1>3. CASE Follow
  BY <1>0, <1>3 DEF Follow, GatewayInv
<1>4. CASE FollowEnds
  BY <1>0, <1>4 DEF FollowEnds, GatewayInv
<1>5. CASE \E n \in 1 .. Batch : TakeChunk(n)
  <2>1. /\ gphase' = "appending" /\ at' = 1 /\ txJournal' = journal /\ txPos' = pos
        /\ UNCHANGED <<cursor, ackPending, journal, pos>>
    BY <1>5 DEF TakeChunk
  <2>2. pos \in [Streams -> Nat]
    BY DEF TypeOK
  <2>3. \A k \in 1 .. Len(chunk') : ~(k < 1)
    OBVIOUS
  <2> QED BY <1>0, <2>1, <2>2, <2>3 DEF GatewayInv
<1>6. CASE AppendDuplicate
  <2>1. Message \in txJournal
    BY <1>6 DEF AppendDuplicate, Prior
  <2> QED BY <1>0, <1>6, <2>1 DEF AppendDuplicate, Appending, Message, GatewayInv
<1>7. CASE AppendNew
  <2>1. /\ gphase = "appending" /\ at <= Len(chunk) /\ at' = at + 1 /\ chunk' = chunk
        /\ txJournal' = txJournal \cup {Message} /\ Message.seq = txPos[Message.stream] + 1
        /\ txPos' = [txPos EXCEPT ![Message.stream] = Message.seq]
        /\ UNCHANGED <<cursor, ackPending, gphase, journal, pos>>
    BY <1>7 DEF AppendNew, Appending
  <2>2. pos \in [Streams -> Nat] /\ txPos \in [Streams -> Nat]
    BY DEF TypeOK
  <2>3. \A k \in 1 .. Len(chunk) : k < at + 1 => js[chunk[k]] \in txJournal'
    BY <1>0, <2>1 DEF Message, GatewayInv
  <2>4. \A s \in Streams : pos[s] <= txPos'[s]
    BY <2>1, <2>2 DEF GatewayInv
  <2> QED BY <1>0, <2>1, <2>3, <2>4 DEF GatewayInv
<1>8. CASE CommitChunk
  <2>1. /\ gphase = "appending" /\ at > Len(chunk) /\ gphase' = "acking" /\ journal' = txJournal
        /\ UNCHANGED <<cursor, ackPending, chunk>>
    BY <1>8 DEF CommitChunk
  <2>2. journal \subseteq txJournal /\ \A k \in 1 .. Len(chunk) : js[chunk[k]] \in txJournal
    BY <1>0, <2>1 DEF GatewayInv
  <2> QED BY <1>0, <2>1, <2>2 DEF GatewayInv
<1>9. CASE AckMessage(TRUE) \/ AckMessage(FALSE)
  <2>1. /\ gphase = "acking" /\ at <= Len(chunk) /\ ackPending \subseteq ackPending' \cup {chunk[at]}
        /\ UNCHANGED <<cursor, gphase, chunk, journal>>
    BY <1>9 DEF AckMessage
  <2>2. js[chunk[at]] \in journal
    BY <1>0, <2>1 DEF TypeOK, GatewayInv
  <2>3. \A m \in 1 .. cursor : m \notin ackPending' => js[m] \in journal
    BY <2>1, <2>2 DEF GatewayInv
  <2> QED BY <1>0, <2>1, <2>3 DEF GatewayInv
<1>10. CASE ChunkDone
  BY <1>0, <1>10 DEF ChunkDone, GatewayInv
<1> QED
  BY <1>1, <1>2, <1>3, <1>4, <1>5, <1>6, <1>7, <1>8, <1>9, <1>10
  DEF GatewayNext, FollowStep, GatewayFault, GatewayCrash, AppendRefused

\* The inductive invariant.
DurableInv == TypeOK /\ Bounds /\ AdapterInv /\ StageInv /\ GatewayInv

\* It holds at the start.
LEMMA DurableInit == Init => DurableInv
<1> SUFFICES ASSUME Init PROVE DurableInv
  OBVIOUS
<1>1. <<>> \in Seq(Records) /\ <<>> \in Seq(Event) /\ <<>> \in Seq(Nat) /\ Len(<<>>) = 0
  BY EmptySeq
<1>2. TypeOK /\ Bounds
  BY <1>1 DEF Init, AdapterInit, GatewayInit, TypeOK, Bounds
<1>3. 1 .. 0 = {}
  OBVIOUS
<1>4. AdapterInv /\ StageInv /\ GatewayInv
  BY <1>3 DEF Init, AdapterInit, GatewayInit, AdapterInv, StageInv, GatewayInv
<1> QED BY <1>2, <1>4 DEF DurableInv

\* Every step of the pipeline keeps it.
LEMMA DurableStep == DurableInv /\ [Next]_vars => DurableInv'
<1> SUFFICES ASSUME DurableInv, [Next]_vars PROVE DurableInv'
  OBVIOUS
<1> USE DEF DurableInv
<1>1. CASE AdapterNext /\ UNCHANGED gatewayVars
  <2>1. TypeOK' /\ Bounds' /\ AdapterInv' /\ StageInv'
    BY <1>1, AdapterTypes, AdapterKeeps
  <2>2. \A i \in 1 .. Len(js) : js'[i] = js[i]
    BY <1>1, StreamIsAppendOnly
  <2>3. /\ \A m \in 1 .. cursor : m \in 1 .. Len(js)
        /\ \A k \in 1 .. Len(chunk) : chunk[k] \in 1 .. Len(js)
    BY DEF TypeOK, Bounds
  <2>4. GatewayInv'
    BY <1>1, <2>2, <2>3
    DEF GatewayInv, gatewayVars, consumerVars, taskVars, journalVars, txVars
  <2> QED BY <2>1, <2>4
<1>2. CASE GatewayNext /\ UNCHANGED adapterVars
  <2>1. TypeOK' /\ Bounds' /\ GatewayInv'
    BY <1>2, GatewayTypes, GatewayKeeps
  <2>2. AdapterInv' /\ StageInv'
    BY <1>2 DEF AdapterInv, StageInv, Stored, adapterVars, committed, transaction, publication, jetVars
  <2> QED BY <2>1, <2>2
<1>3. CASE UNCHANGED vars
  <2> USE <1>3 DEF vars, adapterVars, gatewayVars, consumerVars, taskVars, journalVars, txVars,
                   committed, transaction, publication, jetVars
  <2>1. TypeOK'
    BY DEF TypeOK
  <2>2. Bounds'
    BY DEF Bounds
  <2>3. AdapterInv' /\ StageInv'
    BY DEF AdapterInv, StageInv, Stored
  <2>4. GatewayInv'
    BY DEF GatewayInv
  <2> QED BY <2>1, <2>2, <2>3, <2>4
<1> QED BY <1>1, <1>2, <1>3 DEF Next

\* No crash, lost acknowledgement, failed publication or forgotten identifier loses a record
\* behind the adapter's cursor, and the gateway has journaled whatever it acknowledged.
THEOREM NothingIsLost == Spec => []NothingLost
<1>1. DurableInv => NothingLost
  BY DEF DurableInv, AdapterInv, GatewayInv, NothingLost
<1> QED BY <1>1, DurableInit, DurableStep, PTL DEF Spec

\* A step of the pipeline never takes committed state back.
LEMMA StepNeverBackwards ==
    DurableInv /\ [Next]_vars =>
        /\ offset' >= offset /\ journal \subseteq journal'
        /\ \A s \in Streams : seqs'[s] >= seqs[s] /\ pos'[s] >= pos[s]
<1> SUFFICES ASSUME DurableInv, [Next]_vars
             PROVE  /\ offset' >= offset /\ journal \subseteq journal'
                    /\ \A s \in Streams : seqs'[s] >= seqs[s] /\ pos'[s] >= pos[s]
  OBVIOUS
<1>1. offset \in Nat /\ seqs \in [Streams -> Nat] /\ pos \in [Streams -> Nat]
  BY DEF DurableInv, TypeOK
<1>2. CASE CommitStage /\ UNCHANGED gatewayVars
  <2>1. /\ phase = "staging" /\ offset' = txOffset /\ seqs' = txSeqs
        /\ journal' = journal /\ pos' = pos
    BY <1>2 DEF CommitStage, gatewayVars, journalVars
  <2> QED BY <1>1, <2>1 DEF DurableInv, TypeOK, Bounds, StageInv
<1>3. CASE CommitChunk /\ UNCHANGED adapterVars
  <2>1. /\ gphase = "appending" /\ journal' = txJournal /\ pos' = txPos
        /\ offset' = offset /\ seqs' = seqs
    BY <1>3 DEF CommitChunk, adapterVars, committed
  <2> QED BY <1>1, <2>1 DEF DurableInv, TypeOK, GatewayInv
<1>4. CASE offset' = offset /\ seqs' = seqs /\ journal' = journal /\ pos' = pos
  BY <1>1, <1>4
<1>5. CASE AdapterNext /\ UNCHANGED gatewayVars
  BY <1>2, <1>4, <1>5
  DEF AdapterNext, AdapterStep, AdapterFault, AdapterCrash, ReadMalformed, StageGap, AdapterExit,
      WriteRecord, AdapterStart, ReadBatch, StageOne, BeginPublish, PublishStored, PublishLost,
      PublishBreaks, Acknowledge, WindowPasses, committed, gatewayVars, journalVars
<1>6. CASE GatewayNext /\ UNCHANGED adapterVars
  BY <1>3, <1>4, <1>6
  DEF GatewayNext, FollowStep, GatewayFault, GatewayCrash, AppendRefused, FollowEnds, Deliver,
      Redeliver, Follow, TakeChunk, AppendDuplicate, AppendNew, AckMessage, ChunkDone,
      adapterVars, committed, journalVars
<1>7. CASE UNCHANGED vars
  BY <1>4, <1>7 DEF vars, adapterVars, gatewayVars, committed, journalVars
<1> QED BY <1>5, <1>6, <1>7 DEF Next

\* The cursor, the sequences and the journal only move forward.
THEOREM CommittedMovesForward == Spec => NeverBackwards
<1> QED BY DurableInit, DurableStep, StepNeverBackwards, PTL DEF Spec, NeverBackwards

-----------------------------------------------------------------------------
(* The order of a stream, and the identity of its envelopes.               *)

\* Ordinals are numbers, and grow with the place in the log.
LEMMA OrdinalGrows ==
    ASSUME NEW s, NEW i \in Nat, NEW j \in Nat, i <= j
    PROVE  /\ Ordinal(s, i) \in Nat /\ Ordinal(s, i) <= Ordinal(s, j)
           /\ i < j /\ log[j].stream = s => Ordinal(s, i) < Ordinal(s, j)
<1> DEFINE upto(n) == {m \in 1 .. n : log[m].stream = s}
<1>1. IsFiniteSet(1 .. i) /\ IsFiniteSet(1 .. j)
  BY FS_Interval
<1>2. upto(i) \in SUBSET (1 .. i) /\ upto(j) \in SUBSET (1 .. j) /\ upto(i) \in SUBSET upto(j)
  OBVIOUS
<1>3. IsFiniteSet(upto(i)) /\ IsFiniteSet(upto(j))
  BY <1>1, <1>2, FS_Subset
<1>4. /\ Cardinality(upto(i)) \in Nat /\ Cardinality(upto(j)) \in Nat
      /\ Cardinality(upto(i)) <= Cardinality(upto(j))
      /\ Cardinality(upto(i)) = Cardinality(upto(j)) => upto(i) = upto(j)
  BY <1>2, <1>3, FS_CardinalityType, FS_Subset
<1>5. i < j /\ log[j].stream = s => j \in upto(j) /\ j \notin upto(i)
  OBVIOUS
<1>6. Ordinal(s, i) = Cardinality(upto(i)) /\ Ordinal(s, j) = Cardinality(upto(j))
  BY DEF Ordinal
<1> QED BY <1>4, <1>5, <1>6

\* The next record counts for its own stream and for no other.
LEMMA OrdinalNext ==
    ASSUME NEW s, NEW i \in Nat
    PROVE  Ordinal(s, i + 1) = IF log[i + 1].stream = s THEN Ordinal(s, i) + 1 ELSE Ordinal(s, i)
<1> DEFINE upto(n) == {m \in 1 .. n : log[m].stream = s}
<1>1. IsFiniteSet(1 .. i) /\ upto(i) \in SUBSET (1 .. i)
  BY FS_Interval
<1>2. IsFiniteSet(upto(i)) /\ i + 1 \notin upto(i)
  BY <1>1, FS_Subset
<1>3. upto(i + 1) = IF log[i + 1].stream = s THEN upto(i) \cup {i + 1} ELSE upto(i)
  OBVIOUS
<1>4. Cardinality(upto(i) \cup {i + 1}) = Cardinality(upto(i)) + 1
  BY <1>2, FS_AddElement
<1> QED BY <1>3, <1>4 DEF Ordinal

\* A stream and an ordinal tell the record.
LEMMA OrdinalTells ==
    ASSUME NEW i \in Nat, NEW j \in Nat, log[i].stream = log[j].stream,
           Ordinal(log[i].stream, i) = Ordinal(log[j].stream, j)
    PROVE  i = j
<1> DEFINE s == log[i].stream
<1>1. Ordinal(s, i) \in Nat /\ Ordinal(s, j) \in Nat
  BY OrdinalGrows
<1>2. ~(i < j) /\ ~(j < i)
  BY <1>1, OrdinalGrows
<1> QED BY <1>2

\* What is written later changes no ordinal.
LEMMA OrdinalStays ==
    ASSUME NEW s, NEW i \in Nat, \A j \in 1 .. i : log'[j] = log[j]
    PROVE  Ordinal(s, i)' = Ordinal(s, i)
BY DEF Ordinal

\* What every envelope outside the open transaction carries: the record at its place behind
\* the cursor, with the ordinal of that record. Identifiers and places are used once.
LogInv ==
    /\ \A e \in Envelopes : /\ e.id < nextId /\ e.src \in 1 .. offset
                            /\ e.stream = log[e.src].stream /\ e.seq = Ordinal(e.stream, e.src)
    /\ \A e, f \in Envelopes : e.id = f.id \/ e.src = f.src => e = f
    /\ \A s \in Streams : seqs[s] = Ordinal(s, offset)
    /\ \A i \in 1 .. offset : Good(i)

\* The same of the open transaction. It starts from an empty outbox, so that the rows it
\* commits are all new, and from lines that all parse.
LogTxInv ==
    phase = "staging" =>
        /\ outbox = {}
        /\ \A e \in txOutbox : /\ nextId <= e.id /\ e.id < txNextId /\ e.src \in offset + 1 .. txOffset
                               /\ e.stream = log[e.src].stream /\ e.seq = Ordinal(e.stream, e.src)
        /\ \A e, f \in txOutbox : e.id = f.id \/ e.src = f.src => e = f
        /\ \A s \in Streams : txSeqs[s] = Ordinal(s, txOffset)
        /\ \A i \in offset + 1 .. txOffset : Good(i)
        /\ \A i \in offset + 1 .. txEnd : log[i].ok

\* A journal has a row for every sequence up to the position of its stream, and no other.
Dense(rows, last) ==
    /\ \A s \in Streams : \A k \in 1 .. last[s] : \E e \in rows : e.stream = s /\ e.seq = k
    /\ \A e \in rows : e.seq \in 1 .. last[e.stream]

OrderInv == LogInv /\ LogTxInv /\ Dense(journal, pos) /\ Dense(txJournal, txPos)

\* Envelopes that were there before are right as long as the committed cursor stays.
LEMMA LogKept ==
    ASSUME TypeOK, Bounds, LogInv, UNCHANGED <<offset, seqs, nextId>>, Envelopes' \subseteq Envelopes,
           \A i \in 1 .. Len(log) : log'[i] = log[i]
    PROVE  LogInv'
<1>1. offset \in Nat /\ Len(log) \in Nat /\ offset <= Len(log)
  BY DEF TypeOK, Bounds
<1>2. \A i \in 1 .. offset : i \in Nat /\ log'[i] = log[i] /\ \A j \in 1 .. i : log'[j] = log[j]
  BY <1>1
<1>3. \A s : \A i \in 1 .. offset : Ordinal(s, i)' = Ordinal(s, i)
  BY <1>2, OrdinalStays
<1>4. \A s \in Streams : Ordinal(s, offset)' = Ordinal(s, offset)
  <2>1. \A s : {j \in 1 .. offset : log'[j].stream = s} = {j \in 1 .. offset : log[j].stream = s}
    BY <1>2
  <2> QED BY <2>1 DEF Ordinal
<1>5. \A e \in Envelopes' : /\ e.id < nextId' /\ e.src \in 1 .. offset'
                            /\ e.stream = log'[e.src].stream /\ e.seq = Ordinal(e.stream, e.src)'
  BY <1>2, <1>3 DEF LogInv
<1>6. \A i \in 1 .. offset : Good(i)'
  BY <1>2, <1>3 DEF LogInv, Good
<1> QED BY <1>4, <1>5, <1>6 DEF LogInv

\* The open transaction stays in order while neither it nor the log changes.
LEMMA LogTxKept ==
    ASSUME LogTxInv, UNCHANGED <<log, phase, committed, transaction>>
    PROVE  LogTxInv'
<1>1. \A s, i : Ordinal(s, i)' = Ordinal(s, i)
  BY DEF Ordinal
<1>2. \A i : Good(i)' = Good(i)
  BY <1>1 DEF Good
<1>3. /\ phase' = phase /\ outbox' = outbox /\ nextId' = nextId /\ offset' = offset /\ log' = log
      /\ txOutbox' = txOutbox /\ txNextId' = txNextId /\ txOffset' = txOffset /\ txSeqs' = txSeqs
      /\ txEnd' = txEnd
  BY DEF committed, transaction
<1> QED BY <1>1, <1>2, <1>3 DEF LogTxInv

\* No step but the commit of a stage adds an envelope.
LEMMA AdapterEnvelopes ==
    ASSUME TypeOK, AdapterInv, AdapterNext, UNCHANGED gatewayVars
    PROVE  \/ CommitStage
           \/ UNCHANGED <<offset, seqs, nextId>> /\ Envelopes' \subseteq Envelopes
<1> USE DEF committed, transaction, publication, jetVars, gatewayVars, journalVars, txVars
<1>1. CASE \E e \in sending, arrives \in BOOLEAN : PublishStored(e, arrives)
  <2>1. PICK e \in sending, arrives \in BOOLEAN : PublishStored(e, arrives)
    BY <1>1
  <2>2. js \in Seq(Event) /\ e \in Event
    BY DEF TypeOK
  <2>3. Stored' \subseteq Stored \cup {e}
    <3>1. CASE js' = js
      BY <3>1 DEF Stored
    <3>2. CASE js' = Append(js, e)
      <4>1. /\ Len(js) \in Nat /\ DOMAIN js = 1 .. Len(js) /\ DOMAIN js' = 1 .. Len(js) + 1
            /\ js'[Len(js) + 1] = e /\ \A i \in 1 .. Len(js) : js'[i] = js[i]
        BY <2>2, <3>2, AppendProperties, LenProperties
      <4>2. \A i \in 1 .. Len(js) + 1 : i \in 1 .. Len(js) \/ i = Len(js) + 1
        BY <4>1
      <4> QED BY <4>1, <4>2 DEF Stored
    <3> QED BY <2>1, <3>1, <3>2 DEF PublishStored, Store
  <2> QED BY <2>1, <2>3 DEF PublishStored, Envelopes
<1>2. CASE AdapterExit
  BY <1>2 DEF AdapterExit, Envelopes, Stored
<1>3. CASE BeginPublish
  BY <1>3 DEF BeginPublish, Pending, Envelopes, Stored
<1>4. CASE Acknowledge
  BY <1>4 DEF Acknowledge, Envelopes, Stored
<1>5. CASE /\ UNCHANGED <<offset, seqs, outbox, nextId, js>> /\ sending' \subseteq sending
  BY <1>5 DEF Envelopes, Stored
<1> QED
  BY <1>1, <1>2, <1>3, <1>4, <1>5
  DEF AdapterNext, AdapterStep, AdapterFault, AdapterCrash, ReadMalformed, StageGap,
      WriteRecord, AdapterStart, ReadBatch, StageOne, PublishLost, PublishBreaks, WindowPasses

\* The gateway journals only what JetStream holds.
LEMMA GatewayEnvelopes ==
    ASSUME TypeOK, Bounds, GatewayNext, UNCHANGED adapterVars
    PROVE  Envelopes' \subseteq Envelopes
<1> USE DEF consumerVars, taskVars, journalVars, txVars, adapterVars, committed, transaction, publication, jetVars
<1>1. Stored' = Stored
  BY DEF Stored
<1>2. CASE AppendNew
  <2>1. chunk[at] \in 1 .. Len(js)
    BY <1>2 DEF AppendNew, Appending, TypeOK, Bounds
  <2>2. Message \in Stored
    BY <2>1, LenProperties DEF Message, Stored, TypeOK
  <2> QED BY <1>1, <1>2, <2>2 DEF AppendNew, Envelopes
<1>3. CASE FollowEnds
  BY <1>1, <1>3 DEF FollowEnds, Envelopes
<1>4. CASE \E n \in 1 .. Batch : TakeChunk(n)
  BY <1>1, <1>4 DEF TakeChunk, Envelopes
<1>5. CASE CommitChunk
  BY <1>1, <1>5 DEF CommitChunk, Envelopes
<1>6. CASE UNCHANGED <<journal, txJournal>>
  BY <1>1, <1>6 DEF Envelopes
<1> QED
  BY <1>2, <1>3, <1>4, <1>5, <1>6
  DEF GatewayNext, FollowStep, GatewayFault, GatewayCrash, AppendRefused, Deliver, Redeliver,
      Follow, AppendDuplicate, AckMessage, ChunkDone

\* Staging gives the next record of its stream its ordinal.
LEMMA StageOneOrder ==
    ASSUME TypeOK, Bounds, StageInv, LogInv, LogTxInv, StageOne
    PROVE  LogTxInv'
<1> DEFINE new == Envelope(NextRecord)
           s0 == NextRecord.stream
<1>1. /\ phase = "staging" /\ phase' = phase /\ offset' = offset /\ outbox' = outbox /\ nextId' = nextId
      /\ log' = log /\ txEnd' = txEnd /\ txOffset < txEnd /\ SequenceFits(NextRecord)
      /\ txOffset' = txOffset + 1 /\ txNextId' = txNextId + 1 /\ txOutbox' = txOutbox \cup {new}
      /\ txSeqs' = [txSeqs EXCEPT ![s0] = @ + 1]
  BY DEF StageOne, committed
<1>2. /\ offset \in Nat /\ txOffset \in Nat /\ txEnd \in Nat /\ nextId \in Nat /\ txNextId \in Nat
      /\ txSeqs \in [Streams -> Nat] /\ Len(log) \in Nat /\ txEnd <= Len(log) /\ offset <= txOffset
  BY <1>1 DEF TypeOK, Bounds
<1>3. txOffset + 1 \in offset + 1 .. txEnd /\ txOffset + 1 \in 1 .. Len(log)
  BY <1>1, <1>2
<1>4. NextRecord \in [stream : Streams, seq : Nat, ok : BOOLEAN] /\ NextRecord = log[txOffset + 1]
  BY <1>3, ElementOfSeq, RecordsAssumption DEF NextRecord, TypeOK
<1>5. \A s \in Streams : /\ Ordinal(s, txOffset) \in Nat
                         /\ Ordinal(s, txOffset + 1) = IF s0 = s THEN Ordinal(s, txOffset) + 1 ELSE Ordinal(s, txOffset)
  <2>1. \A s : Ordinal(s, txOffset + 1) = IF log[txOffset + 1].stream = s THEN Ordinal(s, txOffset) + 1
                                          ELSE Ordinal(s, txOffset)
    BY <1>2, OrdinalNext
  <2>2. \A s : Ordinal(s, txOffset) \in Nat
    BY <1>2, OrdinalGrows
  <2> QED BY <1>4, <2>1, <2>2
<1>6. \A s \in Streams : txSeqs[s] = Ordinal(s, txOffset)
  BY <1>1 DEF LogTxInv
<1>7. /\ new.id = txNextId /\ new.src = txOffset + 1 /\ new.stream = s0
      /\ new.seq = Ordinal(s0, txOffset + 1)
  BY <1>4, <1>5, <1>6 DEF Envelope
<1>8. Good(txOffset + 1)
  <2>1. log[txOffset + 1].ok
    BY <1>1, <1>3 DEF LogTxInv
  <2>2. NextRecord.seq \in {0, Ordinal(s0, txOffset + 1)}
    BY <1>1, <1>4, <1>5, <1>6 DEF SequenceFits
  <2> QED BY <1>4, <2>1, <2>2 DEF Good
<1>9. \A s : \A i : Ordinal(s, i)' = Ordinal(s, i)
  BY <1>1 DEF Ordinal
<1>10. outbox' = {}
  BY <1>1 DEF LogTxInv
<1>11. \A e \in txOutbox' : /\ nextId' <= e.id /\ e.id < txNextId' /\ e.src \in offset' + 1 .. txOffset'
                            /\ e.stream = log'[e.src].stream /\ e.seq = Ordinal(e.stream, e.src)'
  <2>1. nextId <= txNextId
    BY <1>1 DEF StageInv
  <2> SUFFICES ASSUME NEW e \in txOutbox'
               PROVE  /\ nextId' <= e.id /\ e.id < txNextId' /\ e.src \in offset' + 1 .. txOffset'
                      /\ e.stream = log'[e.src].stream /\ e.seq = Ordinal(e.stream, e.src)'
    OBVIOUS
  <2>2. CASE e = new
    BY <1>1, <1>2, <1>3, <1>4, <1>7, <1>9, <2>1, <2>2
  <2>3. CASE e \in txOutbox
    <3>1. e.id \in Nat /\ e.src \in Nat
      BY <2>3 DEF TypeOK, Event
    <3> QED BY <1>1, <1>2, <1>9, <2>3, <3>1 DEF LogTxInv
  <2> QED BY <1>1, <2>2, <2>3
<1>12. \A e, f \in txOutbox' : e.id = f.id \/ e.src = f.src => e = f
  <2>1. \A e \in txOutbox : e.id \in Nat /\ e.id < txNextId /\ e.src \in Nat /\ e.src <= txOffset
    BY <1>1, <1>2 DEF LogTxInv, TypeOK, Event
  <2>2. \A e \in txOutbox : e.id # new.id /\ e.src # new.src
    BY <1>2, <1>7, <2>1
  <2> QED BY <1>1, <2>2 DEF LogTxInv
<1>13. \A s \in Streams : txSeqs'[s] = Ordinal(s, txOffset)
                           + (IF s = s0 THEN 1 ELSE 0)
  BY <1>1, <1>2, <1>4, <1>5, <1>6
<1>14. \A s \in Streams : txSeqs'[s] = Ordinal(s, txOffset)'
  <2>1. \A s \in Streams : txSeqs'[s] = Ordinal(s, txOffset + 1)
    BY <1>5, <1>13
  <2>2. \A s : Ordinal(s, txOffset)' = Ordinal(s, txOffset + 1)
    BY <1>1 DEF Ordinal
  <2> QED BY <2>1, <2>2
<1>15. \A i \in offset' + 1 .. txOffset' : Good(i)'
  <2>1. \A i : Good(i)' = Good(i)
    BY <1>1, <1>9 DEF Good
  <2>2. \A i \in offset + 1 .. txOffset + 1 : i \in offset + 1 .. txOffset \/ i = txOffset + 1
    BY <1>2
  <2> QED BY <1>1, <1>8, <2>1, <2>2 DEF LogTxInv
<1>16. \A i \in offset' + 1 .. txEnd' : log'[i].ok
  BY <1>1 DEF LogTxInv
<1> QED BY <1>10, <1>11, <1>12, <1>14, <1>15, <1>16 DEF LogTxInv

\* The commit makes the transaction's envelopes the committed ones: their identifiers and
\* their places are beyond all that were used before.
LEMMA CommitOrder ==
    ASSUME TypeOK, Bounds, AdapterInv, StageInv, LogInv, LogTxInv, CommitStage, UNCHANGED gatewayVars
    PROVE  LogInv' /\ LogTxInv'
<1>1. /\ phase = "staging" /\ phase' = "idle" /\ offset' = txOffset /\ seqs' = txSeqs
      /\ outbox' = txOutbox /\ nextId' = txNextId /\ log' = log /\ js' = js /\ sending' = sending
      /\ journal' = journal /\ txJournal' = txJournal
  BY DEF CommitStage, publication, jetVars, gatewayVars, journalVars, txVars
<1>2. /\ offset \in Nat /\ txOffset \in Nat /\ nextId \in Nat /\ txNextId \in Nat
      /\ offset <= txOffset /\ nextId <= txNextId
  BY <1>1 DEF TypeOK, Bounds, StageInv
<1>3. \A s : \A i : Ordinal(s, i)' = Ordinal(s, i)
  BY <1>1 DEF Ordinal
<1>4. Envelopes' \subseteq Envelopes \cup txOutbox
  BY <1>1 DEF Envelopes, Stored
<1>5. \A e \in Envelopes : e \in Event
  <2>1. Stored \subseteq Event
    BY LenProperties, ElementOfSeq DEF TypeOK, Stored
  <2> QED BY <2>1 DEF Envelopes, TypeOK
<1>6. \A e \in Envelopes' : /\ e.id < txNextId /\ e.src \in 1 .. txOffset
                            /\ e.stream = log[e.src].stream /\ e.seq = Ordinal(e.stream, e.src)
  <2> SUFFICES ASSUME NEW e \in Envelopes'
               PROVE  /\ e.id < txNextId /\ e.src \in 1 .. txOffset
                      /\ e.stream = log[e.src].stream /\ e.seq = Ordinal(e.stream, e.src)
    OBVIOUS
  <2>1. CASE e \in Envelopes
    <3>1. e.id \in Nat /\ e.src \in Nat
      BY <1>5, <2>1 DEF Event
    <3> QED BY <1>2, <2>1, <3>1 DEF LogInv
  <2>2. CASE e \in txOutbox
    <3>1. e.id \in Nat /\ e.src \in Nat
      BY <2>2 DEF TypeOK, Event
    <3> QED BY <1>1, <1>2, <2>2, <3>1 DEF LogTxInv
  <2> QED BY <1>4, <2>1, <2>2
<1>7. \A e \in Envelopes : \A f \in txOutbox : e.id # f.id /\ e.src # f.src
  <2> SUFFICES ASSUME NEW e \in Envelopes, NEW f \in txOutbox PROVE e.id # f.id /\ e.src # f.src
    OBVIOUS
  <2>1. /\ e.id \in Nat /\ e.src \in Nat /\ f.id \in Nat /\ f.src \in Nat
    BY <1>5 DEF TypeOK, Event
  <2>2. e.id < nextId /\ e.src <= offset
    BY <1>2, <2>1 DEF LogInv
  <2>3. nextId <= f.id /\ offset + 1 <= f.src
    BY <1>1, <1>2, <2>1 DEF LogTxInv
  <2> QED BY <1>2, <2>1, <2>2, <2>3
<1>8. \A e, f \in Envelopes' : e.id = f.id \/ e.src = f.src => e = f
  BY <1>1, <1>4, <1>7 DEF LogInv, LogTxInv
<1>9. \A s \in Streams : seqs'[s] = Ordinal(s, offset)'
  <2>1. \A s : Ordinal(s, offset)' = Ordinal(s, txOffset)
    BY <1>1 DEF Ordinal
  <2> QED BY <1>1, <2>1 DEF LogTxInv
<1>10. \A i \in 1 .. offset' : Good(i)'
  <2>1. \A i : Good(i)' = Good(i)
    BY <1>1, <1>3 DEF Good
  <2>2. \A i \in 1 .. txOffset : i \in 1 .. offset \/ i \in offset + 1 .. txOffset
    BY <1>2
  <2> QED BY <1>1, <2>1, <2>2 DEF LogInv, LogTxInv
<1>11. LogInv'
  BY <1>1, <1>3, <1>6, <1>8, <1>9, <1>10 DEF LogInv
<1>12. LogTxInv'
  BY <1>1 DEF LogTxInv
<1> QED BY <1>11, <1>12

\* Every step of the adapter and of JetStream keeps the order of the envelopes.
LEMMA AdapterOrder ==
    ASSUME DurableInv, LogInv, LogTxInv, AdapterNext, UNCHANGED gatewayVars
    PROVE  LogInv' /\ LogTxInv'
<1> USE DEF DurableInv
<1>0. \A i \in 1 .. Len(log) : log'[i] = log[i]
  <2>1. CASE log' = log
    BY <2>1
  <2>2. CASE \E r \in Records : log' = Append(log, r)
    BY <2>2, AppendProperties DEF TypeOK
  <2> QED
    BY <2>1, <2>2
    DEF AdapterNext, AdapterStep, AdapterFault, AdapterCrash, ReadMalformed, StageGap, AdapterExit,
        WriteRecord, AdapterStart, ReadBatch, StageOne, CommitStage, BeginPublish, PublishStored,
        PublishLost, PublishBreaks, Acknowledge, WindowPasses
<1>1. CASE CommitStage
  BY <1>1, CommitOrder
<1>2. CASE ~CommitStage
  <2>1. LogInv'
    BY <1>0, <1>2, AdapterEnvelopes, LogKept
  <2>2. CASE \E r \in Records : WriteRecord(r)
    <3>1. UNCHANGED <<phase, committed, transaction>>
      BY <2>2 DEF WriteRecord
    <3>2. CASE phase = "staging"
      <4>1. /\ offset \in Nat /\ txOffset \in Nat /\ txEnd \in Nat /\ Len(log) \in Nat
            /\ txOffset <= txEnd /\ txEnd <= Len(log)
        BY <3>2 DEF TypeOK, Bounds
      <4>2. \A i \in 1 .. txEnd : i \in Nat /\ log'[i] = log[i] /\ \A j \in 1 .. i : log'[j] = log[j]
        BY <1>0, <4>1
      <4>3. \A s : \A i \in 1 .. txEnd : Ordinal(s, i)' = Ordinal(s, i)
        BY <4>2, OrdinalStays
      <4>4. \A s : Ordinal(s, txOffset)' = Ordinal(s, txOffset)
        <5>1. \A s : {j \in 1 .. txOffset : log'[j].stream = s} = {j \in 1 .. txOffset : log[j].stream = s}
          BY <4>1, <4>2
        <5> QED BY <3>1, <5>1 DEF Ordinal, transaction
      <4>5. \A i \in offset + 1 .. txEnd : i \in 1 .. txEnd
        BY <4>1
      <4>6. \A i \in offset + 1 .. txOffset : i \in 1 .. txEnd
        BY <4>1
      <4>7. \A i \in 1 .. txEnd : Good(i)' = Good(i)
        BY <4>2, <4>3 DEF Good
      <4> USE <3>1 DEF committed, transaction
      <4>8. \A e \in txOutbox : /\ nextId <= e.id /\ e.id < txNextId /\ e.src \in offset + 1 .. txOffset
                                /\ e.stream = log'[e.src].stream /\ e.seq = Ordinal(e.stream, e.src)'
        BY <3>2, <4>2, <4>3, <4>6 DEF LogTxInv
      <4>9. \A i \in offset + 1 .. txOffset : Good(i)'
        BY <3>2, <4>6, <4>7 DEF LogTxInv
      <4>10. \A i \in offset + 1 .. txEnd : log'[i].ok
        BY <3>2, <4>2, <4>5 DEF LogTxInv
      <4> QED BY <2>1, <3>2, <4>4, <4>8, <4>9, <4>10 DEF LogTxInv
    <3> QED BY <2>1, <3>1, <3>2 DEF LogTxInv
  <2>3. CASE ReadBatch
    <3>1. /\ outbox = {} /\ txOutbox' = {} /\ UNCHANGED <<log, offset, seqs, outbox, nextId>>
          /\ txOffset' = offset /\ txSeqs' = seqs /\ txEnd' = ReadEnd
          /\ \A i \in offset + 1 .. ReadEnd : log[i].ok
      BY <2>3 DEF ReadBatch, Unread, committed
    <3>2. offset \in Nat /\ offset + 1 .. offset = {}
      BY DEF TypeOK
    <3>3. \A s \in Streams : seqs[s] = Ordinal(s, offset)
      BY DEF LogInv
    <3>4. \A s \in Streams : txSeqs'[s] = Ordinal(s, txOffset)'
      BY <3>1, <3>3 DEF Ordinal
    <3> QED BY <2>1, <3>1, <3>2, <3>4 DEF LogTxInv
  <2>4. CASE StageOne
    BY <2>1, <2>4, StageOneOrder
  <2>5. CASE phase' # "staging"
    BY <2>1, <2>5 DEF LogTxInv
  <2>6. CASE UNCHANGED <<log, phase, committed, transaction>>
    BY <2>1, <2>6 DEF LogTxInv, Ordinal, Good, committed, transaction
  <2> QED
    BY <1>2, <2>1, <2>2, <2>3, <2>4, <2>5, <2>6
    DEF AdapterNext, AdapterStep, AdapterFault, AdapterCrash, ReadMalformed, StageGap, AdapterExit,
        AdapterStart, BeginPublish, PublishStored, PublishLost, PublishBreaks, Acknowledge, WindowPasses
<1> QED BY <1>1, <1>2

\* Appending the next sequence of a stream leaves no gap; everything else copies a journal.
LEMMA GatewayRows ==
    ASSUME TypeOK, Bounds, Dense(journal, pos), Dense(txJournal, txPos), GatewayNext, UNCHANGED adapterVars
    PROVE  Dense(journal, pos)' /\ Dense(txJournal, txPos)'
<1> USE DEF journalVars, txVars
<1>1. CASE AppendNew
  <2> DEFINE e == Message
  <2>1. /\ txJournal' = txJournal \cup {e} /\ e.seq = txPos[e.stream] + 1
        /\ txPos' = [txPos EXCEPT ![e.stream] = e.seq] /\ UNCHANGED journalVars
    BY <1>1 DEF AppendNew
  <2>2. chunk[at] \in 1 .. Len(js)
    BY <1>1 DEF AppendNew, Appending, TypeOK, Bounds
  <2>3. e \in Event
    BY <2>2, ElementOfSeq DEF Message, TypeOK
  <2>4. txPos \in [Streams -> Nat] /\ txJournal \subseteq Event
    BY DEF TypeOK
  <2> HIDE DEF e
  <2>5. e.stream \in Streams /\ e.seq \in Nat
    BY <2>3 DEF Event
  <2>6. \A s \in Streams : txPos'[s] = IF s = e.stream THEN txPos[s] + 1 ELSE txPos[s]
    BY <2>1, <2>4, <2>5
  <2>7. \A s \in Streams : \A k \in 1 .. txPos'[s] : \E f \in txJournal' : f.stream = s /\ f.seq = k
    <3> SUFFICES ASSUME NEW s \in Streams, NEW k \in 1 .. txPos'[s]
                 PROVE  \E f \in txJournal' : f.stream = s /\ f.seq = k
      OBVIOUS
    <3>1. CASE k \in 1 .. txPos[s]
      BY <2>1, <3>1 DEF Dense
    <3>2. CASE s = e.stream /\ k = txPos[s] + 1
      BY <2>1, <3>2
    <3>3. txPos[s] \in Nat /\ k \in Nat
      BY <2>4, <2>6
    <3> QED BY <2>6, <3>1, <3>2, <3>3
  <2>8. \A f \in txJournal' : f.seq \in 1 .. txPos'[f.stream]
    <3> SUFFICES ASSUME NEW f \in txJournal' PROVE f.seq \in 1 .. txPos'[f.stream]
      OBVIOUS
    <3>1. CASE f \in txJournal
      <4>1. f.stream \in Streams /\ f.seq \in Nat /\ txPos[f.stream] \in Nat
        BY <2>4, <3>1 DEF Event
      <4>2. f.seq \in 1 .. txPos[f.stream]
        BY <3>1 DEF Dense
      <4> QED BY <2>6, <4>1, <4>2
    <3>2. CASE f = e
      BY <2>1, <2>4, <2>5, <2>6, <3>2
    <3> QED BY <2>1, <3>1, <3>2
  <2> QED BY <2>1, <2>7, <2>8 DEF Dense
<1>2. CASE FollowEnds
  BY <1>2 DEF FollowEnds, Dense
<1>3. CASE \E n \in 1 .. Batch : TakeChunk(n)
  <2>1. txJournal' = journal /\ txPos' = pos /\ UNCHANGED journalVars
    BY <1>3 DEF TakeChunk
  <2> QED BY <2>1 DEF Dense, journalVars
<1>4. CASE CommitChunk
  BY <1>4 DEF CommitChunk, Dense
<1>5. CASE UNCHANGED <<journalVars, txVars>>
  BY <1>5 DEF Dense
<1> QED
  BY <1>1, <1>2, <1>3, <1>4, <1>5
  DEF GatewayNext, FollowStep, GatewayFault, GatewayCrash, AppendRefused, Deliver, Redeliver,
      Follow, AppendDuplicate, AckMessage, ChunkDone

\* The order holds at the start.
LEMMA OrderInit == Init => OrderInv
<1> SUFFICES ASSUME Init PROVE OrderInv
  OBVIOUS
<1>1. 1 .. 0 = {}
  OBVIOUS
<1>2. Envelopes = {}
  <2>1. js = <<>> /\ DOMAIN js = {}
    BY DEF Init, AdapterInit
  <2> QED BY <2>1 DEF Init, AdapterInit, GatewayInit, Envelopes, Stored
<1>3. \A s : Ordinal(s, 0) = 0
  <2>1. \A s : {j \in 1 .. 0 : log[j].stream = s} = {}
    BY <1>1
  <2> QED BY <2>1, FS_EmptySet DEF Ordinal
<1>4. LogInv /\ LogTxInv
  BY <1>1, <1>2, <1>3 DEF Init, AdapterInit, LogInv, LogTxInv
<1>5. Dense(journal, pos) /\ Dense(txJournal, txPos)
  BY <1>1 DEF Init, GatewayInit, Dense
<1> QED BY <1>4, <1>5 DEF OrderInv

\* Every step of the pipeline keeps the order.
LEMMA OrderStep == DurableInv /\ OrderInv /\ [Next]_vars => OrderInv'
<1> SUFFICES ASSUME DurableInv, OrderInv, [Next]_vars PROVE OrderInv'
  OBVIOUS
<1> USE DEF OrderInv
<1>1. CASE AdapterNext /\ UNCHANGED gatewayVars
  <2>1. LogInv' /\ LogTxInv'
    BY <1>1, AdapterOrder
  <2>2. Dense(journal, pos)' /\ Dense(txJournal, txPos)'
    BY <1>1 DEF gatewayVars, journalVars, txVars, Dense
  <2> QED BY <2>1, <2>2
<1>2. CASE GatewayNext /\ UNCHANGED adapterVars
  <2>1. UNCHANGED <<log, phase, committed, transaction>>
    BY <1>2 DEF adapterVars
  <2>2. LogInv'
    BY <1>2, <2>1, GatewayEnvelopes, LogKept DEF DurableInv, committed
  <2>3. LogTxInv'
    BY <2>1, LogTxKept
  <2>4. Dense(journal, pos)' /\ Dense(txJournal, txPos)'
    BY <1>2, GatewayRows DEF DurableInv
  <2> QED BY <2>2, <2>3, <2>4
<1>3. CASE UNCHANGED vars
  <2>1. UNCHANGED <<log, phase, committed, transaction, journalVars, txVars, js, outbox, sending>>
    BY <1>3 DEF vars, adapterVars, gatewayVars, consumerVars, taskVars, journalVars, txVars,
                committed, transaction, publication, jetVars
  <2>2. Envelopes' = Envelopes
    BY <2>1 DEF Envelopes, Stored, journalVars, txVars
  <2>3. LogInv'
    BY <2>1, <2>2, LogKept DEF DurableInv, committed
  <2>4. LogTxInv'
    BY <2>1, LogTxKept
  <2>5. Dense(journal, pos)' /\ Dense(txJournal, txPos)'
    BY <2>1 DEF Dense, journalVars, txVars
  <2> QED BY <2>3, <2>4, <2>5
<1> QED BY <1>1, <1>2, <1>3 DEF Next

\* In every state the envelopes are in order, besides nothing being lost.
LEMMA PipelineInv == Spec => [](DurableInv /\ OrderInv)
<1> QED BY DurableInit, DurableStep, OrderInit, OrderStep, PTL DEF Spec

\* An envelope is the only one of its identifier, of its record, and of its place in its
\* stream, through every crash, republication and redelivery.
LEMMA EnvelopesDiffer == DurableInv /\ OrderInv => IdentityIsStable
<1> SUFFICES ASSUME DurableInv, OrderInv, NEW e \in Envelopes, NEW f \in Envelopes,
                    e.src = f.src \/ e.id = f.id \/ (e.stream = f.stream /\ e.seq = f.seq)
             PROVE  e = f
  BY DEF IdentityIsStable
<1>1. /\ e.src \in 1 .. offset /\ e.stream = log[e.src].stream /\ e.seq = Ordinal(e.stream, e.src)
      /\ f.src \in 1 .. offset /\ f.stream = log[f.src].stream /\ f.seq = Ordinal(f.stream, f.src)
  BY DEF OrderInv, LogInv
<1>2. e.src \in Nat /\ f.src \in Nat
  BY <1>1 DEF DurableInv, TypeOK
<1>3. e.stream = f.stream /\ e.seq = f.seq => e.src = f.src
  BY <1>1, <1>2, OrdinalTells
<1> QED BY <1>3 DEF OrderInv, LogInv

\* A record has one envelope for ever, so that append_many never meets a reused identity.
THEOREM IdentityStable == Spec => []IdentityIsStable
<1> QED BY PipelineInv, EnvelopesDiffer, PTL

\* A line that does not parse, or is out of its stream's sequence, is never passed over.
THEOREM GoodRecordsOnly == Spec => []OnlyGoodRecordsStaged
<1>1. OrderInv => OnlyGoodRecordsStaged
  BY DEF OrderInv, LogInv, OnlyGoodRecordsStaged
<1> QED BY <1>1, PipelineInv, PTL

\* A row of the journal carries a record of the log, the one its sequence tells.
LEMMA JournalRows ==
    ASSUME DurableInv, OrderInv
    PROVE  /\ \A e \in journal : /\ e.src \in 1 .. Len(log) /\ e.stream = log[e.src].stream
                                 /\ e.seq = Ordinal(e.stream, e.src) /\ e.seq \in 1 .. pos[e.stream]
           /\ \A e, f \in journal : e.stream = f.stream /\ e.seq = f.seq => e = f
           /\ \A s \in Streams : \A k \in 1 .. pos[s] : \E e \in journal : e.stream = s /\ e.seq = k
<1>1. journal \subseteq Envelopes
  BY DEF Envelopes
<1>2. offset \in Nat /\ Len(log) \in Nat /\ offset <= Len(log)
  BY DEF DurableInv, TypeOK, Bounds
<1>3. \A e \in journal : e.src \in 1 .. offset /\ e.stream = log[e.src].stream /\ e.seq = Ordinal(e.stream, e.src)
  BY <1>1 DEF OrderInv, LogInv
<1>4. \A i \in 1 .. offset : i \in 1 .. Len(log)
  BY <1>2
<1>5. \A e, f \in journal : e.stream = f.stream /\ e.seq = f.seq => e = f
  BY <1>1, EnvelopesDiffer DEF IdentityIsStable
<1> QED BY <1>3, <1>4, <1>5 DEF OrderInv, Dense

\* The journal of a stream is the beginning of that stream in the log, in order, without gap
\* and without repetition.
THEOREM JournalIsPrefix == Spec => []JournalIsLogPrefix
<1>1. ASSUME DurableInv, OrderInv PROVE JournalIsLogPrefix
  <2>1. ASSUME NEW s \in Streams PROVE pos[s] <= Ordinal(s, Len(log))
    <3>1. pos[s] \in Nat /\ Len(log) \in Nat
      BY <1>1 DEF DurableInv, TypeOK
    <3>2. Ordinal(s, Len(log)) \in Nat
      BY <3>1, OrdinalGrows
    <3>3. CASE pos[s] # 0
      <4>1. PICK e \in journal : e.stream = s /\ e.seq = pos[s]
        BY <1>1, <3>1, <3>3, JournalRows
      <4>2. e.src \in Nat /\ e.src <= Len(log) /\ e.seq = Ordinal(s, e.src)
        BY <1>1, <3>1, <4>1, JournalRows
      <4> QED BY <3>1, <4>1, <4>2, OrdinalGrows
    <3> QED BY <3>1, <3>2, <3>3
  <2>2. ASSUME NEW s \in Streams, NEW k \in 1 .. pos[s]
        PROVE  \E e \in journal : /\ e.stream = s /\ e.seq = k /\ Ordinal(s, e.src) = k
                                  /\ \A f \in journal : f.stream = s /\ f.seq = k => f = e
    BY <1>1, JournalRows
  <2>3. /\ \A e \in journal : e.src \in 1 .. Len(log) /\ e.stream = log[e.src].stream
        /\ \A e \in journal : e.seq \in 1 .. pos[e.stream]
    BY <1>1, JournalRows
  <2> QED BY <2>1, <2>2, <2>3 DEF JournalIsLogPrefix
<1> QED BY <1>1, PipelineInv, PTL

-----------------------------------------------------------------------------
(* The pipeline is a feed: what it publishes are the streams of the log.   *)

\* The feed counts as the pipeline does.
LEMMA FeedCardinality == ASSUME NEW S PROVE Feed!Cardinality(S) = Cardinality(S)
BY DEF Feed!Cardinality, Cardinality

\* What the journal has published of each stream: for each sequence the record of its row.
Published ==
    \A s \in Streams :
        /\ pos[s] \in Nat /\ Journaled[s] \in [1 .. pos[s] -> Nat]
        /\ \A e \in journal : e.stream = s => Journaled[s][e.seq] = e.src
        /\ \A k \in 1 .. pos[s] : Feed!IsRecord(s, k, Journaled[s][k])
        /\ \A k \in 1 .. pos[s] : \E e \in journal : e.stream = s /\ e.seq = k
        /\ \A e \in journal : e.stream = s => e.seq \in 1 .. pos[s]

LEMMA PublishedRows == DurableInv /\ OrderInv => Published
<1> SUFFICES ASSUME DurableInv, OrderInv, NEW s \in Streams
             PROVE  /\ pos[s] \in Nat /\ Journaled[s] \in [1 .. pos[s] -> Nat]
                    /\ \A e \in journal : e.stream = s => Journaled[s][e.seq] = e.src
                    /\ \A k \in 1 .. pos[s] : Feed!IsRecord(s, k, Journaled[s][k])
                    /\ \A k \in 1 .. pos[s] : \E e \in journal : e.stream = s /\ e.seq = k
                    /\ \A e \in journal : e.stream = s => e.seq \in 1 .. pos[s]
  BY DEF Published
<1>1. pos[s] \in Nat
  BY DEF DurableInv, TypeOK
<1>2. Journaled[s] = [k \in 1 .. pos[s] |-> SourceOf({e \in journal : e.stream = s /\ e.seq = k})]
  BY DEF Journaled
<1>3. ASSUME NEW e \in journal, e.stream = s
      PROVE  e.seq \in 1 .. pos[s] /\ Journaled[s][e.seq] = e.src
  <2>1. {f \in journal : f.stream = s /\ f.seq = e.seq} = {e}
    BY <1>3, JournalRows
  <2>2. e.seq \in 1 .. pos[s]
    BY <1>3, JournalRows
  <2>3. SourceOf({e}) = e.src
    BY DEF SourceOf
  <2> QED BY <1>2, <2>1, <2>2, <2>3
<1>4. ASSUME NEW k \in 1 .. pos[s]
      PROVE  Journaled[s][k] \in Nat /\ Feed!IsRecord(s, k, Journaled[s][k])
  <2>1. PICK e \in journal : e.stream = s /\ e.seq = k
    BY JournalRows
  <2>2. Journaled[s][k] = e.src
    BY <1>3, <2>1
  <2>3. e.src \in 1 .. Len(log) /\ log[e.src].stream = s /\ k = Ordinal(s, e.src)
    BY <2>1, JournalRows
  <2>4. DOMAIN log = 1 .. Len(log) /\ Len(log) \in Nat
    BY DEF DurableInv, TypeOK
  <2>5. Feed!IsRecord(s, k, e.src)
    <3>1. Feed!Cardinality({j \in 1 .. e.src : log[j].stream = s}) = k
      BY <2>3, FeedCardinality DEF Ordinal
    <3> QED BY <2>3, <2>4, <3>1 DEF Feed!IsRecord
  <2> QED BY <2>2, <2>3, <2>4, <2>5
<1>5. [k \in 1 .. pos[s] |-> SourceOf({e \in journal : e.stream = s /\ e.seq = k})] \in [1 .. pos[s] -> Nat]
  BY <1>2, <1>4
<1> QED BY <1>1, <1>2, <1>3, <1>4, <1>5, JournalRows

\* Nothing is published at the start.
LEMMA FeedStart == Init => Feed!FeedInit
<1> SUFFICES ASSUME Init PROVE Feed!FeedInit
  OBVIOUS
<1>1. log = <<>> /\ journal = {} /\ pos = [s \in Streams |-> 0]
  BY DEF Init, AdapterInit, GatewayInit
<1>2. \A s \in Streams : [k \in 1 .. 0 |-> SourceOf({e \in journal : e.stream = s /\ e.seq = k})] = <<>>
  OBVIOUS
<1> QED BY <1>1, <1>2 DEF Feed!FeedInit, Journaled

\* A longer sequence that agrees with a shorter one begins with it.
LEMMA Prefix ==
    ASSUME NEW m \in Nat, NEW n \in Nat, m <= n,
           NEW f \in [1 .. m -> Nat], NEW g \in [1 .. n -> Nat], \A k \in 1 .. m : g[k] = f[k]
    PROVE  Len(f) = m /\ Len(g) = n /\ SubSeq(g, 1, Len(f)) = f
<1>1. f \in Seq(Nat) /\ Len(f) = m /\ g \in Seq(Nat) /\ Len(g) = n
  OBVIOUS
<1>2. SubSeq(g, 1, m) \in Seq(Nat) /\ Len(SubSeq(g, 1, m)) = m /\ \A k \in 1 .. m : SubSeq(g, 1, m)[k] = g[k]
  BY <1>1, SubSeqProperties
<1> QED BY <1>1, <1>2, SeqEqual

\* A journal that keeps its rows and moves its positions forward publishes.
LEMMA GrowthPublishes ==
    ASSUME Published, Published', UNCHANGED log, journal \subseteq journal',
           \A s \in Streams : pos'[s] >= pos[s]
    PROVE  Feed!PublishNext
<1>1. ASSUME NEW s \in Streams
      PROVE  /\ Len(Journaled'[s]) >= Len(Journaled[s])
             /\ SubSeq(Journaled'[s], 1, Len(Journaled[s])) = Journaled[s]
             /\ \A k \in DOMAIN Journaled'[s] : Feed!IsRecord(s, k, Journaled'[s][k])
  <2>1. /\ pos[s] \in Nat /\ Journaled[s] \in [1 .. pos[s] -> Nat]
        /\ \A e \in journal : e.stream = s => e.seq \in 1 .. pos[s] /\ Journaled[s][e.seq] = e.src
        /\ \A k \in 1 .. pos[s] : \E e \in journal : e.stream = s /\ e.seq = k
    BY DEF Published
  <2>2. /\ pos'[s] \in Nat /\ Journaled'[s] \in [1 .. pos'[s] -> Nat]
        /\ \A e \in journal' : e.stream = s => Journaled'[s][e.seq] = e.src
    BY DEF Published
  <2>3. \A k \in 1 .. pos'[s] : Feed!IsRecord(s, k, Journaled'[s][k])
    <3> SUFFICES ASSUME NEW k \in 1 .. pos'[s] PROVE Feed!IsRecord(s, k, Journaled'[s][k])
      OBVIOUS
    <3>1. Feed!IsRecord(s, k, Journaled[s][k])'
      BY DEF Published
    <3>2. log' = log
      OBVIOUS
    <3>3. {j \in 1 .. Journaled'[s][k] : log'[j].stream = s} = {j \in 1 .. Journaled'[s][k] : log[j].stream = s}
      BY <3>2
    <3> QED BY <3>1, <3>2, <3>3 DEF Feed!IsRecord
  <2>4. \A k \in 1 .. pos[s] : Journaled'[s][k] = Journaled[s][k]
    BY <2>1, <2>2
  <2>5. pos[s] <= pos'[s]
    BY <2>1, <2>2
  <2>6. Len(Journaled'[s]) = pos'[s] /\ Len(Journaled[s]) = pos[s]
    BY <2>1, <2>2, <2>4, <2>5, Prefix
  <2>7. SubSeq(Journaled'[s], 1, Len(Journaled[s])) = Journaled[s]
    BY <2>1, <2>2, <2>4, <2>5, Prefix
  <2>8. DOMAIN Journaled'[s] = 1 .. pos'[s]
    BY <2>2
  <2> QED BY <2>2, <2>3, <2>5, <2>6, <2>7, <2>8
<1> QED BY <1>1 DEF Feed!PublishNext

\* A step that leaves the journal alone publishes nothing.
LEMMA NothingPublished == UNCHANGED journalVars => UNCHANGED Journaled
BY DEF journalVars, Journaled, SourceOf

\* Every step of the pipeline is a step of the feed, or none: the writer's and the commit of
\* a chunk are the only ones that the two ends see.
LEMMA FeedStep ==
    ASSUME DurableInv, OrderInv, Published, Published', [Next]_vars
    PROVE  [Feed!WriteNext \/ Feed!PublishNext]_<<log, Journaled>>
<1>1. CASE AdapterNext /\ UNCHANGED gatewayVars
  <2>1. UNCHANGED journalVars
    BY <1>1 DEF gatewayVars
  <2>2. UNCHANGED Journaled
    BY <2>1, NothingPublished
  <2>3. CASE \E r \in Records : WriteRecord(r)
    BY <2>2, <2>3 DEF WriteRecord, Feed!WriteNext
  <2>4. CASE UNCHANGED log
    BY <2>2, <2>4
  <2> QED
    BY <1>1, <2>3, <2>4
    DEF AdapterNext, AdapterStep, AdapterFault, AdapterCrash, ReadMalformed, StageGap, AdapterExit,
        AdapterStart, ReadBatch, StageOne, CommitStage, BeginPublish, PublishStored, PublishLost,
        PublishBreaks, Acknowledge, WindowPasses
<1>2. CASE GatewayNext /\ UNCHANGED adapterVars
  <2>1. UNCHANGED log
    BY <1>2 DEF adapterVars
  <2>2. CASE CommitChunk
    <3>1. journal \subseteq journal' /\ \A s \in Streams : pos'[s] >= pos[s]
      BY StepNeverBackwards
    <3> QED BY <2>1, <3>1, GrowthPublishes
  <2>3. CASE UNCHANGED journalVars
    BY <2>1, <2>3, NothingPublished
  <2> QED
    BY <1>2, <2>2, <2>3
    DEF GatewayNext, FollowStep, GatewayFault, GatewayCrash, AppendRefused, FollowEnds, Deliver,
        Redeliver, Follow, TakeChunk, AppendDuplicate, AppendNew, AckMessage, ChunkDone
<1>3. CASE UNCHANGED vars
  BY <1>3, NothingPublished DEF vars, adapterVars, gatewayVars
<1> QED BY <1>1, <1>2, <1>3 DEF Next

\* The three processes together implement the feed.
THEOREM PipelineIsAFeed == Spec => ImplementsFeed
<1>1. DurableInv /\ OrderInv /\ Published /\ Published' /\ [Next]_vars
      => [Feed!WriteNext \/ Feed!PublishNext]_<<log, Journaled>>
  BY FeedStep
<1> QED BY <1>1, FeedStart, PublishedRows, PipelineInv, PTL DEF Spec, ImplementsFeed, Feed!FeedSpec
=============================================================================
