------------------------- MODULE StreamSessionProofs -------------------------
(***************************************************************************)
(* What a terminal that follows a run shows is the journal, and the        *)
(* gateway sends nothing that the store refuses. The invariant says how a  *)
(* connection hangs together: the messages on their way lead, one after    *)
(* another, from where the store is to where the session is, and each says *)
(* what the journal says.                                                  *)
(***************************************************************************)
EXTENDS StreamSession, SequenceTheorems, TLAPS

(* The inductive invariant. *)

Messages == [type : {"begin", "batch", "end", "event", "error"}, stream : Streams \cup {"none"}, last : Nat,
             rows : Entities \cup {0} \cup [Entities -> Nat]]
Deliveries == [stream : Streams, seq : Nat]
Sessions == [pc : {"none", "new", "open", "live", "ended"}, topic : Streams \cup {"none"},
             resume : [Streams -> Nat], position : Nat]
Stages == [stream : Streams \cup {"none"}, last : Nat, rows : [Entities -> Nat]]
Views == [Streams -> [Entities -> Nat]]

\* The types of what the ends of a connection keep.
StreamTypes ==
    /\ log \in [Streams -> Seq(Entities)] /\ gatewaySession \in Sessions
    /\ queue \in Seq(Deliveries) /\ lagged \in BOOLEAN /\ net \in Seq(Messages)
    /\ topic \in Streams /\ socket \in {"open", "closed", "stopped"}
    /\ positions \in [Streams -> Nat] /\ view \in Views /\ pending \in Views /\ staged \in Stages

\* Every entity has a last event in every beginning of a journal, 0 if it has none there.
HasLatest ==
    \A s \in Streams : \A to \in 0 .. Len(log[s]) : \A k \in Entities :
        \E i \in Updates(s, k, to) : \A j \in Updates(s, k, to) : j <= i

Topic == gatewaySession.topic

\* What a message says is in the journal.
Said(m) ==
    m.type # "error" =>
        /\ m.stream = Topic /\ m.last <= Len(log[Topic])
        /\ m.type = "event" => m.last > 0 /\ m.rows = log[Topic][m.last]
        /\ m.type = "batch" => m.rows = Latest(Topic, m.last)

\* n comes right after m: the parts of a snapshot, or the next event, or the end of a replay.
Follows(m, n) ==
    \/ m.type # "error" /\ n.type = "error"
    \/ m.type = "begin" /\ n.type = "batch" /\ n.last = m.last
    \/ m.type = "batch" /\ n.type = "end" /\ n.last = m.last
    \/ m.type \in {"event", "end"} /\ n.type = "event" /\ n.last = m.last + 1
    \/ m.type = "event" /\ n.type = "end" /\ n.last = m.last

\* The store is ready for a message.
Expected(m) ==
    \/ m.type = "error"
    \/ m.type = "begin" /\ staged = NoStage /\ positions[Topic] <= m.last
    \/ m.type = "batch" /\ staged.stream = Topic /\ staged.last = m.last
    \/ m.type = "end" /\ staged = NoStage /\ m.last = positions[Topic]
    \/ m.type = "end" /\ staged.stream = Topic /\ staged.last = m.last /\ staged.rows = Latest(Topic, m.last)
    \/ m.type = "event" /\ staged = NoStage /\ m.last = positions[Topic] + 1

\* A connection that is being made has said nothing, and knows how far the store is.
Greeting ==
    /\ gatewaySession.pc = "none" <=> socket # "open"
    /\ gatewaySession.pc # "none" => Topic \in Streams
    /\ gatewaySession.pc \in {"none", "new", "open"} => net = <<>> /\ staged = NoStage
    /\ gatewaySession.pc \in {"new", "open"} => gatewaySession.resume = positions
    /\ \A i \in 1 .. Len(queue) : queue[i].seq <= Len(log[queue[i].stream])

\* What is on its way leads from where the store is to where the session is.
Conversation ==
    /\ net # <<>> => Expected(net[1])
    /\ \A i \in 1 .. Len(net) : Said(net[i])
    /\ \A i \in 1 .. Len(net) - 1 : Follows(net[i], net[i + 1])
    /\ gatewaySession.pc = "live" =>
        /\ gatewaySession.position <= Len(log[Topic])
        /\ net = <<>> => staged = NoStage /\ positions[Topic] = gatewaySession.position
        /\ net # <<>> => net[Len(net)].type \in {"event", "end"} /\ net[Len(net)].last = gatewaySession.position

\* Only quotes and books wait for the next frame.
Conflated == \A s \in Streams : \A k \in Entities \ Market : pending[s][k] = 0

\* The inductive invariant: where the connection, the store and the journal stand to each other.
StreamInv == StreamTypes /\ HasLatest /\ Greeting /\ Conversation /\ Conflated /\ ShownIsJournal

-----------------------------------------------------------------------------
(* Snapshots of a journal. *)

\* The greatest of a set of numbers.
Peak(S) == CHOOSE i \in S : \A j \in S : j <= i

\* The snapshot of a journal, entity by entity, and that of the next state.
LEMMA LatestIs ==
    ASSUME NEW s, NEW to
    PROVE  /\ Latest(s, to) = [k \in Entities |-> Peak(Updates(s, k, to))]
           /\ Latest(s, to)' = [k \in Entities |-> Peak(Updates(s, k, to)')]
BY DEF Latest, Peak

\* The greatest of a set is known by being in it.
LEMMA PeakIs ==
    ASSUME NEW S \in SUBSET Nat, NEW i \in S, \A j \in S : j <= i
    PROVE  Peak(S) = i
<1>1. Peak(S) \in S /\ \A j \in S : j <= Peak(S)
  BY DEF Peak
<1>2. Peak(S) \in Nat /\ i \in Nat /\ Peak(S) <= i /\ i <= Peak(S)
  BY <1>1
<1> QED BY <1>2

\* Nothing is shown of nothing.
LEMMA LatestOfNothing ==
    ASSUME NEW s PROVE Latest(s, 0) = [k \in Entities |-> 0] /\ Latest(s, 0)' = [k \in Entities |-> 0]
<1>1. \A k : Updates(s, k, 0) = {0} /\ Updates(s, k, 0)' = {0}
  BY DEF Updates
<1>2. Peak({0}) = 0
  BY PeakIs
<1>3. /\ [k \in Entities |-> Peak(Updates(s, k, 0))] = [k \in Entities |-> 0]
      /\ [k \in Entities |-> Peak(Updates(s, k, 0)')] = [k \in Entities |-> 0]
  BY <1>1, <1>2
<1> QED BY <1>3, LatestIs

\* A snapshot is of its beginning of the journal.
LEMMA LatestTypes ==
    ASSUME StreamTypes, HasLatest, NEW s \in Streams, NEW to \in 0 .. Len(log[s])
    PROVE  Latest(s, to) \in [Entities -> 0 .. to] /\ Latest(s, to) \in [Entities -> Nat]
<1>1. to \in Nat /\ Len(log[s]) \in Nat
  BY DEF StreamTypes
<1>2. ASSUME NEW k \in Entities PROVE Peak(Updates(s, k, to)) \in 0 .. to
  <2>1. Updates(s, k, to) \in SUBSET Nat /\ Updates(s, k, to) \subseteq 0 .. to
    BY <1>1 DEF Updates
  <2>2. PICK i \in Updates(s, k, to) : \A j \in Updates(s, k, to) : j <= i
    BY DEF HasLatest
  <2> QED BY <2>1, <2>2, PeakIs
<1> QED BY <1>1, <1>2, LatestIs

\* The next event of a stream changes its own entity.
LEMMA LatestOfNext ==
    ASSUME StreamTypes, NEW s \in Streams, NEW to \in Nat, to < Len(log[s]), NEW k \in Entities
    PROVE  Latest(s, to + 1)[k] = IF log[s][to + 1] = k THEN to + 1 ELSE Latest(s, to)[k]
<1>1. CASE log[s][to + 1] = k
  <2>1. Updates(s, k, to + 1) \in SUBSET Nat /\ to + 1 \in Updates(s, k, to + 1)
        /\ \A j \in Updates(s, k, to + 1) : j <= to + 1
    BY <1>1 DEF Updates
  <2> QED BY <1>1, <2>1, PeakIs, LatestIs
<1>2. CASE log[s][to + 1] # k
  <2>1. ASSUME NEW i \in 1 .. to + 1, log[s][i] = k PROVE i \in 1 .. to
    <3>1. i # to + 1
      BY <1>2, <2>1
    <3> QED BY <3>1
  <2>2. \A i \in 1 .. to : i \in 1 .. to + 1
    OBVIOUS
  <2>3. Updates(s, k, to + 1) = Updates(s, k, to)
    BY <2>1, <2>2 DEF Updates
  <2> QED BY <1>2, <2>3, LatestIs
<1> QED BY <1>1, <1>2

\* A journal that grows keeps the snapshots of its beginnings.
LEMMA LatestKept ==
    ASSUME NEW s \in Streams, NEW to \in Nat, \A i \in 1 .. to : log'[s][i] = log[s][i]
    PROVE  (\A k : Updates(s, k, to)' = Updates(s, k, to)) /\ Latest(s, to)' = Latest(s, to)
<1>1. \A k : Updates(s, k, to)' = Updates(s, k, to)
  BY DEF Updates
<1> QED BY <1>1, LatestIs

\* Journals only grow.
LEMMA LogGrows ==
    ASSUME StreamTypes, [StreamNext]_streamVars
    PROVE  /\ log' \in [Streams -> Seq(Entities)]
           /\ \A s \in Streams : Len(log[s]) \in Nat /\ Len(log'[s]) \in Nat /\ Len(log[s]) <= Len(log'[s])
           /\ \A s \in Streams : \A i \in 1 .. Len(log[s]) : log'[s][i] = log[s][i]
           /\ \A s \in Streams : \A to \in 0 .. Len(log[s]) : Latest(s, to)' = Latest(s, to)
<1>1. CASE log' = log
  <2>1. \A s \in Streams : Len(log[s]) \in Nat
    BY DEF StreamTypes
  <2>2. \A s \in Streams : \A to \in 0 .. Len(log[s]) : Latest(s, to)' = Latest(s, to)
    BY <1>1, <2>1, LatestKept
  <2> QED BY <1>1, <2>1, <2>2 DEF StreamTypes
<1>2. ASSUME NEW s \in Streams, NEW k \in Entities, Publish(s, k)
      PROVE  /\ log' \in [Streams -> Seq(Entities)]
             /\ \A u \in Streams : Len(log[u]) \in Nat /\ Len(log'[u]) \in Nat /\ Len(log[u]) <= Len(log'[u])
             /\ \A u \in Streams : \A i \in 1 .. Len(log[u]) : log'[u][i] = log[u][i]
             /\ \A u \in Streams : \A to \in 0 .. Len(log[u]) : Latest(u, to)' = Latest(u, to)
  <2>1. log' = [log EXCEPT ![s] = Append(@, k)] /\ log \in [Streams -> Seq(Entities)]
    BY <1>2 DEF Publish, StreamTypes
  <2>2. /\ Append(log[s], k) \in Seq(Entities) /\ Len(Append(log[s], k)) = Len(log[s]) + 1 /\ Len(log[s]) \in Nat
        /\ \A i \in 1 .. Len(log[s]) : Append(log[s], k)[i] = log[s][i]
    BY <2>1
  <2>3. /\ log' \in [Streams -> Seq(Entities)] /\ log'[s] = Append(log[s], k)
        /\ \A u \in Streams : u # s => log'[u] = log[u]
    BY <2>1, <2>2
  <2>4. \A u \in Streams : Len(log[u]) \in Nat /\ Len(log'[u]) \in Nat /\ Len(log[u]) <= Len(log'[u])
    BY <2>1, <2>2, <2>3
  <2>5. \A u \in Streams : \A i \in 1 .. Len(log[u]) : log'[u][i] = log[u][i]
    BY <2>2, <2>3
  <2>6. ASSUME NEW u \in Streams, NEW to \in 0 .. Len(log[u]) PROVE Latest(u, to)' = Latest(u, to)
    <3>1. to \in Nat /\ \A i \in 1 .. to : i \in 1 .. Len(log[u])
      BY <2>4
    <3> QED BY <2>5, <3>1, LatestKept
  <2> QED BY <2>3, <2>4, <2>5, <2>6
<1>3. log' = log \/ \E s \in Streams, k \in Entities : Publish(s, k)
  BY DEF StreamNext, streamVars, SessionNext, ClientNext, Hello, Subscribe, ReceiveLagged, ReceiveEvent,
         SessionEnds, Connect, Closed, Ingest, Frame, Stop, Start
<1> QED BY <1>1, <1>2, <1>3

-----------------------------------------------------------------------------
(* What a session sends. *)

\* The types of the parts.
LEMMA StreamElements ==
    ASSUME StreamTypes
    PROVE  /\ gatewaySession.pc \in {"none", "new", "open", "live", "ended"} /\ gatewaySession.position \in Nat
           /\ gatewaySession.resume \in [Streams -> Nat] /\ Topic \in Streams \cup {"none"}
           /\ \A s \in Streams : log[s] \in Seq(Entities) /\ Len(log[s]) \in Nat /\ positions[s] \in Nat
           /\ \A s \in Streams : \A i \in 1 .. Len(log[s]) : log[s][i] \in Entities
           /\ Len(net) \in Nat /\ \A i \in 1 .. Len(net) : net[i] \in Messages /\ net[i].last \in Nat
           /\ Len(queue) \in Nat /\ \A i \in 1 .. Len(queue) : queue[i].seq \in Nat /\ queue[i].stream \in Streams
           /\ \A s \in Streams : view[s] \in [Entities -> Nat] /\ pending[s] \in [Entities -> Nat]
           /\ staged.last \in Nat /\ staged.rows \in [Entities -> Nat]
<1>1. gatewaySession \in Sessions /\ staged \in Stages
  BY DEF StreamTypes
<1>2. \A i \in 1 .. Len(net) : net[i] \in Messages
  BY DEF StreamTypes
<1>3. \A i \in 1 .. Len(queue) : queue[i] \in Deliveries
  BY DEF StreamTypes
<1>4. \A s \in Streams : log[s] \in Seq(Entities)
  BY DEF StreamTypes
<1>5. Len(net) \in Nat /\ Len(queue) \in Nat
  BY DEF StreamTypes
<1>6. \A s \in Streams : \A i \in 1 .. Len(log[s]) : log[s][i] \in Entities
  BY <1>4
<1>7. \A s \in Streams : positions[s] \in Nat /\ view[s] \in [Entities -> Nat] /\ pending[s] \in [Entities -> Nat]
  BY DEF StreamTypes, Views
<1>8. \A s \in Streams : Len(log[s]) \in Nat
  BY <1>4
<1>9. \A i \in 1 .. Len(net) : net[i].last \in Nat
  BY <1>2 DEF Messages
<1>10. \A i \in 1 .. Len(queue) : queue[i].seq \in Nat /\ queue[i].stream \in Streams
  BY <1>3 DEF Deliveries
<1>11. /\ gatewaySession.pc \in {"none", "new", "open", "live", "ended"} /\ gatewaySession.position \in Nat
       /\ gatewaySession.resume \in [Streams -> Nat] /\ Topic \in Streams \cup {"none"}
  BY <1>1 DEF Sessions, Topic
<1>12. staged.last \in Nat /\ staged.rows \in [Entities -> Nat]
  BY <1>1 DEF Stages
<1> QED BY <1>2, <1>4, <1>5, <1>6, <1>7, <1>8, <1>9, <1>10, <1>11, <1>12

\* q is the events of a stream between two of its sequences.
Between(q, s, from, to) ==
    /\ q \in Seq(Messages) /\ Len(q) = to - from
    /\ \A i \in 1 .. to - from : /\ q[i].type = "event" /\ q[i].stream = s
                                 /\ q[i].last = from + i /\ q[i].rows = log[s][from + i]

\* After gives these.
LEMMA AfterIs ==
    ASSUME StreamTypes, NEW s \in Streams, NEW from \in Nat, NEW to \in Nat, from <= to, to <= Len(log[s])
    PROVE  Between(After(s, from, to), s, from, to)
<1> DEFINE M(i) == [type |-> "event", stream |-> s, last |-> from + i, rows |-> log[s][from + i]]
           A == [i \in 1 .. to - from |-> M(i)]
<1>1. to - from \in Nat /\ \A i \in 1 .. to - from : from + i \in 1 .. Len(log[s]) /\ from + i \in Nat
  <2>1. PICK n \in Nat : n = Len(log[s])
    BY StreamElements
  <2>2. from \in Nat /\ to \in Nat /\ from <= to /\ to <= n
    BY <2>1
  <2>3. to - from \in Nat /\ \A i \in 1 .. to - from : from + i \in 1 .. n /\ from + i \in Nat
    BY <2>2
  <2> QED BY <2>1, <2>3
<1>2. \A i \in 1 .. to - from : log[s][from + i] \in Entities
  BY <1>1, StreamElements
<1>3. \A i \in 1 .. to - from : M(i) \in Messages
  BY <1>1, <1>2 DEF Messages
<1>4. \A i \in 1 .. to - from : /\ M(i).type = "event" /\ M(i).stream = s
                                /\ M(i).last = from + i /\ M(i).rows = log[s][from + i]
  OBVIOUS
<1>5. After(s, from, to) = A
  BY DEF After
<1> HIDE DEF M
<1>6. A \in Seq(Messages) /\ Len(A) = to - from /\ \A i \in 1 .. to - from : A[i] = M(i)
  BY <1>1, <1>3
<1> HIDE DEF A
<1> QED BY <1>4, <1>5, <1>6 DEF Between

\* What a session sends first begins where the store is, and ends where the journal does.
LEMMA InitialIs ==
    ASSUME StreamTypes, HasLatest, Greeting, ShownIsJournal, gatewaySession.pc = "open"
    PROVE  /\ Initial(Topic) \in Seq(Messages) /\ Initial(Topic) # <<>> /\ Expected(Initial(Topic)[1])
           /\ \A i \in 1 .. Len(Initial(Topic)) : Said(Initial(Topic)[i])
           /\ \A i \in 1 .. Len(Initial(Topic)) - 1 : Follows(Initial(Topic)[i], Initial(Topic)[i + 1])
           /\ Initial(Topic)[Len(Initial(Topic))].type = "end"
           /\ Initial(Topic)[Len(Initial(Topic))].last = Len(log[Topic])
<1> DEFINE t == Topic
           last == Len(log[t])
           p == positions[t]
           mark == [type |-> "end", stream |-> t, last |-> last, rows |-> 0]
           I == Initial(t)
<1>1. /\ t \in Streams /\ last \in Nat /\ p \in Nat /\ p <= last /\ staged = NoStage
      /\ gatewaySession.resume[t] = p
  BY StreamElements DEF Greeting, ShownIsJournal
<1>2. mark \in Messages /\ mark.type = "end" /\ mark.last = last /\ mark.stream = t
  BY <1>1 DEF Messages
<1>3. Said(mark)
  BY <1>1, <1>2 DEF Said
<1>4. CASE Replayable(t)
  <2> DEFINE A == After(t, p, last)
  <2>1. I = Append(A, mark)
    BY <1>1, <1>4 DEF Initial
  <2>2. /\ A \in Seq(Messages) /\ Len(A) = last - p
        /\ \A i \in 1 .. last - p : /\ A[i].type = "event" /\ A[i].stream = t
                                    /\ A[i].last = p + i /\ A[i].rows = log[t][p + i]
    <3> HIDE DEF t, last, p
    <3>1. t \in Streams /\ p \in Nat /\ last \in Nat /\ p <= last /\ last <= Len(log[t])
      BY <1>1 DEF last
    <3>2. StreamTypes
      OBVIOUS
    <3>3. Between(A, t, p, last)
      BY <3>1, <3>2, AfterIs
    <3> QED BY <3>3 DEF Between
  <2> HIDE DEF A, mark, I
  <2>3. /\ I \in Seq(Messages) /\ Len(I) = last - p + 1 /\ I[last - p + 1] = mark
        /\ \A i \in 1 .. last - p : I[i] = A[i]
    BY <1>1, <1>2, <2>1, <2>2
  <2> HIDE DEF last, p, t
  <2>4. \A i \in 1 .. Len(I) : i \in 1 .. last - p \/ i = last - p + 1
    BY <1>1, <2>3
  <2>5. \A i \in 1 .. last - p : Said(I[i])
    <3>1. \A i \in 1 .. last - p : p + i <= last /\ p + i > 0
      BY <1>1
    <3> QED BY <2>2, <2>3, <3>1 DEF Said, t, last
  <2>6. \A i \in 1 .. Len(I) : Said(I[i])
    BY <1>3, <2>3, <2>4, <2>5
  <2>7. Expected(I[1])
    <3>1. CASE last = p
      <4>1. I[1] = mark
        BY <1>1, <2>3, <3>1
      <4> QED BY <1>1, <1>2, <3>1, <4>1 DEF Expected, t, p
    <3>2. CASE last # p
      <4>1. 1 \in 1 .. last - p
        BY <1>1, <3>2
      <4> QED BY <1>1, <2>2, <2>3, <4>1 DEF Expected, t, p
    <3> QED BY <3>1, <3>2
  <2>8. ASSUME NEW i \in 1 .. Len(I) - 1 PROVE Follows(I[i], I[i + 1])
    <3>1. i \in 1 .. last - p /\ (i + 1 \in 1 .. last - p \/ (i + 1 = last - p + 1 /\ i = last - p))
      BY <1>1, <2>3
    <3>2. I[i].type = "event" /\ I[i].last = p + i
      BY <2>2, <2>3, <3>1
    <3>3. CASE i + 1 \in 1 .. last - p
      <4>1. I[i + 1].type = "event" /\ I[i + 1].last = p + (i + 1)
        BY <2>2, <2>3, <3>3
      <4>2. p + (i + 1) = p + i + 1
        BY <1>1
      <4> QED BY <3>2, <4>1, <4>2 DEF Follows
    <3>4. CASE i + 1 = last - p + 1 /\ i = last - p
      <4>1. I[i + 1] = mark /\ p + i = last
        BY <1>1, <2>3, <3>4
      <4> QED BY <1>2, <3>2, <4>1 DEF Follows
    <3> QED BY <3>1, <3>3, <3>4
  <2>9. I # <<>> /\ I[Len(I)] = mark
    BY <1>1, <2>3
  <2> QED BY <1>2, <2>3, <2>6, <2>7, <2>8, <2>9 DEF I, t, last
<1>5. CASE ~Replayable(t)
  <2> DEFINE b == [mark EXCEPT !.type = "begin"]
             c == [mark EXCEPT !.type = "batch", !.rows = Latest(t, last)]
  <2>1. I = <<b, c, mark>>
    BY <1>5 DEF Initial
  <2>2. Latest(t, last) \in [Entities -> Nat]
    BY <1>1, LatestTypes
  <2>3. /\ b \in Messages /\ b.type = "begin" /\ b.stream = t /\ b.last = last
        /\ c \in Messages /\ c.type = "batch" /\ c.stream = t /\ c.last = last /\ c.rows = Latest(t, last)
    BY <1>1, <2>2 DEF Messages
  <2> HIDE DEF mark, b, c, I
  <2>4. I \in Seq(Messages) /\ Len(I) = 3 /\ I[1] = b /\ I[2] = c /\ I[3] = mark /\ I # <<>>
    BY <1>2, <2>1, <2>3
  <2>5. Said(b) /\ Said(c)
    BY <1>1, <2>3 DEF Said
  <2>6. \A i \in 1 .. Len(I) : Said(I[i])
    <3>1. \A i \in 1 .. Len(I) : i = 1 \/ i = 2 \/ i = 3
      BY <2>4
    <3> QED BY <1>3, <2>4, <2>5, <3>1
  <2>7. \A i \in 1 .. Len(I) - 1 : Follows(I[i], I[i + 1])
    <3>1. \A i \in 1 .. Len(I) - 1 : (i = 1 /\ i + 1 = 2) \/ (i = 2 /\ i + 1 = 3)
      BY <2>4
    <3>2. Follows(b, c) /\ Follows(c, mark)
      BY <1>2, <2>3 DEF Follows
    <3> QED BY <2>4, <3>1, <3>2
  <2>8. Expected(I[1])
    BY <1>1, <2>3, <2>4 DEF Expected
  <2> QED BY <1>2, <2>4, <2>6, <2>7, <2>8 DEF I
<1> QED BY <1>4, <1>5

-----------------------------------------------------------------------------
(* What the store does with it. *)

\* An event that is added is the last of its entity.
LEMMA HasLatestKept == StreamTypes /\ HasLatest /\ [StreamNext]_streamVars => HasLatest'
<1> SUFFICES ASSUME StreamTypes, HasLatest, [StreamNext]_streamVars,
                    NEW s \in Streams, NEW to \in 0 .. Len(log'[s]), NEW k \in Entities
             PROVE  \E i \in Updates(s, k, to)' : \A j \in Updates(s, k, to)' : j <= i
  BY DEF HasLatest
<1>1. /\ Len(log[s]) \in Nat /\ Len(log'[s]) \in Nat /\ to \in Nat
      /\ \A i \in 1 .. Len(log[s]) : log'[s][i] = log[s][i]
  BY LogGrows
<1>2. CASE to <= Len(log[s])
  <2>1. to \in 0 .. Len(log[s]) /\ \A i \in 1 .. to : log'[s][i] = log[s][i]
    BY <1>1, <1>2
  <2>2. Updates(s, k, to)' = Updates(s, k, to)
    BY <1>1, <2>1, LatestKept
  <2> QED BY <2>1, <2>2 DEF HasLatest
<1>3. CASE to > Len(log[s])
  <2> DEFINE n == Len(log[s])
  <2>1. n \in 0 .. Len(log[s]) /\ to = n + 1
    <3>1. log'[s] # log[s]
      BY <1>1, <1>3
    <3>2. PICK u \in Streams, e \in Entities : Publish(u, e)
      BY <3>1 DEF StreamNext, streamVars, SessionNext, ClientNext, Hello, Subscribe, ReceiveLagged, ReceiveEvent,
                  SessionEnds, Connect, Closed, Ingest, Frame, Stop, Start
    <3>3. log' = [log EXCEPT ![u] = Append(@, e)]
      BY <3>2 DEF Publish
    <3>4. log[s] \in Seq(Entities) /\ log \in [Streams -> Seq(Entities)]
      BY DEF StreamTypes
    <3>5. log'[s] = Append(log[s], e)
      BY <3>1, <3>3, <3>4
    <3> QED BY <1>1, <1>3, <3>4, <3>5
  <2>2. PICK i \in Updates(s, k, n) : \A j \in Updates(s, k, n) : j <= i
    BY <2>1 DEF HasLatest
  <2>3. CASE log'[s][to] = k
    <3>1. to \in Updates(s, k, to)' /\ \A j \in Updates(s, k, to)' : j <= to
      BY <1>1, <2>1, <2>3 DEF Updates
    <3> QED BY <3>1
  <2>4. CASE log'[s][to] # k
    <3>1. ASSUME NEW x \in 1 .. to, log'[s][x] = k PROVE x \in 1 .. n
      <4>1. x # to
        BY <2>4, <3>1
      <4> QED BY <1>1, <2>1, <4>1
    <3>2. \A x \in 1 .. n : x \in 1 .. to /\ log'[s][x] = log[s][x]
      BY <1>1, <2>1
    <3>3. Updates(s, k, to)' = Updates(s, k, n)
      BY <3>1, <3>2 DEF Updates
    <3> QED BY <2>2, <3>3
  <2> QED BY <2>3, <2>4
<1> QED BY <1>1, <1>2, <1>3

\* One message is ingested: it is what the store expected and what the journal says.
LEMMA HeadIs ==
    ASSUME StreamTypes, Conversation, net # <<>>
    PROVE  /\ Head(net) = net[1] /\ net[1] \in Messages /\ Expected(net[1]) /\ Said(net[1]) /\ Len(net) >= 1
           /\ Tail(net) \in Seq(Messages) /\ Len(Tail(net)) = Len(net) - 1
           /\ \A i \in 1 .. Len(net) - 1 : Tail(net)[i] = net[i + 1]
<1>1. net \in Seq(Messages) /\ Len(net) >= 1 /\ 1 \in 1 .. Len(net) /\ Len(net) \in Nat
  BY DEF StreamTypes
<1>2. Tail(net) \in Seq(Messages) /\ Len(Tail(net)) = Len(net) - 1 /\ Head(net) = net[1]
  BY <1>1
<1>3. \A i \in 1 .. Len(net) - 1 : Tail(net)[i] = net[i + 1]
  BY <1>1
<1>4. Expected(net[1]) /\ Said(net[1]) /\ net[1] \in Messages
  BY <1>1 DEF Conversation
<1> QED BY <1>1, <1>2, <1>3, <1>4

\* Connections bring what the store accepts.
LEMMA ExpectedAccepted ==
    ASSUME StreamTypes, HasLatest, Greeting, socket = "open",
           NEW m \in Messages, Expected(m), Said(m), m.type # "error"
    PROVE  Acceptable(m)
<1>1. /\ Topic \in Streams /\ m.stream = Topic /\ m.last \in Nat /\ m.last <= Len(log[Topic])
      /\ positions[Topic] \in Nat
  BY StreamElements DEF Greeting, Said, Messages
<1>2. CASE m.type = "begin"
  BY <1>1, <1>2 DEF Expected, Acceptable
<1>3. CASE m.type = "batch"
  <2>1. staged # NoStage /\ staged.last = m.last
    BY <1>1, <1>3, StreamAssumption DEF Expected, NoStage
  <2>2. m.rows \in [Entities -> 0 .. m.last]
    BY <1>1, <1>3, LatestTypes DEF Said
  <2>3. \A k \in Entities : m.rows[k] <= staged.last
    BY <1>1, <2>1, <2>2
  <2> QED BY <1>3, <2>1, <2>3 DEF Acceptable
<1>4. CASE m.type = "end"
  <2>1. IF staged # NoStage THEN m.last = staged.last ELSE m.last = positions[Topic]
    BY <1>1, <1>4, StreamAssumption DEF Expected, NoStage
  <2> QED BY <1>1, <1>4, <2>1 DEF Acceptable
<1>5. CASE m.type = "event"
  BY <1>1, <1>5 DEF Expected, Acceptable
<1> QED BY <1>2, <1>3, <1>4, <1>5 DEF Messages

\* What ingesting one does, connection and store.
LEMMA IngestDoes ==
    ASSUME StreamTypes, HasLatest, Greeting, Conversation, Ingest
    PROVE  /\ UNCHANGED <<log, breaks, topic>> /\ socket = "open" /\ net # <<>>
           /\ \/ net[1].type = "error" /\ socket' = "closed" /\ Hangup /\ Disconnected
              \/ /\ net' = Tail(net) /\ UNCHANGED <<socket, gatewayVars>>
                 /\ \/ net[1].type = "begin" /\ Begin(net[1])
                    \/ net[1].type = "batch" /\ Batch(net[1])
                    \/ net[1].type = "end" /\ End(net[1])
                    \/ net[1].type = "event" /\ Accept(net[1])
<1>1. /\ UNCHANGED <<log, breaks, topic>> /\ socket = "open" /\ net # <<>>
      /\ IF ~Acceptable(net[1]) THEN socket' = "closed" /\ Hangup /\ Disconnected
         ELSE /\ net' = Tail(net) /\ UNCHANGED <<socket, gatewayVars>>
              /\ CASE net[1].type = "begin" -> Begin(net[1])
                   [] net[1].type = "batch" -> Batch(net[1])
                   [] net[1].type = "end"   -> End(net[1])
                   [] OTHER                 -> Accept(net[1])
  BY HeadIs DEF Ingest
<1>2. net[1] \in Messages /\ Expected(net[1]) /\ Said(net[1])
  BY <1>1, HeadIs
<1>3. net[1].type \in {"begin", "batch", "end", "event", "error"}
  BY <1>2 DEF Messages
<1>4. CASE net[1].type = "error"
  <2>1. ~Acceptable(net[1])
    BY <1>4 DEF Acceptable
  <2> QED BY <1>1, <1>4, <2>1
<1>5. CASE net[1].type # "error"
  <2>1. Acceptable(net[1])
    BY <1>1, <1>2, <1>5, ExpectedAccepted
  <2> QED BY <1>1, <1>3, <1>5, <2>1
<1> QED BY <1>4, <1>5

\* The overlay of a stream, and what it is once its quotes are shown.
LEMMA OverlayIs ==
    ASSUME StreamTypes, NEW s \in Streams
    PROVE  /\ Overlay(s) \in [Entities -> Nat]
           /\ \A k \in Entities : Overlay(s)[k] = IF pending[s][k] > 0 THEN pending[s][k] ELSE view[s][k]
<1>1. view[s] \in [Entities -> Nat] /\ pending[s] \in [Entities -> Nat]
  BY StreamElements
<1> QED BY <1>1 DEF Overlay

\* What frames and lost connections do to the views.
LEMMA Flushed ==
    ASSUME StreamTypes, view' = [s \in Streams |-> Overlay(s)], pending' = NoView
    PROVE  view' \in Views /\ pending' \in Views /\ Conflated' /\ \A s \in Streams : Overlay(s)' = Overlay(s)
<1>1. \A s \in Streams : view'[s] = Overlay(s) /\ Overlay(s) \in [Entities -> Nat]
  BY OverlayIs
<1>2. \A s \in Streams : \A k \in Entities : pending'[s][k] = 0
  BY DEF NoView
<1>3. view' \in Views /\ pending' \in Views
  BY <1>1 DEF Views, NoView
<1>4. ASSUME NEW s \in Streams PROVE Overlay(s)' = Overlay(s)
  <2>1. \A k \in Entities : (IF pending'[s][k] > 0 THEN pending'[s][k] ELSE view'[s][k]) = Overlay(s)[k]
    BY <1>1, <1>2
  <2>2. Overlay(s)' = [k \in Entities |-> IF pending'[s][k] > 0 THEN pending'[s][k] ELSE view'[s][k]]
    BY DEF Overlay
  <2>3. Overlay(s) = [k \in Entities |-> Overlay(s)[k]]
    BY <1>1
  <2> QED BY <2>1, <2>2, <2>3
<1>5. Conflated'
  BY <1>2 DEF Conflated
<1> QED BY <1>3, <1>4, <1>5

\* The types of what there is at first.
LEMMA NothingYet ==
    /\ NoView \in Views /\ NoPositions \in [Streams -> Nat] /\ NoSession \in Sessions /\ NoStage \in Stages
    /\ NoStage.stream = "none" /\ NoStage.last = 0 /\ NoSession.pc = "none"
    /\ <<>> \in Seq(Messages) /\ <<>> \in Seq(Deliveries)
BY DEF NoView, Views, NoPositions, NoSession, Sessions, NoStage, Stages

\* Either end loses the connection.
LEMMA LostTypes ==
    ASSUME StreamTypes, Hangup, Disconnected, UNCHANGED <<log, topic>>, socket' \in {"open", "closed", "stopped"}
    PROVE  StreamTypes'
<1>1. view' \in Views /\ pending' \in Views
  BY Flushed DEF Disconnected
<1> QED BY <1>1, NothingYet DEF StreamTypes, Hangup, Disconnected

\* The terminal takes a message.
LEMMA StoreTypes ==
    ASSUME StreamTypes, HasLatest, Greeting, socket = "open", NEW m \in Messages, Said(m), Expected(m),
           \/ m.type = "begin" /\ Begin(m)
           \/ m.type = "batch" /\ Batch(m)
           \/ m.type = "end" /\ End(m)
           \/ m.type = "event" /\ Accept(m)
    PROVE  positions' \in [Streams -> Nat] /\ view' \in Views /\ pending' \in Views /\ staged' \in Stages
<1>1. /\ Topic \in Streams /\ m.stream = Topic /\ m.last \in Nat /\ m.last <= Len(log[Topic])
      /\ positions \in [Streams -> Nat] /\ view \in Views /\ pending \in Views /\ staged \in Stages
  BY StreamElements DEF Greeting, Said, Messages, StreamTypes
<1>2. CASE m.type = "begin" /\ Begin(m)
  <2>1. [NoStage EXCEPT !.stream = m.stream, !.last = m.last] \in Stages
    BY <1>1, NothingYet DEF Stages, NoStage
  <2> QED BY <1>1, <1>2, <2>1 DEF Begin
<1>3. CASE m.type = "batch" /\ Batch(m)
  <2>1. m.rows \in [Entities -> Nat]
    BY <1>1, <1>3, LatestTypes DEF Said
  <2>2. [staged EXCEPT !.rows = m.rows] \in Stages
    BY <1>1, <2>1 DEF Stages
  <2> QED BY <1>1, <1>3, <2>2 DEF Batch
<1>4. CASE m.type = "end" /\ End(m)
  <2>1. CASE staged = NoStage
    BY <1>1, <1>4, <2>1, NothingYet DEF End
  <2>2. CASE staged # NoStage
    <3>1. staged.last \in Nat /\ staged.rows \in [Entities -> Nat]
      BY StreamElements
    <3>2. [NoPositions EXCEPT ![staged.stream] = staged.last] \in [Streams -> Nat]
      BY <3>1 DEF NoPositions
    <3>3. [NoView EXCEPT ![staged.stream] = staged.rows] \in Views
      BY <3>1 DEF NoView, Views
    <3> QED BY <1>1, <1>4, <2>2, <3>2, <3>3, NothingYet DEF End
  <2> QED BY <2>1, <2>2
<1>5. CASE m.type = "event" /\ Accept(m)
  <2>1. [positions EXCEPT ![m.stream] = m.last] \in [Streams -> Nat]
    BY <1>1
  <2>2. ASSUME NEW v \in Views PROVE [v EXCEPT ![m.stream][m.rows] = m.last] \in Views
    BY <1>1 DEF Views
  <2> QED BY <1>1, <1>5, <2>1, <2>2 DEF Accept
<1> QED BY <1>2, <1>3, <1>4, <1>5

\* Every step keeps to the types.
LEMMA StreamTypesKept ==
    StreamTypes /\ HasLatest /\ Greeting /\ Conversation /\ ShownIsJournal /\ [StreamNext]_streamVars
    => StreamTypes'
<1> SUFFICES ASSUME StreamTypes, HasLatest, Greeting, Conversation, ShownIsJournal, [StreamNext]_streamVars
             PROVE  StreamTypes'
  OBVIOUS
<1> USE DEF gatewayVars, storeVars
<1>0. /\ log' \in [Streams -> Seq(Entities)] /\ gatewaySession \in Sessions
      /\ Topic \in Streams \cup {"none"} /\ (gatewaySession.pc # "none" => Topic \in Streams)
  BY LogGrows, StreamElements DEF StreamTypes, Greeting
<1>1. CASE UNCHANGED streamVars
  BY <1>1 DEF StreamTypes, streamVars
<1>2. ASSUME NEW s \in Streams, NEW k \in Entities, Publish(s, k) PROVE StreamTypes'
  <2>1. lagged' \in BOOLEAN
    BY <1>2 DEF Publish, StreamTypes
  <2>2. queue' \in Seq(Deliveries)
    <3> DEFINE d == [stream |-> s, seq |-> Len(log[s]) + 1]
    <3>1. d \in Deliveries
      BY StreamElements DEF Deliveries
    <3>2. \/ queue' = queue
          \/ Len(queue) < Capacity /\ queue' = Append(queue, d)
          \/ ~(Len(queue) < Capacity) /\ queue' = Append(Tail(queue), d)
      BY <1>2 DEF Publish
    <3> HIDE DEF d
    <3>3. queue = <<>> => Len(queue) < Capacity
      BY StreamAssumption
    <3>4. queue \in Seq(Deliveries)
      BY DEF StreamTypes
    <3>5. queue # <<>> => Tail(queue) \in Seq(Deliveries)
      BY <3>4
    <3> QED BY <3>1, <3>2, <3>3, <3>4, <3>5
  <2> QED BY <1>0, <1>2, <2>1, <2>2 DEF Publish, StreamTypes
<1>3. CASE Hello
  <2>1. [gatewaySession EXCEPT !.pc = "open"] \in Sessions
    BY <1>0 DEF Sessions
  <2> QED BY <1>3, <2>1, NothingYet DEF Hello, StreamTypes
<1>4. CASE Subscribe
  <2>1. gatewaySession.pc = "open"
    BY <1>4 DEF Subscribe
  <2>2. Len(log[Topic]) \in Nat
    BY <1>0, <2>1, StreamElements
  <2>3. [gatewaySession EXCEPT !.pc = "live", !.position = Len(log[Topic])] \in Sessions
    BY <1>0, <2>2 DEF Sessions
  <2>4. net \o Initial(Topic) \in Seq(Messages)
    BY <2>1, InitialIs, ConcatProperties DEF StreamTypes
  <2> QED BY <1>4, <2>3, <2>4 DEF Subscribe, StreamTypes, Topic
<1>5. CASE ReceiveLagged
  <2>1. [gatewaySession EXCEPT !.pc = "ended"] \in Sessions
    BY <1>0 DEF Sessions
  <2>2. [type |-> "error", stream |-> "none", last |-> 0, rows |-> 0] \in Messages
    BY DEF Messages
  <2>3. net' \in Seq(Messages)
    BY <1>5, <2>2 DEF ReceiveLagged, StreamTypes
  <2> QED BY <1>5, <2>1, <2>3 DEF ReceiveLagged, StreamTypes
<1>6. CASE ReceiveEvent
  <2>1. queue' \in Seq(Deliveries)
    BY <1>6 DEF ReceiveEvent, StreamTypes
  <2>2. CASE UNCHANGED <<net, gatewaySession>>
    BY <1>6, <2>1, <2>2 DEF ReceiveEvent, StreamTypes
  <2>3. CASE /\ gatewaySession.pc = "live" /\ Head(queue).stream = Topic
             /\ Head(queue).seq > gatewaySession.position
             /\ net' = net \o After(Topic, gatewaySession.position, Head(queue).seq)
             /\ gatewaySession' = [gatewaySession EXCEPT !.position = Head(queue).seq]
    <3>1. queue # <<>> /\ Head(queue) = queue[1] /\ 1 \in 1 .. Len(queue)
      BY <1>6 DEF ReceiveEvent, StreamTypes
    <3>2. Head(queue).seq \in Nat /\ Head(queue).seq <= Len(log[Topic]) /\ Topic \in Streams
      BY <2>3, <3>1, StreamElements DEF Greeting
    <3>3. Between(After(Topic, gatewaySession.position, Head(queue).seq),
                  Topic, gatewaySession.position, Head(queue).seq)
      BY <2>3, <3>2, StreamElements, AfterIs
    <3>4. net' \in Seq(Messages)
      BY <2>3, <3>3, ConcatProperties DEF Between, StreamTypes
    <3>5. gatewaySession' \in Sessions
      BY <1>0, <2>3, <3>2 DEF Sessions
    <3> QED BY <1>6, <2>1, <3>4, <3>5 DEF ReceiveEvent, StreamTypes
  <2> QED BY <1>6, <2>2, <2>3 DEF ReceiveEvent, Topic
<1>7. CASE SessionEnds
  <2>1. [gatewaySession EXCEPT !.pc = "ended"] \in Sessions
    BY <1>0 DEF Sessions
  <2> QED BY <1>7, <2>1 DEF SessionEnds, StreamTypes
<1>8. CASE Connect
  <2>1. [NoSession EXCEPT !.pc = "new", !.topic = topic, !.resume = positions] \in Sessions
    BY NothingYet DEF Sessions, NoSession, StreamTypes
  <2> QED BY <1>8, <2>1 DEF Connect, StreamTypes
<1>9. CASE Closed \/ Stop
  BY <1>9, LostTypes DEF Closed, Stop
<1>10. ASSUME NEW s \in Streams, Start(s) PROVE StreamTypes'
  BY <1>10 DEF Start, StreamTypes
<1>11. CASE Ingest
  <2>1. UNCHANGED <<log, topic>> /\ socket = "open" /\ net # <<>>
    BY <1>11, IngestDoes
  <2>2. CASE socket' = "closed" /\ Hangup /\ Disconnected
    BY <2>1, <2>2, LostTypes
  <2>3. CASE /\ net' = Tail(net) /\ UNCHANGED <<socket, gatewayVars>>
             /\ \/ net[1].type = "begin" /\ Begin(net[1])
                \/ net[1].type = "batch" /\ Batch(net[1])
                \/ net[1].type = "end" /\ End(net[1])
                \/ net[1].type = "event" /\ Accept(net[1])
    <3>1. positions' \in [Streams -> Nat] /\ view' \in Views /\ pending' \in Views /\ staged' \in Stages
      BY <2>1, <2>3, HeadIs, StoreTypes
    <3>2. net' \in Seq(Messages)
      BY <2>1, <2>3, HeadIs
    <3> QED BY <2>1, <2>3, <3>1, <3>2 DEF StreamTypes
  <2> QED BY <1>11, <2>2, <2>3, IngestDoes
<1>12. CASE Frame
  BY <1>12, Flushed DEF Frame, StreamTypes
<1> QED
  BY <1>1, <1>2, <1>3, <1>4, <1>5, <1>6, <1>7, <1>8, <1>9, <1>10, <1>11, <1>12
     DEF StreamNext, SessionNext, ClientNext

-----------------------------------------------------------------------------
(* What is shown. *)

\* The last event of each entity in the beginning of a journal.
LatestIn(l, to) ==
    [k \in Entities |-> CHOOSE i \in {0} \cup {n \in 1 .. to : l[n] = k} :
                            \A j \in {0} \cup {n \in 1 .. to : l[n] = k} : j <= i]

\* What is shown, said with the journals themselves, of this state and the next.
LEMMA ShownIs ==
    /\ ShownIsJournal <=>
         \A s \in Streams : positions[s] <= Len(log[s]) /\ Overlay(s) = LatestIn(log[s], positions[s])
    /\ ShownIsJournal' <=>
         \A s \in Streams : positions'[s] <= Len(log'[s]) /\ Overlay(s)' = LatestIn(log'[s], positions'[s])
    /\ \A s, to : Latest(s, to) = LatestIn(log[s], to) /\ Latest(s, to)' = LatestIn(log'[s], to)
BY DEF ShownIsJournal, Latest, Updates, LatestIn

\* What is shown stays what it was.
LEMMA SameShown ==
    ASSUME StreamTypes, ShownIsJournal, [StreamNext]_streamVars, positions' = positions,
           \A s \in Streams : Overlay(s)' = Overlay(s)
    PROVE  ShownIsJournal'
<1> SUFFICES ASSUME NEW s \in Streams
             PROVE  positions'[s] <= Len(log'[s]) /\ Overlay(s)' = LatestIn(log'[s], positions'[s])
  BY ShownIs
<1>1. /\ positions[s] \in Nat /\ Len(log[s]) \in Nat /\ Len(log'[s]) \in Nat /\ Len(log[s]) <= Len(log'[s])
      /\ positions[s] <= Len(log[s]) /\ Overlay(s) = LatestIn(log[s], positions[s])
  BY LogGrows, StreamElements, ShownIs
<1>2. positions[s] \in 0 .. Len(log[s])
  BY <1>1
<1>3. \A to \in 0 .. Len(log[s]) : LatestIn(log'[s], to) = LatestIn(log[s], to)
  BY LogGrows, ShownIs
<1>4. LatestIn(log'[s], positions[s]) = LatestIn(log[s], positions[s])
  BY <1>2, <1>3
<1> QED BY <1>1, <1>4

\* The terminal takes a message: what it shows is the journal up to it.
LEMMA StoreShows ==
    ASSUME StreamTypes, HasLatest, Greeting, Conflated, ShownIsJournal, socket = "open", log' = log,
           NEW m \in Messages, Said(m), Expected(m),
           \/ m.type = "begin" /\ Begin(m)
           \/ m.type = "batch" /\ Batch(m)
           \/ m.type = "end" /\ End(m)
           \/ m.type = "event" /\ Accept(m)
    PROVE  ShownIsJournal' /\ Conflated'
<1>1. /\ Topic \in Streams /\ m.stream = Topic /\ m.last \in Nat /\ m.last <= Len(log[Topic])
      /\ Len(log[Topic]) \in Nat
      /\ positions \in [Streams -> Nat] /\ view \in Views /\ pending \in Views
  BY StreamElements DEF Greeting, Said, Messages, StreamTypes
<1>2. \A s \in Streams : positions[s] <= Len(log[s]) /\ Overlay(s) = LatestIn(log[s], positions[s])
  BY ShownIs
<1>3. ASSUME UNCHANGED <<positions, view, pending>> PROVE ShownIsJournal' /\ Conflated'
  <2>1. \A s \in Streams : Overlay(s)' = Overlay(s)
    BY <1>3 DEF Overlay
  <2>2. ShownIsJournal'
    BY <1>2, <1>3, <2>1, ShownIs
  <2>3. Conflated'
    BY <1>3 DEF Conflated
  <2> QED BY <2>2, <2>3
<1>4. CASE \/ m.type = "begin" /\ Begin(m)
           \/ m.type = "batch" /\ Batch(m)
           \/ m.type = "end" /\ End(m) /\ staged = NoStage
  BY <1>3, <1>4 DEF Begin, Batch, End
<1>5. CASE m.type = "end" /\ End(m) /\ staged # NoStage
  <2>1. staged.stream = Topic /\ staged.last = m.last /\ staged.rows = LatestIn(log[Topic], m.last)
    BY <1>5, ShownIs DEF Expected
  <2>2. /\ positions' = [NoPositions EXCEPT ![Topic] = m.last] /\ view' = [NoView EXCEPT ![Topic] = staged.rows]
        /\ pending' = NoView
    BY <1>5, <2>1 DEF End
  <2>3. Conflated'
    BY <2>2 DEF Conflated, NoView
  <2>4. staged.rows \in [Entities -> Nat]
    BY StreamElements
  <2>5. ASSUME NEW s \in Streams
        PROVE  positions'[s] <= Len(log'[s]) /\ Overlay(s)' = LatestIn(log'[s], positions'[s])
    <3>1. Overlay(s)' = [k \in Entities |-> view'[s][k]]
      BY <2>2 DEF Overlay, NoView
    <3>2. CASE s = Topic
      <4>1. positions'[s] = m.last /\ view'[s] = staged.rows
        BY <1>1, <2>2, <3>2 DEF NoPositions, NoView
      <4>2. Overlay(s)' = staged.rows
        BY <2>4, <3>1, <4>1
      <4> QED BY <1>1, <2>1, <3>2, <4>1, <4>2
    <3>3. CASE s # Topic
      <4>1. positions'[s] = 0 /\ view'[s] = [k \in Entities |-> 0]
        BY <1>1, <2>2, <3>3 DEF NoPositions, NoView
      <4>2. Overlay(s)' = [k \in Entities |-> 0]
        BY <3>1, <4>1
      <4>3. LatestIn(log[s], 0) = [k \in Entities |-> 0] /\ Len(log[s]) \in Nat
        BY LatestOfNothing, ShownIs, StreamElements
      <4> QED BY <4>1, <4>2, <4>3
    <3> QED BY <3>2, <3>3
  <2> QED BY <2>3, <2>5, ShownIs
<1>6. CASE m.type = "event" /\ Accept(m)
  <2>0. PICK t \in Streams : t = Topic
    BY <1>1
  <2> DEFINE p == positions[t]
             e == m.rows
  <2>1. p \in Nat /\ m.last = p + 1 /\ e = log[t][p + 1] /\ e \in Entities /\ p < Len(log[t])
    <3>1. m.last = p + 1 /\ p \in Nat /\ e = log[t][m.last]
      BY <1>1, <1>6, <2>0 DEF Expected, Said
    <3>2. p + 1 \in 1 .. Len(log[t])
      BY <1>1, <2>0, <3>1
    <3> QED BY <1>1, <2>0, <3>1, <3>2, StreamElements
  <2>2. /\ positions' = [positions EXCEPT ![t] = p + 1]
        /\ \/ e \in Market /\ pending' = [pending EXCEPT ![t][e] = p + 1] /\ view' = view
           \/ e \notin Market /\ view' = [view EXCEPT ![t][e] = p + 1] /\ pending' = pending
    BY <1>1, <1>6, <2>0, <2>1 DEF Accept
  <2>3. /\ \A s \in Streams : view[s] \in [Entities -> Nat] /\ pending[s] \in [Entities -> Nat]
        /\ \A s \in Streams \ {t} : view'[s] = view[s] /\ pending'[s] = pending[s] /\ positions'[s] = positions[s]
        /\ positions'[t] = p + 1
    <3>1. view \in [Streams -> [Entities -> Nat]] /\ pending \in [Streams -> [Entities -> Nat]]
          /\ positions \in [Streams -> Nat]
      BY <1>1 DEF Views
    <3>2. positions'[t] = p + 1 /\ \A s \in Streams \ {t} : positions'[s] = positions[s]
      BY <2>2, <3>1
    <3>3. \A s \in Streams \ {t} : view'[s] = view[s]
      BY <2>2, <3>1
    <3>4. \A s \in Streams \ {t} : pending'[s] = pending[s]
      BY <2>2, <3>1
    <3> QED BY <3>1, <3>2, <3>3, <3>4
  <2>4. \A k \in Entities \ {e} : view'[t][k] = view[t][k] /\ pending'[t][k] = pending[t][k]
    <3>1. /\ view \in [Streams -> [Entities -> Nat]] /\ pending \in [Streams -> [Entities -> Nat]]
          /\ view[t] \in [Entities -> Nat] /\ pending[t] \in [Entities -> Nat]
      BY <1>1 DEF Views
    <3>2. CASE pending' = [pending EXCEPT ![t][e] = p + 1] /\ view' = view
      BY <3>1, <3>2
    <3>3. CASE view' = [view EXCEPT ![t][e] = p + 1] /\ pending' = pending
      BY <3>1, <3>3
    <3> QED BY <2>2, <3>2, <3>3
  <2>5. \/ e \in Market /\ pending'[t][e] = p + 1
        \/ e \notin Market /\ pending'[t][e] = 0 /\ view'[t][e] = p + 1
    BY <1>1, <2>1, <2>2, <2>3 DEF Views, Conflated
  <2>6. Conflated'
    <3> SUFFICES ASSUME NEW s \in Streams, NEW k \in Entities \ Market PROVE pending'[s][k] = 0
      BY DEF Conflated
    <3>1. pending[s][k] = 0
      BY DEF Conflated
    <3> QED BY <2>3, <2>4, <2>5, <3>1
  <2>7. \A s \in Streams \ {t} : positions'[s] <= Len(log'[s]) /\ Overlay(s)' = LatestIn(log'[s], positions'[s])
    <3>1. \A s \in Streams \ {t} : Overlay(s)' = Overlay(s)
      BY <2>3 DEF Overlay
    <3> QED BY <1>2, <2>3, <3>1
  <2>8. positions'[t] <= Len(log'[t])
    BY <1>1, <2>0, <2>1, <2>3
  <2>9. \A k \in Entities : LatestIn(log[t], p + 1)[k] = IF e = k THEN p + 1 ELSE LatestIn(log[t], p)[k]
    BY <1>1, <2>1, LatestOfNext, ShownIs
  <2>10. \A k \in Entities : LatestIn(log[t], p)[k] = IF pending[t][k] > 0 THEN pending[t][k] ELSE view[t][k]
    BY <1>1, <1>2, OverlayIs
  <2>11. \A k \in Entities : (IF pending'[t][k] > 0 THEN pending'[t][k] ELSE view'[t][k])
                             = LatestIn(log[t], p + 1)[k]
    <3> SUFFICES ASSUME NEW k \in Entities
                 PROVE  (IF pending'[t][k] > 0 THEN pending'[t][k] ELSE view'[t][k])
                        = LatestIn(log[t], p + 1)[k]
      OBVIOUS
    <3>1. CASE k = e
      BY <2>1, <2>5, <2>9, <3>1
    <3>2. CASE k # e
      BY <2>4, <2>9, <2>10, <3>2
    <3> QED BY <3>1, <3>2
  <2>12. Overlay(t)' = LatestIn(log'[t], positions'[t])
    <3>1. LatestIn(log[t], p + 1) = [k \in Entities |-> LatestIn(log[t], p + 1)[k]]
      BY DEF LatestIn
    <3>2. Overlay(t)' = [k \in Entities |-> LatestIn(log[t], p + 1)[k]]
      BY <2>11 DEF Overlay
    <3> QED BY <2>3, <3>1, <3>2
  <2>13. \A s \in Streams : positions'[s] <= Len(log'[s]) /\ Overlay(s)' = LatestIn(log'[s], positions'[s])
    BY <2>7, <2>8, <2>12
  <2> QED BY <2>6, <2>13, ShownIs
<1> QED BY <1>4, <1>5, <1>6

\* Every step shows the journal.
LEMMA ShownKept ==
    StreamInv /\ [StreamNext]_streamVars => ShownIsJournal' /\ Conflated'
<1> SUFFICES ASSUME StreamInv, [StreamNext]_streamVars PROVE ShownIsJournal' /\ Conflated'
  OBVIOUS
<1>0. StreamTypes /\ HasLatest /\ Greeting /\ Conversation /\ Conflated /\ ShownIsJournal
  BY DEF StreamInv
<1>1. ASSUME UNCHANGED <<positions, view, pending>> PROVE ShownIsJournal' /\ Conflated'
  <2>1. \A s \in Streams : Overlay(s)' = Overlay(s)
    BY <1>1 DEF Overlay
  <2>2. Conflated'
    BY <1>0, <1>1 DEF Conflated
  <2> QED BY <1>0, <1>1, <2>1, <2>2, SameShown
<1>2. ASSUME view' = [s \in Streams |-> Overlay(s)], pending' = NoView, positions' = positions
      PROVE  ShownIsJournal' /\ Conflated'
  <2>1. Conflated' /\ \A s \in Streams : Overlay(s)' = Overlay(s)
    BY <1>0, <1>2, Flushed
  <2> QED BY <1>0, <1>2, <2>1, SameShown
<1>3. CASE Ingest
  <2>1. UNCHANGED <<log, breaks, topic>> /\ socket = "open" /\ net # <<>>
    BY <1>0, <1>3, IngestDoes
  <2>2. CASE Disconnected
    BY <1>2, <2>2 DEF Disconnected
  <2>3. CASE \/ net[1].type = "begin" /\ Begin(net[1])
             \/ net[1].type = "batch" /\ Batch(net[1])
             \/ net[1].type = "end" /\ End(net[1])
             \/ net[1].type = "event" /\ Accept(net[1])
    BY <1>0, <2>1, <2>3, HeadIs, StoreShows
  <2> QED BY <1>0, <1>3, <2>2, <2>3, IngestDoes
<1>4. CASE Closed \/ Stop \/ Frame
  BY <1>2, <1>4 DEF Closed, Stop, Frame, Disconnected
<1>5. CASE ~(Ingest \/ Closed \/ Stop \/ Frame)
  BY <1>1, <1>5 DEF StreamNext, SessionNext, ClientNext, streamVars, storeVars, Publish, Hello, Subscribe,
     ReceiveLagged, ReceiveEvent, SessionEnds, Connect, Start
<1> QED BY <1>3, <1>4, <1>5

\* What the receiver holds is in the journal.
LEMMA QueueKept ==
    ASSUME StreamInv, StreamTypes', [StreamNext]_streamVars
    PROVE  \A i \in 1 .. Len(queue') : queue'[i].seq <= Len(log'[queue'[i].stream])
<1>0. StreamTypes /\ Greeting
  BY DEF StreamInv
<1>1. /\ queue \in Seq(Deliveries) /\ Len(queue) \in Nat
      /\ \A i \in 1 .. Len(queue) : queue[i].seq \in Nat /\ queue[i].stream \in Streams
                                    /\ queue[i].seq <= Len(log[queue[i].stream])
  BY <1>0, StreamElements DEF StreamTypes, Greeting
<1>2. \A s \in Streams : Len(log[s]) \in Nat /\ Len(log'[s]) \in Nat /\ Len(log[s]) <= Len(log'[s])
  BY <1>0, LogGrows
<1>3. \A i \in 1 .. Len(queue) : queue[i].seq <= Len(log'[queue[i].stream])
  BY <1>1, <1>2
<1>4. CASE queue' = queue \/ queue' = <<>>
  BY <1>3, <1>4
<1>5. CASE ReceiveEvent
  <2>1. queue # <<>> /\ queue' = Tail(queue)
    BY <1>5 DEF ReceiveEvent
  <2>2. \A i \in 1 .. Len(queue') : queue'[i] = queue[i + 1] /\ i + 1 \in 1 .. Len(queue)
    BY <1>1, <2>1
  <2> QED BY <1>3, <2>2
<1>6. ASSUME NEW s \in Streams, NEW k \in Entities, Publish(s, k)
      PROVE  \A i \in 1 .. Len(queue') : queue'[i].seq <= Len(log'[queue'[i].stream])
  <2> DEFINE d == [stream |-> s, seq |-> Len(log[s]) + 1]
  <2>1. d \in Deliveries /\ d.stream = s /\ d.seq = Len(log[s]) + 1
    BY <1>2 DEF Deliveries
  <2>2. Len(log'[s]) = Len(log[s]) + 1
    <3>1. log' = [log EXCEPT ![s] = Append(@, k)] /\ log[s] \in Seq(Entities) /\ log \in [Streams -> Seq(Entities)]
      BY <1>0, <1>6 DEF Publish, StreamTypes
    <3> QED BY <3>1
  <2>3. d.seq <= Len(log'[d.stream])
    BY <1>2, <2>1, <2>2
  <2>4. \/ queue' = queue
        \/ Len(queue) < Capacity /\ queue' = Append(queue, d)
        \/ ~(Len(queue) < Capacity) /\ queue' = Append(Tail(queue), d)
    BY <1>6 DEF Publish
  <2> HIDE DEF d
  <2>5. queue = <<>> => Len(queue) < Capacity
    BY StreamAssumption
  <2>6. CASE queue' = Append(queue, d)
    <3>1. \A i \in 1 .. Len(queue') : (i \in 1 .. Len(queue) /\ queue'[i] = queue[i]) \/ queue'[i] = d
      BY <1>1, <2>1, <2>6
    <3> QED BY <1>3, <2>3, <3>1
  <2>7. CASE queue # <<>> /\ queue' = Append(Tail(queue), d)
    <3>1. /\ Tail(queue) \in Seq(Deliveries) /\ Len(Tail(queue)) = Len(queue) - 1
          /\ \A i \in 1 .. Len(queue) - 1 : Tail(queue)[i] = queue[i + 1]
      BY <1>1, <2>7
    <3>2. \A i \in 1 .. Len(queue') : (i \in 1 .. Len(queue) - 1 /\ queue'[i] = Tail(queue)[i]) \/ queue'[i] = d
      BY <1>1, <2>1, <2>7, <3>1
    <3>3. \A i \in 1 .. Len(queue') : (i + 1 \in 1 .. Len(queue) /\ queue'[i] = queue[i + 1]) \/ queue'[i] = d
      BY <1>1, <3>1, <3>2
    <3> QED BY <1>3, <2>3, <3>3
  <2> QED BY <1>3, <2>4, <2>5, <2>6, <2>7
<1>7. CASE Ingest
  BY <1>4, <1>7, IngestDoes DEF StreamInv, Hangup, gatewayVars
<1> QED BY <1>4, <1>5, <1>6, <1>7 DEF StreamNext, SessionNext, ClientNext, streamVars, gatewayVars, Hello,
        Subscribe, ReceiveLagged, SessionEnds, Connect, Closed, Stop, Start, Frame, Hangup

-----------------------------------------------------------------------------
(* The greeting and the conversation. *)

\* Every step keeps the greeting.
LEMMA GreetingKept ==
    StreamInv /\ StreamTypes' /\ [StreamNext]_streamVars => Greeting'
<1> SUFFICES ASSUME StreamInv, StreamTypes', [StreamNext]_streamVars PROVE Greeting'
  OBVIOUS
<1>0. /\ StreamTypes /\ HasLatest /\ Greeting /\ Conversation /\ gatewaySession \in Sessions /\ topic \in Streams
      /\ gatewaySession.pc \in {"none", "new", "open", "live", "ended"}
  BY StreamElements DEF StreamInv, StreamTypes
<1>1. \A i \in 1 .. Len(queue') : queue'[i].seq <= Len(log'[queue'[i].stream])
  BY QueueKept
<1> USE DEF Topic, gatewayVars, storeVars
<1>2. ASSUME UNCHANGED <<gatewaySession, socket, net, positions, staged>> PROVE Greeting'
  BY <1>0, <1>1, <1>2 DEF Greeting
<1>3. ASSUME UNCHANGED <<socket, positions, staged>>, NEW p \in {"live", "ended"}, gatewaySession.pc # "none",
             gatewaySession'.pc = p, gatewaySession'.topic = gatewaySession.topic
      PROVE  Greeting'
  BY <1>0, <1>1, <1>3 DEF Greeting
<1>4. ASSUME Hangup, Disconnected, socket' # "open" PROVE Greeting'
  BY <1>1, <1>4, NothingYet DEF Greeting, Hangup, Disconnected
<1>5. CASE UNCHANGED streamVars
  BY <1>2, <1>5 DEF streamVars
<1>6. CASE \E s \in Streams, k \in Entities : Publish(s, k)
  BY <1>2, <1>6 DEF Publish
<1>7. CASE Hello
  <2>1. /\ gatewaySession'.pc = "open" /\ gatewaySession'.topic = Topic
        /\ gatewaySession'.resume = gatewaySession.resume
    BY <1>0, <1>7 DEF Hello, Sessions
  <2> QED BY <1>0, <1>1, <1>7, <2>1 DEF Greeting, Hello
<1>8. CASE Subscribe
  <2>1. gatewaySession'.pc = "live" /\ gatewaySession'.topic = gatewaySession.topic
    BY <1>0, <1>8 DEF Subscribe, Sessions
  <2> QED BY <1>3, <1>8, <2>1 DEF Subscribe
<1>9. CASE ReceiveLagged \/ SessionEnds
  <2>1. gatewaySession'.pc = "ended" /\ gatewaySession'.topic = gatewaySession.topic
    BY <1>0, <1>9 DEF ReceiveLagged, SessionEnds, Sessions
  <2>2. gatewaySession.pc # "none" /\ UNCHANGED <<socket, positions, staged>>
    BY <1>9 DEF ReceiveLagged, SessionEnds
  <2> QED BY <1>3, <2>1, <2>2
<1>10. CASE ReceiveEvent
  <2>1. CASE UNCHANGED <<net, gatewaySession>>
    BY <1>2, <1>10, <2>1 DEF ReceiveEvent
  <2>2. CASE gatewaySession.pc = "live" /\ gatewaySession' = [gatewaySession EXCEPT !.position = Head(queue).seq]
    <3>1. gatewaySession'.pc = "live" /\ gatewaySession'.topic = gatewaySession.topic
      BY <1>0, <2>2 DEF Sessions
    <3> QED BY <1>3, <1>10, <2>2, <3>1 DEF ReceiveEvent
  <2> QED BY <1>10, <2>1, <2>2 DEF ReceiveEvent
<1>11. CASE Connect
  <2>1. gatewaySession'.pc = "new" /\ gatewaySession'.topic = topic /\ gatewaySession'.resume = positions
    BY <1>11 DEF Connect, NoSession
  <2>2. net = <<>> /\ staged = NoStage
    BY <1>0, <1>11 DEF Connect, Greeting
  <2> QED BY <1>0, <1>1, <1>11, <2>1, <2>2 DEF Greeting, Connect
<1>12. CASE Closed \/ Stop
  BY <1>4, <1>12 DEF Closed, Stop
<1>13. CASE \E s \in Streams : Start(s)
  <2>1. socket = "stopped" /\ socket' = "closed" /\ UNCHANGED <<gatewaySession, net, positions, staged>>
    BY <1>13 DEF Start
  <2> QED BY <1>0, <1>1, <2>1 DEF Greeting
<1>14. CASE Ingest
  <2>1. socket = "open" /\ net # <<>>
    BY <1>0, <1>14, IngestDoes
  <2>2. gatewaySession.pc \in {"live", "ended"}
    BY <1>0, <2>1 DEF Greeting
  <2>3. CASE socket' = "closed" /\ Hangup /\ Disconnected
    BY <1>4, <2>3
  <2>4. CASE UNCHANGED <<socket, gatewayVars>>
    BY <1>0, <1>1, <2>2, <2>4 DEF Greeting
  <2> QED BY <1>0, <1>14, <2>3, <2>4, IngestDoes
<1>15. CASE Frame
  BY <1>2, <1>15 DEF Frame
<1> QED BY <1>5, <1>6, <1>7, <1>8, <1>9, <1>10, <1>11, <1>12, <1>13, <1>14, <1>15
       DEF StreamNext, SessionNext, ClientNext

\* What a message m of stream t says, of the journal l of that stream.
SaidIn(l, t, m) ==
    m.type # "error" =>
        /\ m.stream = t /\ m.last <= Len(l)
        /\ m.type = "event" => m.last > 0 /\ m.rows = l[m.last]
        /\ m.type = "batch" => m.rows = LatestIn(l, m.last)

\* What a store at position p with a stage expects.
ExpectedIn(l, t, p, stage, m) ==
    \/ m.type = "error"
    \/ m.type = "begin" /\ stage = NoStage /\ p <= m.last
    \/ m.type = "batch" /\ stage.stream = t /\ stage.last = m.last
    \/ m.type = "end" /\ stage = NoStage /\ m.last = p
    \/ m.type = "end" /\ stage.stream = t /\ stage.last = m.last /\ stage.rows = LatestIn(l, m.last)
    \/ m.type = "event" /\ stage = NoStage /\ m.last = p + 1

\* What is on its way, said with the journal itself.
LEMMA SpeechIs ==
    /\ \A m : Said(m) <=> SaidIn(log[Topic], Topic, m)
    /\ \A m : Expected(m) <=> ExpectedIn(log[Topic], Topic, positions[Topic], staged, m)
BY ShownIs DEF Said, SaidIn, Expected, ExpectedIn

\* The conversation of the next state, said with its journal t.
LEMMA ConversationOf ==
    ASSUME NEW t, t = gatewaySession'.topic,
           net' # <<>> => ExpectedIn(log'[t], t, positions'[t], staged', net'[1]),
           \A i \in 1 .. Len(net') : SaidIn(log'[t], t, net'[i]),
           \A i \in 1 .. Len(net') - 1 : Follows(net'[i], net'[i + 1]),
           gatewaySession'.pc = "live" =>
               /\ gatewaySession'.position <= Len(log'[t])
               /\ net' = <<>> => staged' = NoStage /\ positions'[t] = gatewaySession'.position
               /\ net' # <<>> => /\ net'[Len(net')].type \in {"event", "end"}
                                 /\ net'[Len(net')].last = gatewaySession'.position
    PROVE  Conversation'
<1>1. \A m : Said(m)' <=> SaidIn(log'[t], t, m)
  BY DEF Said, SaidIn, Topic, LatestIn, Latest, Updates
<1>2. \A m : Expected(m)' <=> ExpectedIn(log'[t], t, positions'[t], staged', m)
  BY DEF Expected, ExpectedIn, Topic, LatestIn, Latest, Updates
<1> QED BY <1>1, <1>2 DEF Conversation, Topic

\* The last message of a snapshot, a replay or an event leaves the store where the message is.
LEMMA StoreSettles ==
    ASSUME StreamTypes, HasLatest, Greeting, socket = "open", NEW m \in Messages, Said(m), Expected(m),
           \/ m.type = "begin" /\ Begin(m)
           \/ m.type = "batch" /\ Batch(m)
           \/ m.type = "end" /\ End(m)
           \/ m.type = "event" /\ Accept(m)
    PROVE  m.type \in {"event", "end"} => staged' = NoStage /\ positions'[Topic] = m.last
<1>1. /\ Topic \in Streams /\ m.stream = Topic /\ m.last \in Nat /\ positions \in [Streams -> Nat]
      /\ positions[Topic] \in Nat
  BY StreamElements DEF Greeting, Said, Messages, StreamTypes
<1>2. CASE m.type = "end" /\ End(m)
  <2>1. CASE staged = NoStage
    <3>1. staged.stream = "none" /\ Topic # "none"
      BY <1>1, <2>1, NothingYet, StreamAssumption
    <3> QED BY <1>2, <2>1, <3>1 DEF End, Expected
  <2>2. CASE staged # NoStage
    <3>1. staged.stream = Topic /\ staged.last = m.last
      BY <1>2, <2>2 DEF Expected
    <3> QED BY <1>1, <1>2, <2>2, <3>1 DEF End, NoPositions
  <2> QED BY <2>1, <2>2
<1>3. CASE m.type = "event" /\ Accept(m)
  BY <1>1, <1>3 DEF Accept, Expected
<1> QED BY <1>2, <1>3

\* The message that follows the one taken is the one expected next.
LEMMA NextExpected ==
    ASSUME StreamTypes, HasLatest, Greeting, socket = "open", NEW m \in Messages, Said(m), Expected(m),
           \/ m.type = "begin" /\ Begin(m)
           \/ m.type = "batch" /\ Batch(m)
           \/ m.type = "end" /\ End(m)
           \/ m.type = "event" /\ Accept(m),
           NEW n \in Messages, Follows(m, n)
    PROVE  ExpectedIn(log[Topic], Topic, positions'[Topic], staged', n)
<1>1. m.stream = Topic /\ m.last \in Nat /\ staged \in Stages
  BY DEF Said, Messages, StreamTypes
<1>2. CASE m.type = "begin" /\ Begin(m)
  <2>1. staged'.stream = Topic /\ staged'.last = m.last
    BY <1>1, <1>2 DEF Begin, NoStage
  <2> QED BY <1>2, <2>1 DEF Follows, ExpectedIn
<1>3. CASE m.type = "batch" /\ Batch(m)
  <2>1. staged'.stream = Topic /\ staged'.last = m.last /\ staged'.rows = LatestIn(log[Topic], m.last)
    BY <1>1, <1>3, ShownIs DEF Batch, Stages, Said, Expected
  <2> QED BY <1>3, <2>1 DEF Follows, ExpectedIn
<1>4. CASE m.type \in {"event", "end"}
  <2>1. staged' = NoStage /\ positions'[Topic] = m.last
    BY <1>4, StoreSettles
  <2> QED BY <1>4, <2>1 DEF Follows, ExpectedIn
<1> QED BY <1>2, <1>3, <1>4

\* What has been said stays true of a journal that grows.
LEMMA SpeechStays ==
    ASSUME StreamTypes, [StreamNext]_streamVars, Topic \in Streams, NEW m \in Messages, Said(m)
    PROVE  /\ SaidIn(log'[Topic], Topic, m)
           /\ \A p, stage :
                ExpectedIn(log[Topic], Topic, p, stage, m) => ExpectedIn(log'[Topic], Topic, p, stage, m)
<1> DEFINE l == log[Topic]
           n == log'[Topic]
<1>1. /\ Len(l) \in Nat /\ Len(n) \in Nat /\ Len(l) <= Len(n) /\ \A i \in 1 .. Len(l) : n[i] = l[i]
      /\ \A to \in 0 .. Len(l) : LatestIn(n, to) = LatestIn(l, to)
  BY LogGrows, ShownIs
<1>2. m.last \in Nat /\ SaidIn(l, Topic, m)
  BY SpeechIs DEF Messages
<1> HIDE DEF l, n
<1>3. m.type # "error" => m.last \in 0 .. Len(l) /\ LatestIn(n, m.last) = LatestIn(l, m.last)
  BY <1>1, <1>2 DEF SaidIn
<1>4. m.type = "event" => n[m.last] = l[m.last]
  BY <1>1, <1>2 DEF SaidIn
<1>5. SaidIn(n, Topic, m)
  BY <1>1, <1>2, <1>3, <1>4 DEF SaidIn
<1>6. ASSUME NEW p, NEW stage, ExpectedIn(l, Topic, p, stage, m) PROVE ExpectedIn(n, Topic, p, stage, m)
  BY <1>3, <1>6 DEF ExpectedIn
<1> QED BY <1>5, <1>6 DEF l, n

\* Messages that are added continue those on their way.
LEMMA Continued ==
    ASSUME NEW n \in Seq(Messages), NEW q \in Seq(Messages), q # <<>>,
           \A i \in 1 .. Len(n) - 1 : Follows(n[i], n[i + 1]), \A i \in 1 .. Len(q) - 1 : Follows(q[i], q[i + 1]),
           n # <<>> => Follows(n[Len(n)], q[1])
    PROVE  /\ n \o q \in Seq(Messages) /\ n \o q # <<>> /\ (n \o q)[Len(n \o q)] = q[Len(q)]
           /\ (n \o q)[1] = IF n = <<>> THEN q[1] ELSE n[1]
           /\ \A i \in 1 .. Len(n \o q) : (\E j \in 1 .. Len(n) : (n \o q)[i] = n[j])
                                          \/ \E j \in 1 .. Len(q) : (n \o q)[i] = q[j]
           /\ \A i \in 1 .. Len(n \o q) - 1 : Follows((n \o q)[i], (n \o q)[i + 1])
<1> DEFINE c == n \o q
           a == Len(n)
           b == Len(q)
<1>1. a \in Nat /\ b \in Nat /\ b >= 1 /\ (n = <<>> <=> a = 0)
  OBVIOUS
<1>2. c \in Seq(Messages) /\ Len(c) = a + b /\ \A i \in 1 .. a + b : c[i] = IF i <= a THEN n[i] ELSE q[i - a]
  BY ConcatProperties
<1> HIDE DEF a, b, c
<1>3. \A i \in 1 .. a : c[i] = n[i]
  BY <1>1, <1>2
<1>4. \A i \in 1 .. b : c[a + i] = q[i]
  <2> SUFFICES ASSUME NEW i \in 1 .. b PROVE c[a + i] = q[i]
    OBVIOUS
  <2> DEFINE x == a + i
  <2>1. x \in 1 .. a + b /\ ~(x <= a) /\ x - a = i
    BY <1>1
  <2> HIDE DEF x
  <2>2. c[x] = q[x - a]
    BY <1>2, <2>1
  <2> QED BY <2>1, <2>2 DEF x
<1>5. c # <<>> /\ c[Len(c)] = q[b] /\ c[1] = IF n = <<>> THEN q[1] ELSE n[1]
  <2>1. c[a + b] = q[b] /\ c[a + 1] = q[1] /\ (a # 0 => c[1] = n[1])
    BY <1>1, <1>3, <1>4
  <2>2. c # <<>>
    BY <1>1, <1>2
  <2>3. a = 0 => a + 1 = 1
    OBVIOUS
  <2> QED BY <1>1, <1>2, <2>1, <2>2, <2>3
<1>6. ASSUME NEW i \in 1 .. Len(c) PROVE (\E j \in 1 .. a : c[i] = n[j]) \/ \E j \in 1 .. b : c[i] = q[j]
  <2>1. i \in 1 .. a \/ (i - a \in 1 .. b /\ a + (i - a) = i)
    BY <1>1, <1>2
  <2> QED BY <1>3, <1>4, <2>1
<1>7. ASSUME NEW i \in 1 .. Len(c) - 1 PROVE Follows(c[i], c[i + 1])
  <2>1. \/ i \in 1 .. a - 1 /\ i \in 1 .. a /\ i + 1 \in 1 .. a
        \/ i = a /\ a \in 1 .. a /\ i + 1 = a + 1 /\ a # 0
        \/ /\ i - a \in 1 .. b - 1 /\ i - a \in 1 .. b /\ (i - a) + 1 \in 1 .. b
           /\ i = a + (i - a) /\ i + 1 = a + ((i - a) + 1)
    BY <1>1, <1>2
  <2>2. CASE i \in 1 .. a - 1 /\ i \in 1 .. a /\ i + 1 \in 1 .. a
    BY <1>3, <2>2 DEF a
  <2>3. CASE i = a /\ a \in 1 .. a /\ i + 1 = a + 1 /\ a # 0
    <3>1. c[a] = n[a] /\ c[a + 1] = q[1]
      BY <1>1, <1>3, <1>4, <2>3
    <3>2. Follows(n[a], q[1])
      BY <1>1, <2>3 DEF a
    <3> QED BY <2>3, <3>1, <3>2
  <2>4. CASE /\ i - a \in 1 .. b - 1 /\ i - a \in 1 .. b /\ (i - a) + 1 \in 1 .. b
             /\ i = a + (i - a) /\ i + 1 = a + ((i - a) + 1)
    <3>1. c[i] = q[i - a] /\ c[i + 1] = q[(i - a) + 1]
      BY <1>4, <2>4
    <3>2. Follows(q[i - a], q[(i - a) + 1])
      BY <2>4 DEF b
    <3> QED BY <3>1, <3>2
  <2> QED BY <2>1, <2>2, <2>3, <2>4
<1> QED BY <1>2, <1>5, <1>6, <1>7 DEF a, b, c

\* Messages are added: what the store expects, and what is in the journal.
LEMMA Added ==
    ASSUME StreamTypes, Greeting, Conversation, gatewaySession.pc # "none",
           NEW q \in Seq(Messages), q # <<>>, net' = net \o q, UNCHANGED <<log, positions, staged>>,
           gatewaySession'.topic = Topic, \A i \in 1 .. Len(q) : Said(q[i]),
           \A i \in 1 .. Len(q) - 1 : Follows(q[i], q[i + 1]),
           net # <<>> => Follows(net[Len(net)], q[1]), net = <<>> => Expected(q[1]),
           gatewaySession'.pc = "live" => /\ q[Len(q)].type \in {"event", "end"}
                                          /\ q[Len(q)].last = gatewaySession'.position
                                          /\ gatewaySession'.position <= Len(log[Topic])
    PROVE  Conversation'
<1>1. PICK t \in Streams : t = Topic
  BY DEF Greeting
<1>2. /\ \A m : Said(m) <=> SaidIn(log'[t], t, m)
      /\ \A m : Expected(m) <=> ExpectedIn(log'[t], t, positions'[t], staged', m)
  BY <1>1, SpeechIs
<1>3. /\ net' # <<>> /\ net'[Len(net')] = q[Len(q)] /\ net'[1] = (IF net = <<>> THEN q[1] ELSE net[1])
      /\ \A i \in 1 .. Len(net') : \/ \E j \in 1 .. Len(net) : net'[i] = net[j]
                                   \/ \E j \in 1 .. Len(q) : net'[i] = q[j]
      /\ \A i \in 1 .. Len(net') - 1 : Follows(net'[i], net'[i + 1])
  <2>1. net \in Seq(Messages) /\ \A i \in 1 .. Len(net) - 1 : Follows(net[i], net[i + 1])
    BY DEF StreamTypes, Conversation
  <2> DEFINE n == net
             c == n \o q
  <2>2. /\ c # <<>> /\ c[Len(c)] = q[Len(q)] /\ c[1] = (IF n = <<>> THEN q[1] ELSE n[1])
        /\ \A i \in 1 .. Len(c) : (\E j \in 1 .. Len(n) : c[i] = n[j]) \/ \E j \in 1 .. Len(q) : c[i] = q[j]
        /\ \A i \in 1 .. Len(c) - 1 : Follows(c[i], c[i + 1])
    <3>1. /\ n \in Seq(Messages) /\ \A i \in 1 .. Len(n) - 1 : Follows(n[i], n[i + 1])
          /\ n # <<>> => Follows(n[Len(n)], q[1])
      BY <2>1
    <3> HIDE DEF n
    <3> QED BY <3>1, Continued
  <2>3. net' = c
    OBVIOUS
  <2> HIDE DEF c
  <2> QED BY <2>2, <2>3
<1>4. \A i \in 1 .. Len(net') : SaidIn(log'[t], t, net'[i])
  BY <1>2, <1>3 DEF Conversation
<1>5. ExpectedIn(log'[t], t, positions'[t], staged', net'[1])
  BY <1>2, <1>3 DEF Conversation
<1> QED BY <1>1, <1>3, <1>4, <1>5, ConversationOf

\* Nothing is added.
LEMMA Undisturbed ==
    ASSUME StreamTypes, Greeting, Conversation, [StreamNext]_streamVars, UNCHANGED <<net, positions, staged>>,
           gatewaySession'.topic = Topic,
           gatewaySession'.pc = "live" =>
               gatewaySession.pc = "live" /\ gatewaySession'.position = gatewaySession.position
    PROVE  Conversation'
<1>1. CASE gatewaySession.pc = "none"
  <2>1. PICK t : t = gatewaySession'.topic
    OBVIOUS
  <2>2. net' = <<>> /\ gatewaySession'.pc # "live" /\ Len(net') = 0
    BY <1>1 DEF Greeting
  <2> QED BY <2>1, <2>2, ConversationOf
<1>2. CASE gatewaySession.pc # "none"
  <2>1. PICK t \in Streams : t = Topic
    BY <1>2 DEF Greeting
  <2>2. \A m \in Messages : Said(m) =>
            /\ SaidIn(log'[t], t, m)
            /\ Expected(m) => ExpectedIn(log'[t], t, positions'[t], staged', m)
    BY <2>1, SpeechStays, SpeechIs
  <2>3. \A i \in 1 .. Len(net') : net'[i] \in Messages /\ Said(net'[i])
    BY StreamElements DEF Conversation
  <2>4. net' # <<>> => ExpectedIn(log'[t], t, positions'[t], staged', net'[1])
    <3>1. net' # <<>> => 1 \in 1 .. Len(net')
      BY DEF StreamTypes
    <3> QED BY <2>2, <2>3, <3>1 DEF Conversation
  <2>5. gatewaySession'.pc = "live" => gatewaySession'.position <= Len(log'[t])
    <3>1. /\ Len(log[t]) \in Nat /\ Len(log'[t]) \in Nat /\ Len(log[t]) <= Len(log'[t])
          /\ gatewaySession.position \in Nat
      BY LogGrows, StreamElements
    <3> QED BY <2>1, <3>1 DEF Conversation
  <2> QED BY <2>1, <2>2, <2>3, <2>4, <2>5, ConversationOf DEF Conversation
<1> QED BY <1>1, <1>2

\* A connection that is made or lost says nothing.
LEMMA Silent ==
    ASSUME net' = <<>>, gatewaySession'.pc # "live" PROVE Conversation'
<1>1. PICK t : t = gatewaySession'.topic
  OBVIOUS
<1>2. Len(net') = 0
  OBVIOUS
<1> QED BY <1>1, <1>2, ConversationOf

\* A message is taken.
LEMMA Taken ==
    ASSUME StreamTypes, HasLatest, Greeting, Conversation, socket = "open", net # <<>>, net' = Tail(net),
           UNCHANGED <<log, gatewaySession>>,
           \/ net[1].type = "begin" /\ Begin(net[1])
           \/ net[1].type = "batch" /\ Batch(net[1])
           \/ net[1].type = "end" /\ End(net[1])
           \/ net[1].type = "event" /\ Accept(net[1])
    PROVE  Conversation'
<1>1. PICK t \in Streams : t = Topic
  BY DEF Greeting
<1>2. /\ net[1] \in Messages /\ Expected(net[1]) /\ Said(net[1]) /\ Len(net) >= 1 /\ Len(net) \in Nat
      /\ Len(net') = Len(net) - 1 /\ net' \in Seq(Messages)
      /\ \A i \in 1 .. Len(net) - 1 : net'[i] = net[i + 1]
  BY HeadIs, StreamElements
<1>3. \A i \in 1 .. Len(net') : SaidIn(log'[t], t, net'[i])
  <2>1. \A i \in 1 .. Len(net') : net'[i] = net[i + 1] /\ i + 1 \in 1 .. Len(net)
    BY <1>2
  <2> QED BY <1>1, <2>1, SpeechIs DEF Conversation
<1>4. \A i \in 1 .. Len(net') - 1 : Follows(net'[i], net'[i + 1])
  <2>1. \A i \in 1 .. Len(net') - 1 : /\ net'[i] = net[i + 1] /\ net'[i + 1] = net[(i + 1) + 1]
                                      /\ i + 1 \in 1 .. Len(net) - 1
    BY <1>2
  <2> QED BY <2>1 DEF Conversation
<1>5. ASSUME net' # <<>> PROVE ExpectedIn(log'[t], t, positions'[t], staged', net'[1])
  <2>1. Len(net) >= 2 /\ net'[1] = net[1 + 1] /\ 1 \in 1 .. Len(net) - 1 /\ 2 \in 1 .. Len(net)
    BY <1>2, <1>5
  <2>2. Follows(net[1], net[2]) /\ net[2] \in Messages
    BY <2>1, StreamElements DEF Conversation
  <2>3. ExpectedIn(log[Topic], Topic, positions'[Topic], staged', net[2])
    BY <1>2, <2>2, NextExpected
  <2> QED BY <1>1, <2>1, <2>3
<1>6. ASSUME gatewaySession'.pc = "live"
      PROVE  /\ gatewaySession'.position <= Len(log'[t])
             /\ net' = <<>> => staged' = NoStage /\ positions'[t] = gatewaySession'.position
             /\ net' # <<>> => /\ net'[Len(net')].type \in {"event", "end"}
                               /\ net'[Len(net')].last = gatewaySession'.position
  <2>1. /\ gatewaySession.position <= Len(log[Topic]) /\ net[Len(net)].type \in {"event", "end"}
        /\ net[Len(net)].last = gatewaySession.position
    BY <1>6 DEF Conversation
  <2>2. CASE net' = <<>>
    <3>1. Len(net') = 0
      BY <1>2, <2>2, EmptySeq
    <3>2. Len(net) = 1
      BY <1>2, <3>1
    <3>3. staged' = NoStage /\ positions'[Topic] = net[1].last
      BY <1>2, <2>1, <3>2, StoreSettles
    <3> QED BY <1>1, <2>1, <2>2, <3>2, <3>3
  <2>3. CASE net' # <<>>
    <3>1. Len(net') \in 1 .. Len(net) - 1 /\ Len(net') + 1 = Len(net)
      BY <1>2, <2>3
    <3>2. net'[Len(net')] = net[Len(net)]
      BY <1>2, <3>1
    <3> QED BY <1>1, <2>1, <2>3, <3>2
  <2> QED BY <2>2, <2>3
<1>7. t = gatewaySession'.topic
  BY <1>1 DEF Topic
<1> QED BY <1>3, <1>4, <1>5, <1>6, <1>7, ConversationOf

\* Every step keeps the conversation.
LEMMA ConversationKept ==
    StreamInv /\ [StreamNext]_streamVars => Conversation'
<1> SUFFICES ASSUME StreamInv, [StreamNext]_streamVars PROVE Conversation'
  OBVIOUS
<1>0. /\ StreamTypes /\ HasLatest /\ Greeting /\ Conversation /\ ShownIsJournal /\ gatewaySession \in Sessions
      /\ net \in Seq(Messages)
  BY DEF StreamInv, StreamTypes
<1> USE DEF gatewayVars, storeVars
<1>1. CASE UNCHANGED streamVars
  BY <1>0, <1>1, Undisturbed DEF streamVars, Topic
<1>2. CASE \E s \in Streams, k \in Entities : Publish(s, k)
  BY <1>0, <1>2, Undisturbed DEF Publish, Topic
<1>3. CASE Hello
  <2>1. net' = <<>> /\ gatewaySession'.pc = "open"
    BY <1>0, <1>3 DEF Hello, Greeting, Sessions
  <2> QED BY <2>1, Silent
<1>4. CASE Subscribe
  <2>1. /\ gatewaySession.pc = "open" /\ net' = net \o Initial(Topic) /\ UNCHANGED <<log, positions, staged>>
        /\ gatewaySession'.topic = Topic /\ gatewaySession'.position = Len(log[Topic]) /\ net = <<>>
    BY <1>0, <1>4 DEF Subscribe, Topic, Sessions, Greeting
  <2>2. Len(log[Topic]) \in Nat
    BY <1>0, <2>1, StreamElements DEF Greeting
  <2> QED BY <1>0, <2>1, <2>2, InitialIs, Added
<1>5. CASE ReceiveLagged
  <2> DEFINE m == [type |-> "error", stream |-> "none", last |-> 0, rows |-> 0]
  <2>1. m \in Messages /\ m.type = "error"
    BY DEF Messages
  <2>2. /\ gatewaySession.pc \in {"open", "live"} /\ net' = Append(net, m) /\ UNCHANGED <<log, positions, staged>>
        /\ gatewaySession'.topic = Topic /\ gatewaySession'.pc = "ended"
    BY <1>0, <1>5 DEF ReceiveLagged, Topic, Sessions
  <2> HIDE DEF m
  <2>3. /\ <<m>> \in Seq(Messages) /\ <<m>> # <<>> /\ Len(<<m>>) = 1 /\ <<m>>[1] = m /\ net' = net \o <<m>>
    BY <1>0, <2>1, <2>2, AppendIsConcat
  <2>4. Said(m) /\ Expected(m)
    BY <2>1 DEF Said, Expected
  <2>5. net # <<>> => Follows(net[Len(net)], m)
    <3>1. net # <<>> => net[Len(net)].type \in {"event", "end"}
      BY <1>0, <2>2 DEF Greeting, Conversation
    <3> QED BY <2>1, <3>1 DEF Follows
  <2>6. /\ \A i \in 1 .. Len(<<m>>) : Said(<<m>>[i])
        /\ \A i \in 1 .. Len(<<m>>) - 1 : Follows(<<m>>[i], <<m>>[i + 1])
    BY <2>3, <2>4
  <2> QED BY <1>0, <2>2, <2>3, <2>4, <2>5, <2>6, Added
<1>6. CASE ReceiveEvent
  <2>1. CASE UNCHANGED <<net, gatewaySession>>
    BY <1>0, <1>6, <2>1, Undisturbed DEF ReceiveEvent, Topic
  <2>2. CASE /\ gatewaySession.pc = "live" /\ Head(queue).stream = Topic
             /\ Head(queue).seq > gatewaySession.position
             /\ net' = net \o After(Topic, gatewaySession.position, Head(queue).seq)
             /\ gatewaySession' = [gatewaySession EXCEPT !.position = Head(queue).seq]
    <3> DEFINE e == Head(queue)
               p == gatewaySession.position
               q == After(Topic, p, e.seq)
    <3>1. queue # <<>> /\ e = queue[1] /\ 1 \in 1 .. Len(queue) /\ UNCHANGED <<log, positions, staged>>
      BY <1>0, <1>6 DEF ReceiveEvent, StreamTypes
    <3>2. /\ e.seq \in Nat /\ e.seq <= Len(log[Topic]) /\ Topic \in Streams /\ p \in Nat /\ p < e.seq
          /\ Len(log[Topic]) \in Nat
      BY <1>0, <2>2, <3>1, StreamElements DEF Greeting
    <3>3. Between(q, Topic, p, e.seq)
      BY <1>0, <3>2, AfterIs
    <3>4. gatewaySession'.topic = Topic /\ gatewaySession'.position = e.seq /\ net' = net \o q
      BY <1>0, <2>2 DEF Topic, Sessions
    <3> HIDE DEF e, p, q
    <3>5. /\ q \in Seq(Messages) /\ Len(q) = e.seq - p /\ q # <<>>
          /\ \A i \in 1 .. e.seq - p : /\ q[i].type = "event" /\ q[i].stream = Topic
                                       /\ q[i].last = p + i /\ q[i].rows = log[Topic][p + i]
      BY <3>2, <3>3, EmptySeq DEF Between
    <3>6. \A i \in 1 .. Len(q) : Said(q[i])
      <4>1. \A i \in 1 .. e.seq - p : p + i > 0 /\ p + i <= Len(log[Topic])
        BY <3>2
      <4> QED BY <3>5, <4>1 DEF Said
    <3>7. \A i \in 1 .. Len(q) - 1 : Follows(q[i], q[i + 1])
      <4>1. \A i \in 1 .. Len(q) - 1 : i \in 1 .. e.seq - p /\ i + 1 \in 1 .. e.seq - p /\ p + (i + 1) = p + i + 1
        BY <3>2, <3>5
      <4> QED BY <3>5, <4>1 DEF Follows
    <3>8. q[1].type = "event" /\ q[1].last = p + 1 /\ q[Len(q)].type = "event" /\ q[Len(q)].last = e.seq
      <4>1. 1 \in 1 .. e.seq - p /\ e.seq - p \in 1 .. e.seq - p /\ p + (e.seq - p) = e.seq
        BY <3>2
      <4> QED BY <3>5, <4>1
    <3>9. /\ net # <<>> => net[Len(net)].type \in {"event", "end"} /\ net[Len(net)].last = p
          /\ net = <<>> => staged = NoStage /\ positions[Topic] = p
      BY <1>0, <2>2 DEF Conversation, p
    <3>10. /\ net # <<>> => Follows(net[Len(net)], q[1])
           /\ net = <<>> => Expected(q[1])
      BY <3>8, <3>9 DEF Follows, Expected
    <3>11. gatewaySession.pc # "none"
      BY <2>2
    <3> QED BY <1>0, <3>1, <3>2, <3>4, <3>5, <3>6, <3>7, <3>8, <3>10, <3>11, Added
  <2> QED BY <1>6, <2>1, <2>2 DEF ReceiveEvent, Topic
<1>7. CASE SessionEnds
  <2>1. gatewaySession'.topic = Topic /\ gatewaySession'.pc = "ended"
    BY <1>0, <1>7 DEF SessionEnds, Topic, Sessions
  <2> QED BY <1>0, <1>7, <2>1, Undisturbed DEF SessionEnds
<1>8. CASE Connect
  <2>1. net' = <<>> /\ gatewaySession'.pc = "new"
    BY <1>0, <1>8 DEF Connect, Greeting, NoSession
  <2> QED BY <2>1, Silent
<1>9. CASE Closed \/ Stop
  BY <1>9, Silent, NothingYet DEF Closed, Stop, Hangup
<1>10. CASE \E s \in Streams : Start(s)
  BY <1>0, <1>10, Undisturbed DEF Start, Topic
<1>11. CASE Ingest
  <2>1. UNCHANGED <<log, breaks, topic>> /\ socket = "open" /\ net # <<>>
    BY <1>0, <1>11, IngestDoes
  <2>2. CASE Hangup
    BY <2>2, Silent, NothingYet DEF Hangup
  <2>3. CASE /\ net' = Tail(net) /\ UNCHANGED gatewayVars
             /\ \/ net[1].type = "begin" /\ Begin(net[1])
                \/ net[1].type = "batch" /\ Batch(net[1])
                \/ net[1].type = "end" /\ End(net[1])
                \/ net[1].type = "event" /\ Accept(net[1])
    BY <1>0, <2>1, <2>3, Taken
  <2> QED BY <1>0, <1>11, <2>2, <2>3, IngestDoes
<1>12. CASE Frame
  BY <1>0, <1>12, Undisturbed DEF Frame, Topic
<1> QED BY <1>1, <1>2, <1>3, <1>4, <1>5, <1>6, <1>7, <1>8, <1>9, <1>10, <1>11, <1>12
     DEF StreamNext, SessionNext, ClientNext

\* Nothing is connected or shown at first.
LEMMA StreamStart == StreamInit => StreamInv
<1> SUFFICES ASSUME StreamInit PROVE StreamInv
  OBVIOUS
<1>1. /\ log = [s \in Streams |-> <<>>] /\ gatewaySession = NoSession /\ queue = <<>> /\ lagged = FALSE
      /\ net = <<>> /\ topic \in Streams /\ socket = "closed" /\ positions = NoPositions
      /\ view = NoView /\ pending = NoView /\ staged = NoStage
  BY DEF StreamInit
<1>2. Len(net) = 0 /\ Len(queue) = 0 /\ \A s \in Streams : Len(log[s]) = 0
  BY <1>1
<1>3. StreamTypes
  <2>1. [s \in Streams |-> <<>>] \in [Streams -> Seq(Entities)]
    BY EmptySeq
  <2> QED BY <1>1, <2>1, NothingYet DEF StreamTypes
<1>4. HasLatest
  <2>1. \A s \in Streams : \A k : Updates(s, k, 0) = {0}
    BY DEF Updates
  <2> SUFFICES ASSUME NEW s \in Streams, NEW to \in 0 .. Len(log[s]), NEW k \in Entities
               PROVE  \E i \in Updates(s, k, to) : \A j \in Updates(s, k, to) : j <= i
    BY DEF HasLatest
  <2>2. to = 0
    BY <1>2
  <2>3. Updates(s, k, to) = {0}
    BY <2>1, <2>2
  <2> QED BY <2>3
<1>5. Greeting
  BY <1>1, <1>2, NothingYet DEF Greeting
<1>6. Conversation
  BY <1>1, <1>2, NothingYet DEF Conversation
<1>7. Conflated
  BY <1>1 DEF Conflated, NoView
<1>8. ShownIsJournal
  <2> SUFFICES ASSUME NEW s \in Streams PROVE positions[s] <= Len(log[s]) /\ Overlay(s) = Latest(s, positions[s])
    BY DEF ShownIsJournal
  <2>1. positions[s] = 0
    BY <1>1 DEF NoPositions
  <2>2. Overlay(s) = [k \in Entities |-> 0]
    BY <1>1 DEF Overlay, NoView
  <2>3. Latest(s, positions[s]) = [k \in Entities |-> 0]
    BY <2>1, LatestOfNothing
  <2> QED BY <1>2, <2>1, <2>2, <2>3
<1> QED BY <1>3, <1>4, <1>5, <1>6, <1>7, <1>8 DEF StreamInv

\* Every step keeps the invariant.
LEMMA StreamInvKept == StreamInv /\ [StreamNext]_streamVars => StreamInv'
<1> SUFFICES ASSUME StreamInv, [StreamNext]_streamVars PROVE StreamInv'
  OBVIOUS
<1>1. StreamTypes' /\ HasLatest'
  BY StreamTypesKept, HasLatestKept DEF StreamInv
<1>2. Greeting' /\ Conversation' /\ ShownIsJournal' /\ Conflated'
  BY <1>1, GreetingKept, ConversationKept, ShownKept
<1> QED BY <1>1, <1>2 DEF StreamInv

\* What the terminal shows is at every moment the journal as of the store's position, for any number
\* of streams, events and lost connections, and a receiver of any capacity (ShownIsJournal: ingest,
\* accept, deliver_initial).
THEOREM TerminalShowsJournal == StreamInit /\ [][StreamNext]_streamVars => []ShownIsJournal
<1>1. StreamInv => ShownIsJournal
  BY DEF StreamInv
<1> QED BY <1>1, StreamStart, StreamInvKept, PTL

\* The gateway never sends what the store refuses: a gap, a snapshot behind the store or a replay
\* short of its watermark (ServerIsAccepted: deliver_initial, stream_socket, ingest).
THEOREM SessionIsAccepted == StreamInit /\ [][StreamNext]_streamVars => []ServerIsAccepted
<1>1. StreamInv => ServerIsAccepted
  BY HeadIs, ExpectedAccepted DEF StreamInv, ServerIsAccepted
<1> QED BY <1>1, StreamStart, StreamInvKept, PTL
=============================================================================
