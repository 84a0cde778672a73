------------------------------ MODULE EventFeed ------------------------------
(***************************************************************************)
(* What the event path promises, whatever there is between the two ends:   *)
(* a run writes records, and for every stream the records written to it    *)
(* are published in the order in which they were written, each once, with  *)
(* nothing left out and nothing taken back.                                *)
(***************************************************************************)
EXTENDS Integers, Sequences, FiniteSets

CONSTANTS Streams, Records

VARIABLES
    log,        \* the records written
    published   \* for each stream, the places in the log of what was published, in order

\* The k-th record of a stream is at place i of the log.
IsRecord(s, k, i) ==
    i \in DOMAIN log /\ log[i].stream = s /\ Cardinality({j \in 1 .. i : log[j].stream = s}) = k

FeedInit == log = <<>> /\ published = [s \in Streams |-> <<>>]

WriteNext == \E r \in Records : log' = Append(log, r) /\ UNCHANGED published

\* Some streams are published further, any number of records at once.
PublishNext ==
    /\ UNCHANGED log
    /\ \A s \in Streams :
         /\ Len(published'[s]) >= Len(published[s])
         /\ SubSeq(published'[s], 1, Len(published[s])) = published[s]
         /\ \A k \in DOMAIN published'[s] : IsRecord(s, k, published'[s][k])

FeedSpec == FeedInit /\ [][WriteNext \/ PublishNext]_<<log, published>>
=============================================================================
