----------------------------- MODULE MCPipeline -----------------------------
(* Instances of EventPipeline for TLC. *)
EXTENDS EventPipeline

CONSTANTS a, b

Plain(s) == [stream |-> s, seq |-> 0, ok |-> TRUE]
PlainRecords == {Plain(s) : s \in Streams}
MixedRecords == {Plain(a), Plain(b), [stream |-> a, seq |-> 2, ok |-> TRUE],
                 [stream |-> a, seq |-> 0, ok |-> FALSE]}
=============================================================================
