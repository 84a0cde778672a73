---------------------------- MODULE MCSupervisor ----------------------------
(* Instances of GroupSupervisor for TLC. *)
EXTENDS GroupSupervisor, TLC

CONSTANTS r1, r2, g1, g2, p1, p2

\* All live groups trade one account.
OneAccount == [g \in Groups |-> "account"]

RunSymmetry == Permutations(Runs) \cup Permutations(Groups)
=============================================================================
