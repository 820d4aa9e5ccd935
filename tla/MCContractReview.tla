-------------------------- MODULE MCContractReview --------------------------
(* Instances of ContractReview for TLC. *)
EXTENDS ContractReview, TLC

CONSTANTS r1, r2, r3, d1, d2, c1

TwoRequests == {r1, r2}
ThreeRequests == {r1, r2, r3}
NoDecision == {}
OneDecision == {d1}
TwoDecisions == {d1, d2}
OneContract == {c1}

Symmetry == Permutations(Requests) \cup Permutations(Decisions)
=============================================================================
