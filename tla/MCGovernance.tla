---------------------------- MODULE MCGovernance ----------------------------
(* Instances of Governance for TLC. *)
EXTENDS Governance

CONSTANTS earth, moon, mars, v1, v2

\* With two voters one of them is exactly a quorum, and two may tie.
EqualPowers == {[v \in Voter |-> 2]}

OneProposal == [d \in Domain |-> IF d = earth THEN 1 ELSE 0]
OneEach == [d \in Domain |-> 1]

NoneAhead == [d \in Domain |-> 0]
MarsAhead == [d \in Domain |-> IF d = mars THEN 6 ELSE 0]
=============================================================================
