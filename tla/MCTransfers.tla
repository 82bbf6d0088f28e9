---------------------------- MODULE MCTransfers ----------------------------
(* Instances of Transfers for model checking. *)
EXTENDS Transfers, TLC

CONSTANTS earth, moon, mars, alice, bob

\* Alice is funded on every chain, Bob's accounts do not exist yet.
GenesisBalances ==
    [d \in Domain |-> [a \in Account |-> IF a = alice THEN 5 ELSE 0]]

\* Two transfers can leave Earth and one the Moon.
ThreeTransfers ==
    [d \in Domain |-> CASE d = earth -> 2 [] d = moon -> 1 [] OTHER -> 0]

\* One transfer can leave Earth and one the Moon.
TwoTransfers == [d \in Domain |-> IF d \in {earth, moon} THEN 1 ELSE 0]
=============================================================================
