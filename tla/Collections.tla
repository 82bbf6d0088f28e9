----------------------------- MODULE Collections -----------------------------
(***************************************************************************)
(* Sums over finite sets and the selection from a sequence, as recursive   *)
(* functions, so that CollectionsProofs can prove what the proofs about    *)
(* balances, votes and queues use: the operators of the library take       *)
(* operators as parameters, which the provers cannot instantiate.          *)
(***************************************************************************)
EXTENDS Integers, Sequences, FiniteSets

\* The sum of f[x] over the elements x of S.
SumOver(f, S) ==
    LET sum[T \in SUBSET S] ==
            IF T = {} THEN 0
            ELSE LET x == CHOOSE x \in T : TRUE IN f[x] + sum[T \ {x}]
    IN  sum[S]

\* The elements of the sequence q that are in S, in their order.
Only(q, S) ==
    LET kept[n \in 0 .. Len(q)] ==
            IF n = 0 THEN <<>>
            ELSE IF q[n] \in S THEN Append(kept[n - 1], q[n]) ELSE kept[n - 1]
    IN  kept[Len(q)]
=============================================================================
