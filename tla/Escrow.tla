------------------------------- MODULE Escrow -------------------------------
(***************************************************************************)
(* What the network promises for one cross-domain transfer, with nothing   *)
(* said about epochs, summaries, packages or services.                     *)
(*                                                                         *)
(* A deal is struck once.  Locking it moves its amount from the sender's   *)
(* free balance to the sender's held balance on the source domain, then    *)
(* the recipient is credited on the target domain, then the held amount    *)
(* leaves the source domain.  Each step happens at most once, in this      *)
(* order, between the parties of the deal.                                 *)
(***************************************************************************)
EXTENDS Integers

CONSTANTS Id, Deal, NoDeal, InitialFree

VARIABLES
    deal,        \* the terms of each transfer, NoDeal before it is struck
    phase,       \* "None", "Locked", "Credited" or "Settled"
    free, held   \* balances per domain and account

vars == <<deal, phase, free, held>>

Lock(i) ==
    /\ phase[i] = "None"
    /\ \E terms \in Deal :
          /\ terms.source_domain # terms.target_domain
          /\ free[terms.source_domain][terms.sender] >= terms.amount
          /\ deal' = [deal EXCEPT ![i] = terms]
          /\ free' = [free EXCEPT ![terms.source_domain][terms.sender] = @ - terms.amount]
          /\ held' = [held EXCEPT ![terms.source_domain][terms.sender] = @ + terms.amount]
    /\ phase' = [phase EXCEPT ![i] = "Locked"]

Credit(i) ==
    /\ phase[i] = "Locked"
    /\ phase' = [phase EXCEPT ![i] = "Credited"]
    /\ free' = [free EXCEPT ![deal[i].target_domain][deal[i].recipient] = @ + deal[i].amount]
    /\ UNCHANGED <<deal, held>>

Settle(i) ==
    /\ phase[i] = "Credited"
    /\ phase' = [phase EXCEPT ![i] = "Settled"]
    /\ held' = [held EXCEPT ![deal[i].source_domain][deal[i].sender] = @ - deal[i].amount]
    /\ UNCHANGED <<deal, free>>

Init ==
    /\ deal = [i \in Id |-> NoDeal]
    /\ phase = [i \in Id |-> "None"]
    /\ free = InitialFree
    /\ held = [d \in DOMAIN InitialFree |-> [a \in DOMAIN InitialFree[d] |-> 0]]

Next == \E i \in Id : Lock(i) \/ Credit(i) \/ Settle(i)

Spec == Init /\ [][Next]_vars
=============================================================================
