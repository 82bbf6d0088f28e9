------------------------------ MODULE MCRelay -------------------------------
(* Instances of Relay for model checking. *)
EXTENDS Relay, SequencesExt

CONSTANTS a, b

Profile(delay, initial, max, attempts, windows) ==
    [base_one_way_delay |-> delay, initial_retry_delay |-> initial, max_retry_delay |-> max,
     max_attempts |-> attempts, blackout_windows |-> windows]

\* The link of a has two windows that touch, listed in reverse, and allows one
\* attempt; the link of b has none and allows any number.
TwoLinks ==
    [p \in Package |->
        IF p = a
        THEN Profile(1, 1, 2, 1, <<[start |-> 3, end |-> 4], [start |-> 2, end |-> 3]>>)
        ELSE Profile(2, 1, 1, 0, <<>>)]

\* next_delivery_after returns the earliest time, not before the one it is given,
\* that lies in no window, for every list of up to three windows, which may
\* overlap, nest, touch or repeat in any order, and for every time.
ASSUME EarliestOutside ==
    \A windows \in BoundedSeq(Window, 3), t \in Time :
        LET next == next_delivery_after(windows, t)
        IN  /\ next >= t
            /\ ~ InBlackout(windows, next)
            /\ \A u \in t .. next - 1 : InBlackout(windows, u)
=============================================================================
