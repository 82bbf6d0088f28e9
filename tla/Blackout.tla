------------------------------ MODULE Blackout ------------------------------
(***************************************************************************)
(* Blackout windows of a directed link.  A window is half open:            *)
(* it contains its start and not its end.                                  *)
(***************************************************************************)
EXTENDS Integers, Sequences

CONSTANT Horizon    \* the clock's last value; every window has ended by then

Time == 0 .. Horizon
Window == {w \in [start : Time, end : Time] : w.start < w.end}

inside(w, t) == w.start <= t /\ t < w.end

\* One pass over the windows, in the order of the configuration.
one_pass(windows, t) ==
    LET pass[k \in 0 .. Len(windows)] ==
            IF k = 0 THEN t
            ELSE LET c == pass[k - 1] IN IF inside(windows[k], c) THEN windows[k].end ELSE c
    IN  pass[Len(windows)]

\* Passes are repeated until one of them does not move the candidate.
next_delivery_after(windows, unix_ms) ==
    LET settle[c \in Time] == LET d == one_pass(windows, c)
                              IN  IF d = c THEN c ELSE settle[d]
    IN  settle[unix_ms]

InBlackout(windows, t) == \E k \in DOMAIN windows : inside(windows[k], t)
=============================================================================
