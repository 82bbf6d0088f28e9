----------------------------- MODULE MCPipeline -----------------------------
(* An instance of Pipeline for model checking. *)
EXTENDS Pipeline

\* Both forks of the epoch have the same export.
OneExport ==
    [e \in 0 .. MaxEpoch |-> [v \in Version |-> {[kind |-> "export", id |-> e, target |-> Target]}]]

OpenLink ==
    [base_one_way_delay |-> 1, initial_retry_delay |-> 1, max_retry_delay |-> 1,
     max_attempts |-> 0, blackout_windows |-> <<>>]
=============================================================================
