------------------------------ MODULE Pipeline ------------------------------
(***************************************************************************)
(* The off-chain services together: the exporter of a source domain, as    *)
(* far as it promises something (Handover), the relay, and the importer of *)
(* a target domain, with the two chains at the ends.  The services meet in *)
(* two requests.  The exporter's submission puts a record into the relay's *)
(* queue, and the relay's delivery puts one into the importer's index,     *)
(* whose state the relay then asks for.  In Relay both ends of it are an   *)
(* environment that may do anything the module allows; here they are the   *)
(* services.                                                               *)
(***************************************************************************)
EXTENDS Integers, SequencesExt

CONSTANTS
    Target,        \* the domain whose importer is modelled
    Version, MaxEpoch, Leaves, MaxForks,
    LinkProfile, AckPoll, Horizon, MaxCount, MaxGarbled, MaxPool, MaxCopies,
    MaxRestarts    \* bound on the restarts of the relay and of the importer together

VARIABLES
    best, final, forks, files, accepted,
    queue, record, sched, now, acked, lost, garbled, restarts,
    index, disk, proc, pool, status, dropped, received, crashes

X == INSTANCE Handover WITH Domain <- {Target}, MaxReorgs <- MaxForks,
        reorgs <- forks, relay <- accepted

\* What the relay knows a package by.  The leaves are those of the header.
Package ==
    {p \in [key : X!Key, header : Version, bundle : Version] :
        X!For(Leaves[p.key[1]][p.header], Target) # {}}
PackageAt(k) == [key |-> k, header |-> files[k].header, bundle |-> files[k].bundle]
LeavesOf(p) == X!For(Leaves[p.key[1]][p.header], p.key[2])

Item == UNION {LeavesOf(p) : p \in Package}
Proofs ==
    [p \in Package |-> [exports |-> SetToSeq(X!OfKind(LeavesOf(p), "export")),
                        completions |-> SetToSeq(X!OfKind(LeavesOf(p), "import")),
                        governance |-> SetToSeq(X!OfKind(LeavesOf(p), "governance"))]]

\* The bundle proves another header than the one of the package.
Mixed == {p \in Package : p.header # p.bundle}

I == INSTANCE Importer WITH Prerequisite <- <<>>, Invalid <- Mixed, Refused <- {},
        MaxRequests <- 0, MaxReorgs <- 0, MaxDepth <- 0, MaxCrashes <- MaxRestarts,
        requests <- 0, reorgs <- 0, recent <- <<>>, retracted <- {}

\* What a status request to the importer answers.
View ==
    [p \in Package |-> IF ~ I!HasPackage(index, p) THEN "None"
                       ELSE IF I!is_terminal(I!StateOf(index, p)) THEN "Acked" ELSE "Received"]

R == INSTANCE Relay WITH Link <- [p \in Package |-> LinkProfile], Refused <- {},
        MaxCrashes <- MaxRestarts, Forgettable <- Package,
        importer <- View, ingested <- received, crashes <- restarts

exporterVars == <<best, final, forks, files, accepted>>
relayVars == <<queue, record, sched, now, garbled, restarts>>
importerVars == <<index, disk, proc, pool, status, dropped, received, crashes>>
history == <<acked, lost>>
vars == <<exporterVars, relayVars, history, importerVars>>

-----------------------------------------------------------------------------
(* Steps of one service *)

CanRestart == restarts + crashes < MaxRestarts

ByExporter == UNCHANGED <<relayVars, history, importerVars>>

ChainStep == X!ChainStep /\ UNCHANGED <<files, accepted>> /\ ByExporter
StorePackage(k) == X!StorePackage(k) /\ ByExporter

ByRelay == UNCHANGED <<exporterVars, importerVars>>

SchedulerStep ==
    /\ ByRelay
    /\ \/ R!scheduler_tick \/ R!schedule_record \/ R!NotDue \/ R!DeferDelivery
       \/ R!attempt_delivery \/ R!PostFails
       \/ R!DeliveryAcked \/ R!DeliveryAccepted \/ R!DeliveryGarbled \/ R!schedule_retry
       \/ R!Poll \/ R!PollAcked \/ R!PollAgain \/ R!PollRefused

Tick == ByRelay /\ R!Tick

\* What the relay's questions would find out is noted.
Noted ==
    /\ acked' = acked \cup {p \in Package : View'[p] = "Acked"}
    /\ lost' = lost \cup {p \in Package : R!Falls(p)}

ByImporter == Noted /\ UNCHANGED <<exporterVars, relayVars>>

ProcessorStep == I!ProcessorStep /\ ByImporter
ImporterRestart == CanRestart /\ I!Restart /\ ByImporter
Include == (\E tx \in I!Transaction : I!Include(tx)) /\ ByImporter
Lose == (\E tx \in I!Transaction : I!Lose(tx)) /\ ByImporter

-----------------------------------------------------------------------------
(* Steps of two services *)

Submission(k) ==
    /\ UNCHANGED importerVars
    /\ X!HandOver(k)
    /\ R!submit_package(PackageAt(k))

Delivery ==
    /\ sched.at = "post"
    /\ I!receive_package(R!current)
    /\ R!PostReply
    /\ Noted /\ UNCHANGED exporterVars

\* A delivery that was under way may still arrive.
RelayRestart ==
    /\ CanRestart
    /\ \/ sched.at = "post" /\ I!receive_package(R!current)
       \/ UNCHANGED importerVars
    /\ R!Reload
    /\ Noted /\ UNCHANGED exporterVars

-----------------------------------------------------------------------------

Init ==
    /\ I!Init
    /\ X!HandoverInit
    /\ R!Init

Next ==
    \/ ChainStep
    \/ \E k \in X!Key : StorePackage(k) \/ Submission(k)
    \/ SchedulerStep \/ Delivery \/ RelayRestart \/ Tick
    \/ ProcessorStep \/ ImporterRestart \/ Include \/ Lose

Spec == Init /\ [][Next]_vars

-----------------------------------------------------------------------------
(* Properties *)

\* The exporter and the importer are what the relay's module takes them for: seen
\* from the relay, submissions come in, and a package the importer has accepted is
\* acknowledged, lost or opened again, and changes in no other way.
ImplementsRelay == R!Spec

\* What the relay calls acknowledged is settled on the target chain, whatever was
\* lost, repeated or restarted in between, except for a package that fails
\* verification.
AckMeansApplied ==
    \A p \in Package \ Mixed :
        record[p].state = "ImporterAcked" => \A l \in LeavesOf(p) : status[l] = "Done"

-----------------------------------------------------------------------------
(* Liveness: the fairness of the three modules *)

DeliveryAnswered(k) == Delivery /\ R!current.key = k /\ sched'.answer \in {"pending", "terminal"}

Fairness ==
    /\ \A k \in X!Key : /\ WF_vars(StorePackage(k)) /\ WF_vars(Submission(k))
                        /\ SF_vars(DeliveryAnswered(k))
                        /\ SF_vars(I!VerifyValid /\ I!current.key = k /\ ByImporter)
    /\ WF_vars(SchedulerStep) /\ WF_vars(Tick) /\ WF_vars(ProcessorStep) /\ WF_vars(Include)
    /\ \A i \in Item : SF_vars(I!Taken(i) /\ ByImporter)
    /\ <>[][~ Lose]_vars

LiveSpec == Spec /\ Fairness

\* Again and again, every leaf of the finalized epochs is settled on the target
\* chain: nothing is left behind for good by lost requests, lost answers and lost
\* extrinsics; except after a package was stored with the header of one fork and the
\* bundle of another, and except when the importer loses a package it accepted.
LeafArrives ==
    [](X!NoMixedFile /\ lost = {}) =>
        []<> (\A e \in X!Epoch : e < final =>
                 \A l \in X!For(X!FinalLeaves(e), Target) : status[l] = "Done")
=============================================================================
