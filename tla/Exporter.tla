------------------------------ MODULE Exporter ------------------------------
(***************************************************************************)
(* The exporter service of one domain.  At every finalized head it makes   *)
(* a pass: it reads each staged epoch from its node, checks the leaves     *)
(* against the roots of the header, stores one certified package per epoch *)
(* and target domain, hands the packages to the relay and saves its index. *)
(*                                                                         *)
(* Every read goes to the node's best block of that moment, and every      *)
(* await is a point where the chain moves on or the service stops.  The    *)
(* index is saved at the end of a pass only; package files are written as  *)
(* the pass goes.  A header is the version of its epoch: two versions of   *)
(* an epoch belong to two forks, and a root is the set of the leaves it    *)
(* commits to.  Epochs are handled in order; the order of the targets and  *)
(* of the submissions, which no step depends on, is left open.             *)
(***************************************************************************)
EXTENDS Handover

CONSTANTS
    Local,         \* the domain of the exporter
    MaxStops       \* bound on the crashes and lost node connections

ASSUME ExporterAssumption == MaxStops \in Nat /\ Local \notin Domain

P == INSTANCE Packages

VARIABLES
    index,      \* the index file
    manifests,  \* keys that have a manifest file
    task,       \* the exporter process
    stops

store == <<index, files, manifests>>
vars == <<chain, store, task, relay, stops>>

Missing == [status |-> "Missing"]

\* Mutant: a domain that gets governance leaves only is left out.
combine_TransfersOnly(leaves) == {l.target : l \in {x \in leaves : x.kind # "governance"}}

\* exports go to their target, completed imports back to their source, and
\* governance leaves to their target
combine_target_inputs(leaves) == {l.target : l \in leaves}

-----------------------------------------------------------------------------
(* The index *)

upsert_pending(r, header) ==
    IF r.status = "Certified"
    THEN [r EXCEPT !.summary = header]
    ELSE [status |-> "Staged", summary |-> header, relay |-> "NotSubmitted"]

\* Mutant: the handover starts again whenever the package is rebuilt.
mark_certified_Reset(r) ==
    [r EXCEPT !.status = "Certified", !.relay = "NotSubmitted"]

mark_certified(r) ==
    [r EXCEPT !.status = "Certified",
              !.relay = IF r.status = "Certified" THEN @ ELSE "NotSubmitted"]

\* what is recorded for the relay's answer
Outcome(answer) ==
    CASE answer \in {"Accepted", "Idempotent"} -> "Submitted"
      [] answer = "SendError"                  -> "SubmissionRetrying"
      [] OTHER                                 -> "SubmissionFailed"

-----------------------------------------------------------------------------
(* A pass over the epochs *)

\* the process between passes, with nothing in memory
Idle(pc) == [pc |-> pc, index |-> [k \in Key |-> Missing], epoch |-> 0, latest |-> 0,
             header |-> None, bundle |-> None, leaves |-> {}, todo |-> {},
             sent |-> {}, answer |-> None]

Stop == task' = Idle("stopped") /\ UNCHANGED store

\* The end of the loop over the epochs: the packages to hand over are chosen.
\* With none of them the pass saves its index and is done.
Handover(idx) ==
    LET pending == {k \in Key : idx[k].status = "Certified" /\ idx[k].relay # "Submitted"}
    IN  IF pending = {}
        THEN index' = idx /\ task' = Idle("waiting")
        ELSE /\ task' = [Idle("submit") EXCEPT !.index = idx, !.todo = pending]
             /\ UNCHANGED index

\* Mutant: the loop leaves out the latest staged epoch.
NextEpoch_Short(idx) ==
    IF task.epoch + 1 < task.latest
    THEN /\ task' = [Idle("summary") EXCEPT !.index = idx, !.epoch = task.epoch + 1,
                                            !.latest = task.latest]
         /\ UNCHANGED index
    ELSE Handover(idx)

NextEpoch(idx) ==
    IF task.epoch < task.latest
    THEN /\ task' = [Idle("summary") EXCEPT !.index = idx, !.epoch = task.epoch + 1,
                                            !.latest = task.latest]
         /\ UNCHANGED index
    ELSE Handover(idx)

\* The first pass is made at startup and one more at each finalized head.  With
\* nothing staged a pass saves the index as it is.
StartPass ==
    /\ task.pc \in {"stopped", "waiting"}
    /\ Staged # {}
    /\ task' = [Idle("summary") EXCEPT !.index = index, !.latest = Cardinality(Staged) - 1]
    /\ UNCHANGED <<chain, store, relay, stops>>

summary_by_epoch ==
    /\ task.pc = "summary"
    /\ IF best[task.epoch] = None
       THEN NextEpoch(task.index) /\ UNCHANGED <<files, manifests>>
       ELSE /\ task' = [task EXCEPT !.pc = "readiness", !.header = best[task.epoch]]
            /\ UNCHANGED store
    /\ UNCHANGED <<chain, relay, stops>>

\* the version the certification bundle proves, None while it is pending
Readiness(e) == IF e < final THEN best[e] ELSE None

certification_readiness ==
    /\ task.pc = "readiness"
    /\ IF best[task.epoch] = None
       THEN Stop
       ELSE /\ task' = [task EXCEPT !.pc = "export", !.bundle = Readiness(task.epoch)]
            /\ UNCHANGED store
    /\ UNCHANGED <<chain, relay, stops>>

\* The leaves of one kind, read and compared with their root in the header.
ReadLeaves(kind, next) ==
    LET read == IF best[task.epoch] = None THEN {}
                ELSE OfKind(Leaves[task.epoch][best[task.epoch]], kind)
    IN  /\ task.pc = kind
        /\ IF read = OfKind(Leaves[task.epoch][task.header], kind)
           THEN task' = [task EXCEPT !.pc = next, !.leaves = @ \cup read] /\ UNCHANGED store
           ELSE Stop
        /\ UNCHANGED <<chain, relay, stops>>

epoch_exports == ReadLeaves("export", "import")
epoch_finalized_imports == ReadLeaves("import", "governance")
epoch_governance_leaves == ReadLeaves("governance", "record")

\* The records of the epoch are brought up to date; its packages follow when
\* the epoch is certified.
RecordTargets ==
    LET targets == combine_target_inputs(task.leaves)
        idx == [k \in Key |-> IF k[1] = task.epoch /\ k[2] \in targets
                              THEN upsert_pending(task.index[k], task.header)
                              ELSE task.index[k]]
    IN  /\ task.pc = "record"
        /\ IF task.bundle = None \/ targets = {}
           THEN NextEpoch(idx) /\ UNCHANGED <<files, manifests>>
           ELSE /\ task' = [task EXCEPT !.pc = "persist", !.index = idx,
                                        !.todo = {task.epoch} \X targets]
                /\ UNCHANGED store
        /\ UNCHANGED <<chain, relay, stops>>

\* the package a pass makes for a target
Built(k) == [header |-> task.header, bundle |-> task.bundle, leaves |-> For(task.leaves, k[2])]

\* Mutant: a package file is written whatever is there.
Refused_Never(k) == FALSE

\* persist_package gives up: the record is for another header, or the file holds
\* another package.
Refused(k) ==
    \/ task.index[k].summary # task.header
    \/ files[k] # NoFile /\ files[k] # Built(k)

\* Mutant: a package whose file is there already is only marked.
persist_IfAbsent(k) ==
    LET idx == [task.index EXCEPT ![k] = mark_certified(@)]
    IN  /\ task.pc = "persist" /\ k \in task.todo
        /\ IF Refused(k)
           THEN Stop
           ELSE /\ files' = [files EXCEPT ![k] = Built(k)]
                /\ manifests' = IF files[k] = NoFile THEN manifests \cup {k} ELSE manifests
                /\ IF task.todo = {k}
                   THEN NextEpoch(idx)
                   ELSE /\ task' = [task EXCEPT !.index = idx, !.todo = @ \ {k}]
                        /\ UNCHANGED index
        /\ UNCHANGED <<chain, relay, stops>>

\* the package file, the manifest and the record in memory
persist_package(k) ==
    LET idx == [task.index EXCEPT ![k] = mark_certified(@)]
    IN  /\ task.pc = "persist" /\ k \in task.todo
        /\ IF Refused(k)
           THEN Stop
           ELSE /\ files' = [files EXCEPT ![k] = Built(k)]
                /\ manifests' = manifests \cup {k}
                /\ IF task.todo = {k}
                   THEN NextEpoch(idx)
                   ELSE /\ task' = [task EXCEPT !.index = idx, !.todo = @ \ {k}]
                        /\ UNCHANGED index
        /\ UNCHANGED <<chain, relay, stops>>

-----------------------------------------------------------------------------
(* The handover to the relay *)

submit_package(k) ==
    /\ task.pc = "submit" /\ k \in task.todo
    /\ IF files[k] = NoFile \/ k \notin manifests
       THEN Stop
       ELSE /\ task' = [task EXCEPT !.pc = "sent", !.todo = @ \ {k}, !.sent = {k}]
            /\ UNCHANGED store
    /\ UNCHANGED <<chain, relay, stops>>

\* The relay finds one target domain, and at least one proof for it.
derive_target_domain(k) ==
    files[k].leaves # {} /\ \A l \in files[k].leaves : l.target = k[2]

\* What the relay may answer.  It compares whole payloads, and the submission time
\* in them is the same only within one millisecond.
Answers(k) ==
    IF ~derive_target_domain(k) THEN {"Rejected"}
    ELSE IF Payload(k) \in relay THEN {"Idempotent", "Conflict"}
    ELSE {"Accepted"}

\* The relay handles the request.  The exporter gets the answer, loses the
\* connection, or cannot read the body of the answer.
SubmissionArrives(k) ==
    /\ task.pc = "sent" /\ task.sent = {k}
    /\ relay' = IF "Accepted" \in Answers(k) THEN relay \cup {Payload(k)} ELSE relay
    /\ \E a \in Answers(k) \cup {"SendError", "Unreadable"} :
          task' = [task EXCEPT !.pc = "answer", !.answer = a]
    /\ UNCHANGED <<chain, store, stops>>

SubmissionFails ==
    /\ task.pc = "sent"
    /\ task' = [task EXCEPT !.pc = "answer", !.answer = "SendError"]
    /\ UNCHANGED <<chain, store, relay, stops>>

\* The answer is recorded.  After the last one the pass saves its index.
RecordAnswer(k) ==
    LET idx == [task.index EXCEPT ![k].relay = Outcome(task.answer)]
    IN  /\ task.pc = "answer" /\ task.sent = {k}
        /\ IF task.todo = {}
           THEN index' = idx /\ task' = Idle("waiting")
           ELSE /\ task' = [Idle("submit") EXCEPT !.index = idx, !.todo = task.todo]
                /\ UNCHANGED index
        /\ UNCHANGED <<chain, files, manifests, relay, stops>>

-----------------------------------------------------------------------------
(* Stops *)

\* A crash, or a node request that fails: the pass is lost.  It may fall between
\* the two files of a package.
Crash ==
    /\ task.pc # "stopped" /\ stops < MaxStops
    /\ stops' = stops + 1
    /\ task' = Idle("stopped")
    /\ \/ UNCHANGED files
       \/ /\ task.pc = "persist"
          /\ \E k \in task.todo : ~Refused(k) /\ files' = [files EXCEPT ![k] = Built(k)]
    /\ UNCHANGED <<chain, index, manifests, relay>>

-----------------------------------------------------------------------------
Init ==
    /\ HandoverInit
    /\ index = [k \in Key |-> Missing]
    /\ manifests = {}
    /\ task = Idle("stopped")
    /\ stops = 0

Read == \/ summary_by_epoch \/ certification_readiness
        \/ epoch_exports \/ epoch_finalized_imports \/ epoch_governance_leaves

Pass == \/ StartPass \/ Read \/ RecordTargets \/ SubmissionFails
        \/ \E k \in Key : \/ persist_package(k) \/ submit_package(k)
                          \/ SubmissionArrives(k) \/ RecordAnswer(k)

Next == \/ ChainStep /\ UNCHANGED <<store, task, relay, stops>>
        \/ Pass
        \/ Crash

Spec == Init /\ [][Next]_vars

-----------------------------------------------------------------------------
(* Properties *)

\* The index claims nothing that is not there.  A record that says certified, in
\* memory or saved, has its package file and its manifest, wherever an earlier
\* pass was cut off; a package the saved index calls submitted was accepted by
\* the relay, whatever requests and answers were lost.
IndexIsTrue ==
    \A k \in Key :
        /\ "Certified" \in {index[k].status, task.index[k].status} =>
              files[k] # NoFile /\ k \in manifests
        /\ index[k] # Missing /\ index[k].relay = "Submitted" =>
              Payload(k) \in relay

\* When the saved index has one certified package of an epoch it has them all:
\* each leaf of the epoch is in the package of its target.
EpochsWhole ==
    \A k \in Key : index[k].status = "Certified" =>
        \A l \in Leaves[k[1]][best[k[1]]] :
            /\ index[<<k[1], l.target>>].status = "Certified"
            /\ l \in files[<<k[1], l.target>>].leaves

header(e, v) ==
    [domain_id |-> Local, epoch_id |-> e, summary_hash |-> v,
     export_root |-> P!root("export", OfKind(Leaves[e][v], "export")),
     import_root |-> P!root("import", OfKind(Leaves[e][v], "import")),
     governance_root |-> P!root("governance", OfKind(Leaves[e][v], "governance"))]

\* A package file with all its proofs, in its envelope.  The pass compared the
\* leaves it read with the roots of the header.
RelayPackageEnvelopeV1(k, file) ==
    P!Envelope(P!from_bundle_with_mixed_proofs(header(k[1], file.header),
                                               Leaves[k[1]][file.header], file.leaves), k[2])

\* What is handed over is of use: the relay takes the envelope, the importer of the
\* target domain takes it too and verifies the package down to the leaves that the
\* finalized epoch has for that domain, each of them once and nothing else, though
\* exporter, relay and importer each work out target, kinds and number of the
\* leaves for themselves, in trees of odd and even width.
RelayedIsUsable ==
    [][\A m \in relay' \ relay :
          LET t == m.key[2]
              wanted == For(FinalLeaves(m.key[1]), t)
          IN  \A envelope \in {RelayPackageEnvelopeV1(m.key, m.package)} :
                  /\ P!decode_and_validate_envelope(envelope)
                  /\ P!Ingested(envelope, t)
                  /\ P!verify_package_flow(envelope.package, t)
                  /\ P!VerifiedLeaves(envelope.package) = wanted
                  /\ envelope.export_count = Cardinality(wanted)]_relay

\* A recorded handover is never forgotten, although each pass updates and
\* certifies the records of all epochs again.
SubmittedStays ==
    [][\A k \in Key : index[k] # Missing /\ index[k].relay = "Submitted"
                          => index'[k].relay = "Submitted"]_vars

-----------------------------------------------------------------------------
\* The process goes on with its pass, is started again, and finalized heads keep
\* coming; a package that is sent again and again is answered in the end.
Answered(k) == SubmissionArrives(k) /\ task'.answer \in Answers(k)

LiveSpec == Spec /\ WF_vars(Pass) /\ \A k \in Key : SF_vars(Answered(k))
=============================================================================
