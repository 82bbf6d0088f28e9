------------------------------ MODULE Importer ------------------------------
(***************************************************************************)
(* The importer service of one domain: an HTTP endpoint that ingests       *)
(* packages, and a processor task that verifies them and submits their     *)
(* proofs to the domain's chain.                                           *)
(*                                                                         *)
(* The two run concurrently and share the package index in two copies: the *)
(* one in memory, behind a lock, from which requests are answered, and the *)
(* one on disk, which the processor reads and writes without that lock.    *)
(* A save replaces the whole file, so a step of the model is one read or   *)
(* one write of a copy.                                                    *)
(*                                                                         *)
(* The chain is external: a submitted extrinsic waits in the pool at its   *)
(* nonce, may be lost, and takes effect when it is included if the pallet's*)
(* guards let it (see Transfers and Governance).  The importer reads the   *)
(* best block, which a reorganisation undoes.                              *)
(***************************************************************************)
EXTENDS Integers, Sequences, FiniteSetsExt

CONSTANTS
    Package,       \* packages addressed to this domain
    Item,          \* what the proofs of packages are about
    Proofs,        \* per package and stage, the items in proof order
    Prerequisite,  \* for an acknowledgment, the proposal it acknowledges
    Invalid,       \* packages that fail verification
    Refused,       \* items the chain never accepts: mints below the minimum balance
    MaxRequests,   \* bound on the ingest requests
    MaxCrashes,    \* bound on the restarts
    MaxPool,       \* bound on the nonces the pool holds
    MaxCopies,     \* bound on the ready ones that are the same but for the nonce
    MaxReorgs,     \* bound on the reorganisations
    MaxDepth       \* bound on the extrinsics one of them undoes

Stages == <<"exports", "completions", "governance">>

ASSUME ImporterAssumption ==
    /\ Proofs \in [Package -> [Range(Stages) -> Seq(Item)]]
    /\ \A p \in Package : \E s \in Range(Stages) : Proofs[p][s] # <<>>
    /\ DOMAIN Prerequisite \subseteq Item /\ Range(Prerequisite) \subseteq Item
    /\ Invalid \subseteq Package /\ Refused \subseteq Item
    /\ MaxRequests \in Nat /\ MaxCrashes \in Nat
    /\ MaxPool \in Nat /\ MaxCopies \in Nat /\ MaxReorgs \in Nat /\ MaxDepth \in Nat

VARIABLES
    index,     \* AppState.index, in memory
    disk,      \* index.json
    proc,      \* the processor task: where it is and its local variables
    pool,      \* the importer's extrinsics in the chain's pool, by nonce
    status,    \* what the best block records of each item
    recent,    \* the extrinsics included last, with the status before each one
    retracted, \* items a reorganisation has undone that are to be settled again
    dropped,   \* whether an extrinsic this takes may have been lost
    received,  \* packages whose sender was given a receipt
    requests, crashes, reorgs

undoVars == <<recent, retracted, dropped, reorgs>>
chainVars == <<pool, status, undoVars>>
counters == <<requests, crashes>>
vars == <<index, disk, proc, chainVars, received, counters>>

-----------------------------------------------------------------------------
(* The index and its copies *)

Acked == {"AckedVerified", "AckedDuplicateLocal", "AckedDuplicateRemote"}
is_terminal(state) == state \in Acked \cup {"AckedInvalid"}

NewIndex == [packages |-> <<>>, imports |-> {}]

HasPackage(ix, p) == \E k \in DOMAIN ix.packages : ix.packages[k].id = p
StateOf(ix, p) ==
    IF HasPackage(ix, p)
    THEN ix.packages[CHOOSE k \in DOMAIN ix.packages : ix.packages[k].id = p].state
    ELSE "None"

upsert_package(ix, p, state) ==
    [ix EXCEPT !.packages =
        IF HasPackage(ix, p)
        THEN [k \in DOMAIN @ |-> IF @[k].id = p THEN [id |-> p, state |-> state] ELSE @[k]]
        ELSE Append(@, [id |-> p, state |-> state])]

\* An interrupted verification starts again.
load_index(ix) ==
    [ix EXCEPT !.packages = [k \in DOMAIN @ |->
        IF @[k].state = "Verifying" THEN [@[k] EXCEPT !.state = "Received"] ELSE @[k]]]

-----------------------------------------------------------------------------
(* HTTP endpoint *)

\* Mutant: a package that comes again is taken up again.
ensure_package_record_Again(ix, p) == upsert_package(ix, p, "Received")

ensure_package_record(ix, p) ==
    IF HasPackage(ix, p) THEN ix ELSE upsert_package(ix, p, "Received")

\* A package that is not addressed to this domain, or is malformed, is refused
\* before this point and changes nothing.
receive_package(p) ==
    /\ index' = ensure_package_record(index, p)
    /\ disk' = index'
    /\ received' = received \cup {p}
    /\ UNCHANGED <<proc, chainVars, crashes>>

Request(p) ==
    /\ requests < MaxRequests
    /\ requests' = requests + 1
    /\ receive_package(p)

-----------------------------------------------------------------------------
(* Processor *)

Idle ==
    [at |-> "idle", work |-> <<>>, local |-> NewIndex, stageIndex |-> NewIndex,
     stage |-> 0, todo |-> <<>>, seen |-> {}, outcomes |-> {}, verdict |-> "None"]

current == Head(proc.work)
StageName == Stages[proc.stage]

\* The copy the processor took is dropped when it is no longer needed.
ToRefresh == proc' = [Idle EXCEPT !.at = "refresh", !.work = proc.work]

\* The one list of the members of S, positions in the index, from the first on.
InOrder(S) ==
    {order \in UNION {[1 .. n -> S] : n \in 0 .. Max(S)} :
        /\ Range(order) = S
        /\ \A m, n \in DOMAIN order : m < n => order[m] < order[n]}

\* Mutant: a postponed package is not taken up again.
process_pending_NewOnly ==
    LET pending == {k \in DOMAIN index.packages : index.packages[k].state = "Received"}
    IN  /\ proc.at = "idle"
        /\ pending # {}
        /\ \E order \in InOrder(pending) :
              proc' = [Idle EXCEPT !.at = "load",
                          !.work = [n \in DOMAIN order |-> index.packages[order[n]].id]]
        /\ UNCHANGED <<index, disk, chainVars, received, counters>>

process_pending_packages_once ==
    LET pending == {k \in DOMAIN index.packages : ~ is_terminal(index.packages[k].state)}
    IN  /\ proc.at = "idle"
        /\ pending # {}
        /\ \E order \in InOrder(pending) :
              proc' = [Idle EXCEPT !.at = "load",
                          !.work = [n \in DOMAIN order |-> index.packages[order[n]].id]]
        /\ UNCHANGED <<index, disk, chainVars, received, counters>>

\* The processor reads the index from disk and marks the package.
LoadPackage ==
    LET ix == load_index(disk)
        state == StateOf(ix, current)
    IN  /\ proc.at = "load"
        /\ CASE state = "None"     -> proc' = Idle      \* the error ends the tick
             [] is_terminal(state) -> ToRefresh
             [] OTHER              -> proc' = [proc EXCEPT !.at = "mark",
                                         !.local = upsert_package(ix, current, "Verifying")]
        /\ UNCHANGED <<index, disk, chainVars, received, counters>>

SaveMark ==
    /\ proc.at = "mark"
    /\ disk' = proc.local
    /\ proc' = [proc EXCEPT !.at = "verify"]
    /\ UNCHANGED <<index, chainVars, received, counters>>

FailWith(verdict) ==
    proc' = [Idle EXCEPT !.at = "fail", !.work = proc.work, !.verdict = verdict]

VerifyInvalid ==
    /\ proc.at = "verify"
    /\ current \in Invalid
    /\ FailWith("AckedInvalid")
    /\ UNCHANGED <<index, disk, chainVars, received, counters>>

\* The node is asked for its importer accounts, version and genesis; a failed
\* request either postpones the package or, for the accounts, ends the tick.
VerifyNoNode ==
    /\ proc.at = "verify"
    /\ current \notin Invalid
    /\ FailWith("SubmissionRetrying") \/ proc' = Idle
    /\ UNCHANGED <<index, disk, chainVars, received, counters>>

\* Mutant: the outcome of the verification is ignored.
VerifyAny ==
    /\ proc.at = "verify"
    /\ proc' = [proc EXCEPT !.at = "stage", !.stage = 1]
    /\ UNCHANGED <<index, disk, chainVars, received, counters>>

VerifyValid ==
    /\ proc.at = "verify"
    /\ current \notin Invalid
    /\ proc' = [proc EXCEPT !.at = "stage", !.stage = 1]
    /\ UNCHANGED <<index, disk, chainVars, received, counters>>

\* The stages that keep per-export records read the index again.
StartStage ==
    /\ proc.at = "stage"
    /\ IF proc.stage > Len(Stages)
       THEN proc' = [proc EXCEPT !.at = "finish"]
       ELSE IF Proofs[current][StageName] = <<>>
       THEN proc' = [proc EXCEPT !.stage = @ + 1]
       ELSE proc' = [proc EXCEPT !.at = "items",
                        !.stageIndex = load_index(disk),
                        !.todo = Proofs[current][StageName],
                        !.seen = {}]
    /\ UNCHANGED <<index, disk, chainVars, received, counters>>

-----------------------------------------------------------------------------
(* One item of a stage *)

item == Head(proc.todo)
Indexed == StageName # "governance"
Known == Indexed /\ item \in proc.stageIndex.imports
Unmet == item \in DOMAIN Prerequisite /\ status[Prerequisite[item]] # "Done"

\* The item is settled; indexed stages note it in their copy of the index.
ItemDone(how) ==
    proc' = [proc EXCEPT !.at = "items", !.todo = Tail(@), !.seen = @ \cup {how},
                !.stageIndex.imports = IF Indexed THEN @ \cup {item} ELSE @]

SkipKnown ==
    /\ proc.at = "items" /\ proc.todo # <<>>
    /\ Known
    /\ ItemDone("local")
    /\ UNCHANGED <<index, disk, chainVars, received, counters>>

SkipSettled ==
    /\ proc.at = "items" /\ proc.todo # <<>>
    /\ ~ Known
    /\ ~ Unmet
    /\ status[item] = "Done"
    /\ ItemDone("remote")
    /\ UNCHANGED <<index, disk, chainVars, received, counters>>

\* The pool: a nonce after the last included one per position, each with an
\* extrinsic or with none, in which case those behind it have to wait.
Gap == <<>>
Trim(q) == SubSeq(q, 1, Max({0} \cup {n \in DOMAIN q : q[n] # Gap}))
Free(n) == n \in DOMAIN pool => pool[n] = Gap

account_next_index == Min({n \in 1 .. Len(pool) + 1 : Free(n)})

Extrinsics ==
    IF StageName = "exports" /\ status[item] = "None"
    THEN <<<<"observe", item>>, <<"finish", item>>>>
    ELSE <<<<"finish", item>>>>

\* The node takes the first k of them, which have consecutive nonces; one whose
\* nonce is taken is refused, and so is one that finds the pool full.
Submit(k) ==
    LET n == account_next_index
    IN  /\ \A m \in n .. n + k - 1 : Free(m) /\ m <= MaxPool
        /\ pool' = [m \in 1 .. Max({Len(pool), n + k - 1}) |->
                       IF m \in n .. n + k - 1 THEN Extrinsics[m - n + 1] ELSE pool[m]]
        /\ \A j \in 1 .. k :
              Cardinality({m \in 1 .. n - 1 : pool[m] = Extrinsics[j]}) < MaxCopies

SubmitItem ==
    /\ proc.at = "items" /\ proc.todo # <<>>
    /\ ~ Known
    /\ ~ Unmet
    /\ status[item] # "Done"
    /\ Submit(Len(Extrinsics))
    /\ proc' = [proc EXCEPT !.at = "wait"]
    /\ UNCHANGED <<index, disk, status, undoVars, received, counters>>

\* A request to the node fails, possibly after it took some of the extrinsics,
\* or an acknowledgment is ahead of its proposal.
ItemFails ==
    /\ proc.at = "items" /\ proc.todo # <<>>
    /\ ~ Known
    /\ \/ UNCHANGED pool
       \/ /\ ~ Unmet
          /\ status[item] # "Done"
          /\ \E k \in DOMAIN Extrinsics : Submit(k)
    /\ FailWith("SubmissionRetrying")
    /\ UNCHANGED <<index, disk, status, undoVars, received, counters>>

WaitDone ==
    /\ proc.at = "wait"
    /\ status[item] = "Done"
    /\ ItemDone("fresh")
    /\ UNCHANGED <<index, disk, chainVars, received, counters>>

\* Mutant: after the last poll the item counts as settled.
WaitFails_GiveUp ==
    /\ proc.at = "wait"
    /\ ItemDone("fresh")
    /\ UNCHANGED <<index, disk, chainVars, received, counters>>

\* The polls are exhausted or one of them fails.
WaitFails ==
    /\ proc.at = "wait"
    /\ FailWith("SubmissionRetrying")
    /\ UNCHANGED <<index, disk, chainVars, received, counters>>

-----------------------------------------------------------------------------
(* The end of a stage, of a package, of a tick *)

StageOutcome ==
    CASE "fresh" \in proc.seen  -> "AckedVerified"
      [] proc.seen = {"local"}  -> "AckedDuplicateLocal"
      [] proc.seen = {"remote"} -> "AckedDuplicateRemote"
      [] OTHER -> IF StageName = "completions" THEN "AckedDuplicateLocal"
                                               ELSE "AckedVerified"

EndStage ==
    /\ proc.at = "items" /\ proc.todo = <<>>
    /\ disk' = IF Indexed THEN proc.stageIndex ELSE disk
    /\ proc' = [proc EXCEPT !.at = "stage", !.stage = @ + 1,
                   !.outcomes = @ \cup {StageOutcome},
                   !.stageIndex = NewIndex, !.seen = {}]
    /\ UNCHANGED <<index, chainVars, received, counters>>

FinalState ==
    IF proc.outcomes \in {{"AckedDuplicateLocal"}, {"AckedDuplicateRemote"}}
    THEN CHOOSE o \in proc.outcomes : TRUE
    ELSE "AckedVerified"

\* The copy of the index saved here is the one LoadPackage read.
FinishPackage ==
    /\ proc.at = "finish"
    /\ disk' = upsert_package(proc.local, current, FinalState)
    /\ ToRefresh
    /\ UNCHANGED <<index, chainVars, received, counters>>

finalize_package_error ==
    /\ proc.at = "fail"
    /\ proc' = [proc EXCEPT !.at = "failed",
                   !.local = upsert_package(load_index(disk), current, proc.verdict)]
    /\ UNCHANGED <<index, disk, chainVars, received, counters>>

SaveFailed ==
    /\ proc.at = "failed"
    /\ disk' = proc.local
    /\ ToRefresh
    /\ UNCHANGED <<index, chainVars, received, counters>>

\* After each package the index in memory is replaced by the one on disk.
Refresh ==
    /\ proc.at = "refresh"
    /\ proc' = [proc EXCEPT !.at = "install", !.local = load_index(disk)]
    /\ UNCHANGED <<index, disk, chainVars, received, counters>>

Install ==
    /\ proc.at = "install"
    /\ index' = proc.local
    /\ proc' = IF Len(proc.work) = 1
               THEN Idle ELSE [Idle EXCEPT !.at = "load", !.work = Tail(proc.work)]
    /\ UNCHANGED <<disk, chainVars, received, counters>>

-----------------------------------------------------------------------------
(* Restart, and the chain *)

Restart ==
    /\ crashes < MaxCrashes
    /\ crashes' = crashes + 1
    /\ index' = load_index(disk)
    /\ proc' = Idle
    /\ UNCHANGED <<disk, chainVars, received, requests>>

IsExport(i) == \E p \in Package : i \in Range(Proofs[p].exports)

\* The pallets' guards: an import is finalized once it was observed, an
\* acknowledgment is recorded once its proposal is known, and nothing twice.
Applies(st, op, i) ==
    IF op = "observe" THEN st[i] = "None"
    ELSE /\ st[i] = (IF IsExport(i) THEN "Observed" ELSE "None")
         /\ i \notin Refused
         /\ i \in DOMAIN Prerequisite => st[Prerequisite[i]] = "Done"

\* What the chain records after an extrinsic, which may have no effect.
After(st, tx) ==
    IF Applies(st, tx[1], tx[2])
    THEN [st EXCEPT ![tx[2]] = IF tx[1] = "observe" THEN "Observed" ELSE "Done"]
    ELSE st

Depth == IF reorgs < MaxReorgs THEN MaxDepth ELSE 0

\* The extrinsic at the next nonce is included.
Include(tx) ==
    /\ pool # <<>> /\ Head(pool) = tx
    /\ pool' = Tail(pool)
    /\ status' = After(status, tx)
    /\ recent' = LET all == Append(recent, [tx |-> tx, before |-> status])
                 IN  SubSeq(all, Len(all) - Min({Depth, Len(all)}) + 1, Len(all))
    /\ retracted' = {i \in retracted : status'[i] # "Done"}
    /\ UNCHANGED <<index, disk, proc, dropped, reorgs, received, counters>>

Lose(tx) ==
    /\ \E n \in DOMAIN pool : pool[n] = tx /\ pool' = Trim([pool EXCEPT ![n] = Gap])
    /\ dropped' = (dropped \/ tx[2] \in retracted)
    /\ UNCHANGED <<index, disk, proc, status, recent, retracted, reorgs, received, counters>>

\* The last included extrinsics are undone.  Each goes back into the pool or is lost.
Reorg ==
    /\ reorgs < MaxReorgs
    /\ reorgs' = reorgs + 1
    /\ \E k \in DOMAIN recent :
          LET undone == SubSeq(recent, k, Len(recent))
          IN  \E back \in SUBSET DOMAIN undone :
                 /\ status' = recent[k].before
                 /\ pool' = Trim([n \in DOMAIN undone |->
                                     IF n \in back THEN undone[n].tx ELSE Gap] \o pool)
                 /\ dropped' = (dropped \/ back # DOMAIN undone)
    /\ retracted' = {i \in Item : status'[i] # "Done" /\ (i \in retracted \/ status[i] = "Done")}
    /\ recent' = <<>>
    /\ UNCHANGED <<index, disk, proc, received, counters>>

-----------------------------------------------------------------------------

Init ==
    /\ index = NewIndex
    /\ disk = NewIndex
    /\ proc = Idle
    /\ pool = <<>>
    /\ status = [i \in Item |-> "None"]
    /\ recent = <<>> /\ retracted = {} /\ dropped = FALSE
    /\ received = {}
    /\ requests = 0 /\ crashes = 0 /\ reorgs = 0

ProcessorStep ==
    \/ process_pending_packages_once \/ LoadPackage \/ SaveMark
    \/ VerifyInvalid \/ VerifyNoNode \/ VerifyValid
    \/ StartStage \/ SkipKnown \/ SkipSettled \/ SubmitItem \/ ItemFails
    \/ WaitDone \/ WaitFails \/ EndStage \/ FinishPackage
    \/ finalize_package_error \/ SaveFailed \/ Refresh \/ Install

Transaction == {tx \in {"observe", "finish"} \X Item : tx[1] = "observe" => IsExport(tx[2])}

Next ==
    \/ \E p \in Package : Request(p)
    \/ ProcessorStep
    \/ Restart
    \/ \E tx \in Transaction : Include(tx) \/ Lose(tx)
    \/ Reorg

Spec == Init /\ [][Next]_vars

-----------------------------------------------------------------------------
(* Properties *)

Items(p) == UNION {Range(Proofs[p][s]) : s \in Range(Stages)}

Applied(i) ==
    status[i] = "Done" \/ (i \in retracted /\ <<"finish", i>> \in Range(pool))

\* No copy of the index claims what the chain does not have, whatever timeouts,
\* lost extrinsics, restarts and stale copies came before: a package reported or
\* saved as acknowledged has had every one of its proofs applied, and an item
\* recorded as imported, which later packages skip, is settled.  Since all of it
\* was read at the best block, a reorganisation may undo it; then the extrinsic is
\* back in the pool, unless the pool has lost it.
IndexMatchesChain ==
    dropped \/
        /\ \A p \in Package, ix \in {index, disk, proc.local} :
              StateOf(ix, p) \in Acked => \A i \in Items(p) : Applied(i)
        /\ \A ix \in {index, disk, proc.local, proc.stageIndex} :
              \A i \in ix.imports : Applied(i)

\* A package that fails verification has no effect on the chain: what the chain
\* has seen comes from packages that verified, and those are never called invalid.
OnlyVerifiedApplied ==
    /\ \A i \in Item : (status[i] # "None" \/ \E op \in {"observe", "finish"} : <<op, i>> \in Range(pool))
            => \E p \in received \ Invalid : i \in Items(p)
    /\ \A p \in Package \ Invalid : StateOf(index, p) # "AckedInvalid"

\* services/importer/README.md: the importer "persists structurally valid inbound
\* packages before verification": a package whose sender was given a receipt
\* stays in the index.
ReceivedIsKept ==
    \A p \in received : HasPackage(index, p) \/ HasPackage(disk, p)

-----------------------------------------------------------------------------
(* Liveness *)

Deliverable(p) == p \in Invalid \/ Items(p) \cap Refused = {}

\* The item is found settled, or the node takes some of its extrinsics.
Taken(i) ==
    /\ proc.at = "items" /\ proc.todo # <<>> /\ item = i
    /\ SkipSettled \/ SubmitItem \/ (ItemFails /\ pool' # pool)

\* The processor keeps running, the node answers again and again while a
\* package is verified and takes the extrinsics again and again, blocks include
\* what is next in the pool, and the pool does not go on losing extrinsics.
Fairness ==
    /\ WF_vars(ProcessorStep)
    /\ \A p \in Package : SF_vars(VerifyValid /\ current = p)
    /\ \A i \in Item \ Refused : SF_vars(Taken(i))
    /\ WF_vars(\E tx \in Transaction : Include(tx))
    /\ <>[][\A tx \in Transaction : ~ Lose(tx)]_vars

LiveSpec == Spec /\ Fairness

\* p and the packages with the proposals it acknowledges
Needed(p) ==
    {p} \cup {m \in Package : \E i \in Items(p) \cap DOMAIN Prerequisite :
                                  Prerequisite[i] \in Items(m)}

\* No package is missing from disk that memory holds: the one error that ends
\* a tick before it reaches the packages behind.
DiskHoldsMemory == \A p \in Package : HasPackage(index, p) => HasPackage(disk, p)

\* A package that stays in the index, with the proposals it acknowledges, is
\* eventually acknowledged for good: although another package is postponed
\* forever, and although its acknowledgments may arrive before the proposals.
KeptIsAcked ==
    <>[] DiskHoldsMemory =>
        \A p \in Package :
            (\A m \in Needed(p) : Deliverable(m) /\ <>[] HasPackage(index, m))
                => <>[] is_terminal(StateOf(index, p))
=============================================================================
