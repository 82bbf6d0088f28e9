------------------------------- MODULE Relay --------------------------------
(***************************************************************************)
(* The relay service: it queues certified packages, delivers each one to   *)
(* the importer of its target domain after the delay of the link and       *)
(* outside its blackout windows, retries, and polls for the outcome.       *)
(*                                                                         *)
(* Every change of a record is made and saved under one lock, so the index *)
(* in memory and on disk is one variable.  The scheduler is one task: it   *)
(* takes the packages in order and awaits the importer's answer to each    *)
(* request, while requests come in, time passes, and the service may be    *)
(* restarted.  Time is counted in units of the link profiles; the clock    *)
(* stops at Horizon, and a later deadline is due at Horizon.               *)
(***************************************************************************)
EXTENDS Blackout, FiniteSetsExt

CONSTANTS
    Package,
    Link,          \* per package, the profile of its directed link
    AckPoll,       \* ack_poll_millis
    Refused,       \* packages the importer answers with a client error
    MaxCount,      \* bound on the attempt counter, above every max_attempts
    MaxCrashes,    \* bound on the restarts
    MaxGarbled,    \* bound on the answers whose body is lost
    Forgettable    \* packages the importer may lose or open again

ASSUME RelayAssumption ==
    /\ \A p \in Package :
          /\ Link[p].base_one_way_delay \in Nat \ {0}
          /\ Link[p].initial_retry_delay \in Nat \ {0}
          /\ Link[p].max_retry_delay \in Nat
          /\ Link[p].max_retry_delay >= Link[p].initial_retry_delay
          /\ Link[p].max_attempts \in Nat
          /\ Link[p].max_attempts + MaxCrashes + 1 < MaxCount
          /\ Link[p].blackout_windows \in Seq(Window)
    /\ AckPoll \in Nat \ {0}
    /\ Horizon \in Nat /\ MaxCount \in Nat /\ MaxCrashes \in Nat
    /\ Refused \subseteq Package /\ Forgettable \subseteq Package

VARIABLES
    queue,      \* the packages in the order they were accepted
    record,     \* the record of each package
    sched,      \* the scheduler task
    now,
    importer,   \* what the importer of the target domain knows of each package
    ingested,   \* packages an importer has accepted at some time
    acked,      \* packages it has been done with at some time
    lost,       \* packages it has lost or opened again at some time
    garbled, crashes

faults == <<garbled, crashes>>
importerVars == <<importer, ingested, acked, lost>>
vars == <<queue, record, sched, now, importerVars, faults>>

None == -1
Missing == [state |-> "Missing"]

Deliverable == {"Scheduled", "BlockedByBlackout", "Retrying"}
Settled == {"ImporterAcked", "Failed"}

saturating_add(a, b) == Min({a + b, Horizon})
due_now(due) == due # None /\ now >= due
deferred(p, t) == next_delivery_after(Link[p].blackout_windows, t)

-----------------------------------------------------------------------------
(* HTTP endpoint *)

accept_envelope(p) ==
    /\ record' = [record EXCEPT ![p] = [state |-> "Queued", accepted_at |-> now,
                      next_delivery_at |-> None, next_ack_poll_at |-> None, attempts |-> 0]]
    /\ queue' = Append(queue, p)

\* A package whose identity is known is left alone, whether or not the payload
\* is the same.
submit_package(p) ==
    /\ record[p] = Missing
    /\ accept_envelope(p)
    /\ UNCHANGED <<sched, now, importerVars, faults>>

-----------------------------------------------------------------------------
(* Scheduler *)

Idle == [at |-> "idle", work |-> <<>>, read |-> Missing, started |-> 0, answer |-> "none"]

current == Head(sched.work)
Updated(r, fields) ==
    [f \in DOMAIN r |-> IF f \in DOMAIN fields THEN fields[f] ELSE r[f]]
Update(fields) == record' = [record EXCEPT ![current] = Updated(@, fields)]
NextRecord ==
    sched' = IF Len(sched.work) = 1 THEN Idle
             ELSE [Idle EXCEPT !.at = "record", !.work = Tail(sched.work)]

scheduler_tick ==
    /\ sched.at = "idle"
    /\ queue # <<>>
    /\ sched' = [Idle EXCEPT !.at = "record", !.work = queue]
    /\ UNCHANGED <<queue, record, now, importerVars, faults>>

schedule_record ==
    LET due == saturating_add(record[current].accepted_at, Link[current].base_one_way_delay)
        at == deferred(current, due)
    IN  /\ sched.at = "record"
        /\ record[current].state = "Queued"
        /\ Update([state |-> IF at = due THEN "Scheduled" ELSE "BlockedByBlackout",
                   next_delivery_at |-> at])
        /\ NextRecord
        /\ UNCHANGED <<queue, now, importerVars, faults>>

NotDue ==
    LET r == record[current]
    IN  /\ sched.at = "record"
        /\ \/ r.state \in Deliverable /\ ~ due_now(r.next_delivery_at)
           \/ r.state = "Delivered" /\ ~ due_now(r.next_ack_poll_at)
           \/ r.state \in Settled \cup {"InDelivery"}
        /\ NextRecord
        /\ UNCHANGED <<queue, record, now, importerVars, faults>>

Due == sched.at = "record" /\ record[current].state \in Deliverable
                           /\ due_now(record[current].next_delivery_at)
BlockedUntil == deferred(current, record[current].next_delivery_at)

\* attempt_delivery finds the time it was scheduled for inside a blackout.
DeferDelivery ==
    /\ Due
    /\ BlockedUntil > now
    /\ Update([state |-> "BlockedByBlackout", next_delivery_at |-> BlockedUntil])
    /\ NextRecord
    /\ UNCHANGED <<queue, now, importerVars, faults>>

count(n) == Min({n + 1, MaxCount})

\* Mutant: the time the delivery was scheduled for is not checked again.
attempt_Unchecked ==
    /\ Due
    /\ Update([state |-> "InDelivery", attempts |-> count(record[current].attempts)])
    /\ sched' = [sched EXCEPT !.at = "post", !.read = record[current], !.started = now]
    /\ UNCHANGED <<queue, now, importerVars, faults>>

\* The attempt is saved before the request is sent; what follows the request
\* works on the record and the time read before.
attempt_delivery ==
    /\ Due
    /\ BlockedUntil <= now
    /\ Update([state |-> "InDelivery", attempts |-> count(record[current].attempts)])
    /\ sched' = [sched EXCEPT !.at = "post", !.read = record[current], !.started = now]
    /\ UNCHANGED <<queue, now, importerVars, faults>>

-----------------------------------------------------------------------------
(* The importer's side of a request, and its answer *)

Answer(a) == sched' = [sched EXCEPT !.at = "answer", !.answer = a]

Status(p) == IF importer[p] = "Acked" THEN "terminal" ELSE "pending"

\* The request does not arrive, or a transient status comes back.
PostFails ==
    /\ sched.at = "post"
    /\ Answer("transient")
    /\ UNCHANGED <<queue, record, now, importerVars, faults>>

PostRefused ==
    /\ sched.at = "post"
    /\ current \in Refused
    /\ Answer("client error")
    /\ UNCHANGED <<queue, record, now, importerVars, faults>>

\* What the importer knows after it ingests a package.
Ingest(p) ==
    /\ p \notin Refused
    /\ importer' = [importer EXCEPT ![p] = IF @ = "None" THEN "Received" ELSE @]
    /\ ingested' = ingested \cup {p}
    /\ UNCHANGED <<acked, lost>>

\* The importer's answer arrives, is lost, or arrives with a body that cannot be read.
PostReply ==
    /\ sched.at = "post"
    /\ \/ Answer(Status(current)) /\ UNCHANGED faults
       \/ Answer("transient") /\ UNCHANGED faults
       \/ /\ garbled < MaxGarbled
          /\ garbled' = garbled + 1
          /\ Answer("garbled")
          /\ UNCHANGED crashes
    /\ UNCHANGED <<queue, record, now>>

PostArrives == PostReply /\ Ingest(current)

\* poll_importer_status asks for the status of a delivered package.
Poll ==
    LET known == importer[current] # "None"
    IN  /\ sched.at = "record"
        /\ record[current].state = "Delivered"
        /\ due_now(record[current].next_ack_poll_at)
        /\ \E a \in {"transient", IF known THEN Status(current) ELSE "client error"} :
              sched' = [sched EXCEPT !.at = "polled", !.started = now, !.answer = a]
        /\ UNCHANGED <<queue, record, now, importerVars, faults>>

-----------------------------------------------------------------------------
(* The answer to a delivery *)

Finish(fields) ==
    /\ Update(fields)
    /\ NextRecord
    /\ UNCHANGED <<queue, now, importerVars, faults>>

DeliveryAcked ==
    /\ sched.at = "answer" /\ sched.answer = "terminal"
    /\ Finish([state |-> "ImporterAcked", next_ack_poll_at |-> None])

\* Mutant: a receipt counts as the importer's acknowledgment.
DeliveryAccepted_Acked ==
    /\ sched.at = "answer" /\ sched.answer = "pending"
    /\ Finish([state |-> "ImporterAcked", next_ack_poll_at |-> None])

DeliveryAccepted ==
    /\ sched.at = "answer" /\ sched.answer = "pending"
    /\ Finish([state |-> "Delivered", next_delivery_at |-> None,
               next_ack_poll_at |-> saturating_add(sched.started, AckPoll)])

DeliveryRefused ==
    /\ sched.at = "answer" /\ sched.answer = "client error"
    /\ Finish([state |-> "Failed", next_delivery_at |-> None, next_ack_poll_at |-> None])

\* The error ends the tick; the record stays as attempt_delivery saved it.
DeliveryGarbled ==
    /\ sched.at = "answer" /\ sched.answer = "garbled"
    /\ sched' = Idle
    /\ UNCHANGED <<queue, record, now, importerVars, faults>>

Exhausted(p, attempts) == Link[p].max_attempts # 0 /\ attempts >= Link[p].max_attempts

retry_delay(p, attempts) ==
    LET failures == Max({attempts, 1}) - 1
    IN  Min({Link[p].initial_retry_delay * 2 ^ Min({failures, 16}), Link[p].max_retry_delay})

schedule_retry ==
    LET due == saturating_add(sched.started, retry_delay(current, sched.read.attempts))
        at == deferred(current, due)
    IN  /\ sched.at = "answer" /\ sched.answer = "transient"
        /\ Finish(IF Exhausted(current, sched.read.attempts)
                  THEN [state |-> "Failed", next_delivery_at |-> None, next_ack_poll_at |-> None]
                  ELSE [state |-> IF at = due THEN "Retrying" ELSE "BlockedByBlackout",
                        next_delivery_at |-> at, next_ack_poll_at |-> None])

-----------------------------------------------------------------------------
(* The answer to a poll *)

PollAcked ==
    /\ sched.at = "polled" /\ sched.answer = "terminal"
    /\ Finish([state |-> "ImporterAcked", next_ack_poll_at |-> None])

\* Mutant: a failed poll is not repeated.
PollAgain_Once ==
    /\ sched.at = "polled" /\ sched.answer \in {"pending", "transient"}
    /\ Finish([next_ack_poll_at |-> IF sched.answer = "pending"
                                    THEN saturating_add(sched.started, AckPoll) ELSE None])

PollAgain ==
    /\ sched.at = "polled" /\ sched.answer \in {"pending", "transient"}
    /\ Finish([next_ack_poll_at |-> saturating_add(sched.started, AckPoll)])

PollRefused ==
    /\ sched.at = "polled" /\ sched.answer = "client error"
    /\ Finish([state |-> "Failed", next_ack_poll_at |-> None])

-----------------------------------------------------------------------------
(* Restart, time, and the importers *)

\* Mutant: a restart gives failed packages another chance.
normalize_Failed(r) ==
    IF r.state \in {"InDelivery", "Failed"}
    THEN [r EXCEPT !.state = "Retrying", !.next_delivery_at = now] ELSE r

\* normalize_restart_state: a delivery that was under way is made again.
normalize(r) ==
    IF r.state = "InDelivery"
    THEN [r EXCEPT !.state = "Retrying", !.next_delivery_at = now]
    ELSE IF r.state = "Delivered" /\ r.next_ack_poll_at = None
    THEN [r EXCEPT !.next_ack_poll_at = saturating_add(now, AckPoll)]
    ELSE r

Reload ==
    /\ crashes < MaxCrashes
    /\ crashes' = crashes + 1
    /\ record' = [p \in Package |-> normalize(record[p])]
    /\ sched' = Idle
    /\ UNCHANGED <<queue, now, garbled>>

\* A request in flight may still arrive.
Restart ==
    /\ Reload
    /\ \/ sched.at = "post" /\ Ingest(current)
       \/ UNCHANGED importerVars

Tick ==
    /\ now < Horizon
    /\ now' = now + 1
    /\ UNCHANGED <<queue, record, sched, importerVars, faults>>

Falls(p) == \/ importer[p] # "None" /\ importer'[p] = "None"
            \/ importer[p] = "Acked" /\ importer'[p] = "Received"

\* The importer acknowledges packages.  From a copy of its index that is out of date
\* it may lose one that it accepted (see ReceivedIsKept of Importer), take up again
\* one that it was done with, and come upon a lost one.
ImporterStep ==
    /\ importer' \in [Package -> {"None", "Received", "Acked"}]
    /\ importer' # importer
    /\ \A p \in Package : importer'[p] # importer[p] =>
          p \in ingested /\ (p \in Forgettable \/ importer'[p] = "Acked")
    /\ acked' = acked \cup {p \in Package : importer'[p] = "Acked"}
    /\ lost' = lost \cup {p \in Package : Falls(p)}
    /\ UNCHANGED <<queue, record, sched, now, ingested, faults>>

-----------------------------------------------------------------------------

Init ==
    /\ queue = <<>>
    /\ record = [p \in Package |-> Missing]
    /\ sched = Idle
    /\ now = 0
    /\ importer = [p \in Package |-> "None"]
    /\ ingested = {} /\ acked = {} /\ lost = {}
    /\ garbled = 0 /\ crashes = 0

SchedulerStep ==
    \/ scheduler_tick \/ schedule_record \/ NotDue \/ DeferDelivery \/ attempt_delivery
    \/ PostFails \/ PostRefused \/ PostArrives
    \/ DeliveryAcked \/ DeliveryAccepted \/ DeliveryRefused \/ DeliveryGarbled \/ schedule_retry
    \/ Poll \/ PollAcked \/ PollAgain \/ PollRefused

Next ==
    \/ \E p \in Package : submit_package(p)
    \/ ImporterStep
    \/ SchedulerStep
    \/ Restart
    \/ Tick

Spec == Init /\ [][Next]_vars

-----------------------------------------------------------------------------
(* Properties *)

\* A record is true, although receipts are lost and deliveries repeated.  What it
\* calls Delivered an importer has accepted; with what it calls ImporterAcked the
\* importer was done; and what it calls Failed the importer refuses or has lost, or
\* the attempts the link allows are used up, where zero allows any number.
RecordIsTrue ==
    \A p \in Package :
        /\ record[p].state \in {"Delivered", "ImporterAcked"} => p \in ingested
        /\ record[p].state = "ImporterAcked" => p \in acked
        /\ record[p].state = "Failed" =>
              \/ p \in Refused
              \/ p \in lost
              \/ Link[p].max_attempts # 0 /\ record[p].attempts > Link[p].max_attempts

\* A delivery starts after the one-way delay of the link, and no earlier than the
\* first instant, from the time it was scheduled for on, that no blackout covers:
\* whatever the order of the windows, and when a restart scheduled it too.
PostRespectsLink ==
    sched.at = "post" =>
        /\ sched.started >= saturating_add(record[current].accepted_at,
                                           Link[current].base_one_way_delay)
        /\ \E t \in sched.read.next_delivery_at .. sched.started :
              ~ InBlackout(Link[current].blackout_windows, t)

\* Once acknowledged or given up, a package is never delivered again: neither a
\* late answer nor a restart reopens it.
SettledIsFinal ==
    [][\A p \in Package : record[p].state \in Settled => record[p]'.state = record[p].state]_vars

-----------------------------------------------------------------------------
(* Liveness *)

Process(p) == ImporterStep /\ importer[p] = "Received" /\ importer'[p] = "Acked"
PostAnswered(p) == PostArrives /\ current = p /\ sched'.answer \in {"pending", "terminal"}
PollAnswered(p) == Poll /\ current = p /\ sched'.answer # "transient"

\* The scheduler task and the clock run, importers process what they accepted and
\* do not go on losing it, and no package has all of its requests fail.
Fairness ==
    /\ WF_vars(SchedulerStep)
    /\ WF_vars(Tick)
    /\ \A p \in Package \ Refused : /\ WF_vars(Process(p))
                                    /\ SF_vars(PostAnswered(p))
                                    /\ SF_vars(PollAnswered(p))
    /\ \A p \in Refused : SF_vars(PostRefused /\ current = p)
    /\ <>[][\A p \in Package : ~ Falls(p)]_vars

LiveSpec == Spec /\ Fairness

\* Again and again every accepted package is acknowledged or given up: none is left
\* behind for good, whatever the delays, blackouts, failures and restarts before,
\* except by a delivery whose receipt could not be read, until the next restart;
\* services/relay/README.md lists "delivery retries" and "importer ack polling".
AcceptedSettles ==
    []<> \A p \in Package :
            \/ record[p].state \in Settled \cup {"Missing"}
            \/ record[p].state = "InDelivery" /\ garbled > 0
=============================================================================
