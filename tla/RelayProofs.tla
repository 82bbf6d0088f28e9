---------------------------- MODULE RelayProofs -----------------------------
(***************************************************************************)
(* Proofs about Relay, for any packages, links, importers that refuse or   *)
(* forget packages, and any number of restarts and lost answers: what a    *)
(* record says did happen, a settled record stays so, and no request is    *)
(* sent before the delay of its link is over or through its blackouts.     *)
(***************************************************************************)
EXTENDS Relay, WellFoundedInduction, SequenceTheorems, TLAPS

-----------------------------------------------------------------------------
(* The inductive invariant *)

Fields == {"state", "accepted_at", "next_delivery_at", "next_ack_poll_at", "attempts"}
State == Deliverable \cup Settled \cup {"Queued", "InDelivery", "Delivered"}

IsRecord(r) ==
    /\ DOMAIN r = Fields
    /\ r.state \in State
    /\ r.attempts \in Nat

\* The packages the relay has accepted.
Known == {p \in Package : record[p] # Missing}

Types ==
    /\ DOMAIN record = Package
    /\ \A p \in Known : IsRecord(record[p])
    /\ queue \in Seq(Known)
    /\ DOMAIN importer = Package
    /\ DOMAIN sched = {"at", "work", "read", "started", "answer"}
    /\ sched.work \in Seq(Known)
    /\ sched.at \in {"idle", "record", "post", "answer", "polled"}
    /\ sched.at # "idle" => sched.work # <<>>

\* While a request is under way the record is as it was saved before it, and
\* the answer, once there, is justified by what the importer has done.
RequestOK ==
    /\ sched.at \in {"post", "answer"} =>
          /\ record[current].state = "InDelivery"
          /\ sched.read.attempts \in Nat
          /\ record[current].attempts = count(sched.read.attempts)
    /\ sched.at = "polled" => record[current].state = "Delivered"
    /\ sched.at \in {"answer", "polled"} =>
          /\ sched.answer \in {"terminal", "pending"} => current \in ingested
          /\ sched.answer = "terminal" => current \in acked
          /\ sched.answer = "client error" => current \in Refused \cup lost

\* The histories of the importer agree with what it knows.
HistoryOK ==
    \A p \in Package :
        /\ importer[p] = "Acked" => p \in acked
        /\ p \in ingested /\ importer[p] = "None" => p \in lost

IInv == Types /\ RequestOK /\ HistoryOK /\ RecordIsTrue

-----------------------------------------------------------------------------
(* Data *)

\* A record stays a record when fields of it are set.
LEMMA UpdatedFields ==
  ASSUME NEW r, NEW f, DOMAIN r = Fields
  PROVE  /\ DOMAIN Updated(r, f) = Fields
         /\ \A x \in Fields : Updated(r, f)[x] = IF x \in DOMAIN f THEN f[x] ELSE r[x]
  BY DEF Updated

\* A sequence over a set is one over every larger set.
LEMMA SeqGrows ==
  ASSUME NEW S, NEW T, S \subseteq T, NEW s \in Seq(S)
  PROVE  s \in Seq(T)
<1>1. s \in [1 .. Len(s) -> S] /\ Len(s) \in Nat
  OBVIOUS
<1>2. s \in [1 .. Len(s) -> T]
  BY <1>1
<1> QED
  BY <1>1, <1>2

\* What is left of the work after the current package.
LEMMA WorkLeft ==
  ASSUME NEW S, NEW s \in Seq(S), s # <<>>
  PROVE  /\ Head(s) \in S
         /\ Tail(s) \in Seq(S)
         /\ Len(s) # 1 => Tail(s) # <<>>
<1>1. Head(s) \in S /\ Tail(s) \in Seq(S) /\ Len(Tail(s)) = Len(s) - 1
  BY HeadTailProperties
<1>2. Len(s) \in Nat \ {0} /\ Len(<<>>) = 0
  BY EmptySeq
<1> QED
  BY <1>1, <1>2

\* The saved counter is past the limit when the one read has reached it.
LEMMA CountPasses ==
  ASSUME NEW n \in Nat
  PROVE  /\ count(n) \in Nat
         /\ \A p \in Package : Exhausted(p, n) =>
               Link[p].max_attempts # 0 /\ count(n) > Link[p].max_attempts
<1>1. MaxCount \in Nat
  BY RelayAssumption
<1>2. \E x \in {n + 1, MaxCount} : \A y \in {n + 1, MaxCount} : x =< y
  BY <1>1
<1>3. Min({n + 1, MaxCount}) \in {n + 1, MaxCount}
  BY <1>2 DEF Min
<1>4. count(n) = n + 1 \/ count(n) = MaxCount
  BY <1>3 DEF count
<1>5. \A p \in Package : Link[p].max_attempts \in Nat /\ Link[p].max_attempts < MaxCount
  BY RelayAssumption
<1> QED
  BY <1>1, <1>4, <1>5 DEF Exhausted

\* The scheduler's work is never empty while it runs, and its packages are known.
LEMMA CurrentKnown ==
  ASSUME Types, sched.at # "idle"
  PROVE  current \in Known /\ current \in Package /\ IsRecord(record[current])
<1>1. sched.work \in Seq(Known) /\ sched.work # <<>>
  BY DEF Types
<1>2. current \in Known
  BY <1>1, WorkLeft DEF current
<1> QED
  BY <1>2 DEF Types, Known

-----------------------------------------------------------------------------
(* Steps that end the work on a package *)

\* The scheduler goes on with the rest of its work.
LEMMA NextRecordSched ==
  ASSUME Types, sched.at # "idle", NextRecord
  PROVE  /\ DOMAIN sched' = {"at", "work", "read", "started", "answer"}
         /\ sched'.work \in Seq(Known)
         /\ sched'.at \in {"idle", "record"}
         /\ sched'.at # "idle" => sched'.work # <<>>
<1>1. sched.work \in Seq(Known) /\ sched.work # <<>>
  BY DEF Types
<1>2. CASE Len(sched.work) = 1
  <2>1. sched' = Idle
    BY <1>2 DEF NextRecord
  <2> QED
    BY <2>1 DEF Idle
<1>3. CASE Len(sched.work) # 1
  <2>1. sched' = [Idle EXCEPT !.at = "record", !.work = Tail(sched.work)]
    BY <1>3 DEF NextRecord
  <2>2. /\ DOMAIN sched' = {"at", "work", "read", "started", "answer"}
        /\ sched'.work = Tail(sched.work)
        /\ sched'.at = "record"
    BY <2>1 DEF Idle
  <2> QED
    BY <1>1, <1>3, <2>2, WorkLeft
<1> QED
  BY <1>2, <1>3

\* A write of one record keeps the others.
LEMMA RecordWritten ==
  ASSUME DOMAIN record = Package, NEW c \in Package, NEW r,
         record' = [record EXCEPT ![c] = r]
  PROVE  /\ DOMAIN record' = Package
         /\ record'[c] = r
         /\ \A p \in Package : p # c => record'[p] = record[p]
  OBVIOUS

\* An accepted package stays accepted when a record is written.
LEMMA KnownGrows ==
  ASSUME Types, NEW c \in Package, NEW r, IsRecord(r),
         record' = [record EXCEPT ![c] = r]
  PROVE  /\ Known \subseteq Known'
         /\ \A p \in Known' : IsRecord(record'[p])
<1>1. /\ record'[c] = r
      /\ \A p \in Package : p # c => record'[p] = record[p]
  BY RecordWritten DEF Types
<1>2. r # Missing
  BY DEF IsRecord, Missing, Fields
<1> QED
  BY <1>1, <1>2 DEF Known, Types

\* What one record says is true.
TrueOf(p, r) ==
    /\ r.state \in {"Delivered", "ImporterAcked"} => p \in ingested
    /\ r.state = "ImporterAcked" => p \in acked
    /\ r.state = "Failed" =>
          \/ p \in Refused
          \/ p \in lost
          \/ Link[p].max_attempts # 0 /\ r.attempts > Link[p].max_attempts

\* A step that saves the current record and goes on keeps the invariant if what
\* it saves is true.
LEMMA FinishIInv ==
  ASSUME IInv, sched.at # "idle", NEW r, IsRecord(r), TrueOf(current, r),
         record' = [record EXCEPT ![current] = r], NextRecord,
         UNCHANGED <<queue, importerVars>>
  PROVE  IInv'
<1>1. PICK c : c = current
  OBVIOUS
<1>2. c \in Package /\ Types
  BY <1>1, CurrentKnown DEF IInv
<1>3. /\ DOMAIN record' = Package
      /\ record'[c] = r
      /\ \A p \in Package : p # c => record'[p] = record[p]
  BY <1>1, <1>2, RecordWritten DEF Types
<1>4. Known \subseteq Known' /\ \A p \in Known' : IsRecord(record'[p])
  BY <1>1, <1>2, KnownGrows
<1>5. UNCHANGED <<queue, importer, ingested, acked, lost>>
  BY DEF importerVars
<1>6. /\ DOMAIN sched' = {"at", "work", "read", "started", "answer"}
      /\ sched'.work \in Seq(Known)
      /\ sched'.at \in {"idle", "record"}
      /\ sched'.at # "idle" => sched'.work # <<>>
  BY <1>2, NextRecordSched
<1>7. sched'.work \in Seq(Known') /\ queue' \in Seq(Known')
  BY <1>2, <1>4, <1>5, <1>6, SeqGrows DEF Types
<1>8. Types'
  <2>1. \A p \in Known' : IsRecord(record[p])'
    BY <1>4 DEF IsRecord
  <2> QED
    BY <1>2, <1>3, <1>5, <1>6, <1>7, <2>1 DEF Types
<1>9. RequestOK'
  BY <1>6 DEF RequestOK
<1>10. HistoryOK'
  BY <1>5 DEF IInv, HistoryOK
<1>11. RecordIsTrue'
  <2>1. TrueOf(c, r)
    BY <1>1
  <2> QED
    BY <1>3, <1>5, <2>1 DEF IInv, RecordIsTrue, TrueOf
<1> QED
  BY <1>8, <1>9, <1>10, <1>11 DEF IInv

\* Setting fields of the current record, the counter and the time of acceptance
\* excepted, keeps it a record.
LEMMA UpdateKeepsShape ==
  ASSUME NEW r, IsRecord(r), NEW f,
         "attempts" \notin DOMAIN f,
         "state" \in DOMAIN f => f.state \in State
  PROVE  /\ IsRecord(Updated(r, f))
         /\ Updated(r, f).attempts = r.attempts
         /\ Updated(r, f).state = IF "state" \in DOMAIN f THEN f.state ELSE r.state
<1>1. /\ DOMAIN Updated(r, f) = Fields
      /\ \A x \in Fields : Updated(r, f)[x] = IF x \in DOMAIN f THEN f[x] ELSE r[x]
  BY UpdatedFields DEF IsRecord
<1>2. "attempts" \in Fields /\ "state" \in Fields
  BY DEF Fields
<1> QED
  BY <1>1, <1>2 DEF IsRecord

\* schedule_record, DeferDelivery and PollAgain: the new state claims nothing new.
LEMMA PostponeIInv ==
  ASSUME IInv, schedule_record \/ DeferDelivery \/ PollAgain
  PROVE  IInv'
<1>1. CASE schedule_record
  <2> DEFINE due == saturating_add(record[current].accepted_at, Link[current].base_one_way_delay)
             at == deferred(current, due)
             f == [state |-> IF at = due THEN "Scheduled" ELSE "BlockedByBlackout",
                   next_delivery_at |-> at]
             r == Updated(record[current], f)
  <2>1. /\ sched.at # "idle"
        /\ record' = [record EXCEPT ![current] = r]
        /\ NextRecord
        /\ UNCHANGED <<queue, importerVars>>
    BY <1>1 DEF schedule_record, Update
  <2>2. /\ "attempts" \notin DOMAIN f
        /\ "state" \in DOMAIN f
        /\ f.state \in {"Scheduled", "BlockedByBlackout"}
    OBVIOUS
  <2> HIDE DEF f
  <2>3. IsRecord(record[current])
    BY <2>1, CurrentKnown DEF IInv
  <2>4. IsRecord(r) /\ r.state \in {"Scheduled", "BlockedByBlackout"}
    BY <2>2, <2>3, UpdateKeepsShape DEF State, Deliverable
  <2> HIDE DEF r
  <2>5. TrueOf(current, r)
    BY <2>4 DEF TrueOf
  <2> QED
    BY <2>1, <2>4, <2>5, FinishIInv
<1>2. CASE DeferDelivery
  <2> DEFINE f == [state |-> "BlockedByBlackout", next_delivery_at |-> BlockedUntil]
             r == Updated(record[current], f)
  <2>1. /\ sched.at # "idle"
        /\ record' = [record EXCEPT ![current] = r]
        /\ NextRecord
        /\ UNCHANGED <<queue, importerVars>>
    BY <1>2 DEF DeferDelivery, Due, Update
  <2>2. /\ "attempts" \notin DOMAIN f
        /\ "state" \in DOMAIN f
        /\ f.state = "BlockedByBlackout"
    OBVIOUS
  <2> HIDE DEF f
  <2>3. IsRecord(record[current])
    BY <2>1, CurrentKnown DEF IInv
  <2>4. IsRecord(r) /\ r.state = "BlockedByBlackout"
    BY <2>2, <2>3, UpdateKeepsShape DEF State, Deliverable
  <2> HIDE DEF r
  <2>5. TrueOf(current, r)
    BY <2>4 DEF TrueOf
  <2> QED
    BY <2>1, <2>4, <2>5, FinishIInv
<1>3. CASE PollAgain
  <2> DEFINE f == [next_ack_poll_at |-> saturating_add(sched.started, AckPoll)]
             r == Updated(record[current], f)
  <2>1. /\ sched.at = "polled"
        /\ record' = [record EXCEPT ![current] = r]
        /\ NextRecord
        /\ UNCHANGED <<queue, importerVars>>
    BY <1>3 DEF PollAgain, Finish, Update
  <2>2. "attempts" \notin DOMAIN f /\ "state" \notin DOMAIN f
    OBVIOUS
  <2> HIDE DEF f
  <2>3. /\ current \in Package
        /\ IsRecord(record[current])
        /\ record[current].state = "Delivered"
    BY <2>1, CurrentKnown DEF IInv, RequestOK
  <2>4. IsRecord(r) /\ r.state = "Delivered"
    BY <2>2, <2>3, UpdateKeepsShape
  <2> HIDE DEF r
  <2>5. TrueOf(current, r)
    BY <2>3, <2>4 DEF TrueOf, IInv, RecordIsTrue
  <2> QED
    BY <2>1, <2>4, <2>5, FinishIInv
<1> QED
  BY <1>1, <1>2, <1>3

\* The answers that settle a package or report its delivery are justified.
LEMMA OutcomeIInv ==
  ASSUME IInv,
         DeliveryAcked \/ DeliveryAccepted \/ DeliveryRefused \/ PollAcked \/ PollRefused
  PROVE  IInv'
<1>1. PICK f : Finish(f) /\ "attempts" \notin DOMAIN f /\ "state" \in DOMAIN f
               /\ \/ f.state = "ImporterAcked" /\ sched.answer = "terminal"
                  \/ f.state = "Delivered" /\ sched.answer = "pending"
                  \/ f.state = "Failed" /\ sched.answer = "client error"
  <2>1. CASE DeliveryAcked \/ PollAcked
    <3> DEFINE f == [state |-> "ImporterAcked", next_ack_poll_at |-> None]
    <3>1. Finish(f) /\ sched.answer = "terminal"
      BY <2>1 DEF DeliveryAcked, PollAcked
    <3>2. "attempts" \notin DOMAIN f /\ "state" \in DOMAIN f /\ f.state = "ImporterAcked"
      OBVIOUS
    <3> QED
      BY <3>1, <3>2
  <2>2. CASE DeliveryAccepted
    <3> DEFINE f == [state |-> "Delivered", next_delivery_at |-> None,
                     next_ack_poll_at |-> saturating_add(sched.started, AckPoll)]
    <3>1. Finish(f) /\ sched.answer = "pending"
      BY <2>2 DEF DeliveryAccepted
    <3>2. "attempts" \notin DOMAIN f /\ "state" \in DOMAIN f /\ f.state = "Delivered"
      OBVIOUS
    <3> QED
      BY <3>1, <3>2
  <2>3. CASE DeliveryRefused
    <3> DEFINE f == [state |-> "Failed", next_delivery_at |-> None, next_ack_poll_at |-> None]
    <3>1. Finish(f) /\ sched.answer = "client error"
      BY <2>3 DEF DeliveryRefused
    <3>2. "attempts" \notin DOMAIN f /\ "state" \in DOMAIN f /\ f.state = "Failed"
      OBVIOUS
    <3> QED
      BY <3>1, <3>2
  <2>4. CASE PollRefused
    <3> DEFINE f == [state |-> "Failed", next_ack_poll_at |-> None]
    <3>1. Finish(f) /\ sched.answer = "client error"
      BY <2>4 DEF PollRefused
    <3>2. "attempts" \notin DOMAIN f /\ "state" \in DOMAIN f /\ f.state = "Failed"
      OBVIOUS
    <3> QED
      BY <3>1, <3>2
  <2> QED
    BY <2>1, <2>2, <2>3, <2>4
<1>2. sched.at \in {"answer", "polled"}
  BY DEF DeliveryAcked, DeliveryAccepted, DeliveryRefused, PollAcked, PollRefused
<1> DEFINE r == Updated(record[current], f)
<1>3. /\ record' = [record EXCEPT ![current] = r]
      /\ NextRecord
      /\ UNCHANGED <<queue, importerVars>>
  BY <1>1 DEF Finish, Update
<1>4. IsRecord(record[current])
  BY <1>2, CurrentKnown DEF IInv
<1>5. IsRecord(r) /\ r.state = f.state
  BY <1>1, <1>4, UpdateKeepsShape DEF State, Settled
<1> HIDE DEF r
<1>6. TrueOf(current, r)
  BY <1>1, <1>2, <1>5 DEF TrueOf, IInv, RequestOK
<1> QED
  BY <1>2, <1>3, <1>5, <1>6, FinishIInv

\* schedule_retry gives up only when the saved counter is past the limit.
LEMMA RetryIInv ==
  ASSUME IInv, schedule_retry
  PROVE  IInv'
<1> DEFINE due == saturating_add(sched.started, retry_delay(current, sched.read.attempts))
           at == deferred(current, due)
           exhausted == Exhausted(current, sched.read.attempts)
           g == [state |-> "Failed", next_delivery_at |-> None, next_ack_poll_at |-> None]
           h == [state |-> IF at = due THEN "Retrying" ELSE "BlockedByBlackout",
                 next_delivery_at |-> at, next_ack_poll_at |-> None]
<1>1. sched.at = "answer" /\ Finish(IF exhausted THEN g ELSE h)
  BY DEF schedule_retry
<1>2. /\ "attempts" \notin DOMAIN g /\ "state" \in DOMAIN g /\ g.state = "Failed"
      /\ "attempts" \notin DOMAIN h /\ "state" \in DOMAIN h
      /\ h.state \in {"Retrying", "BlockedByBlackout"}
  OBVIOUS
<1> HIDE DEF g, h, exhausted
<1>3. PICK f : Finish(f) /\ "attempts" \notin DOMAIN f /\ "state" \in DOMAIN f
               /\ \/ exhausted /\ f.state = "Failed"
                  \/ f.state \in {"Retrying", "BlockedByBlackout"}
  <2>1. CASE exhausted
    BY <1>1, <1>2, <2>1
  <2>2. CASE ~ exhausted
    BY <1>1, <1>2, <2>2
  <2> QED
    BY <2>1, <2>2
<1> DEFINE r == Updated(record[current], f)
<1>4. /\ record' = [record EXCEPT ![current] = r]
      /\ NextRecord
      /\ UNCHANGED <<queue, importerVars>>
  BY <1>3 DEF Finish, Update
<1>5. current \in Package /\ IsRecord(record[current])
  BY <1>1, CurrentKnown DEF IInv
<1>6. IsRecord(r) /\ r.state = f.state /\ r.attempts = record[current].attempts
  BY <1>3, <1>5, UpdateKeepsShape DEF State, Settled, Deliverable
<1>7. /\ sched.read.attempts \in Nat
      /\ record[current].attempts = count(sched.read.attempts)
  BY <1>1 DEF IInv, RequestOK
<1>8. exhausted => Link[current].max_attempts # 0 /\ r.attempts > Link[current].max_attempts
  BY <1>5, <1>6, <1>7, CountPasses DEF exhausted
<1> HIDE DEF r
<1>9. TrueOf(current, r)
  BY <1>3, <1>6, <1>8 DEF TrueOf
<1> QED
  BY <1>1, <1>4, <1>6, <1>9, FinishIInv

-----------------------------------------------------------------------------
(* Requests *)

\* A step that leaves the records alone.
LEMMA RecordsKept ==
  ASSUME IInv, UNCHANGED <<queue, record>>,
         ingested \subseteq ingested', acked \subseteq acked', lost \subseteq lost',
         DOMAIN importer' = Package, HistoryOK',
         DOMAIN sched' = {"at", "work", "read", "started", "answer"},
         sched'.work \in Seq(Known),
         sched'.at \in {"idle", "record", "post", "answer", "polled"},
         sched'.at # "idle" => sched'.work # <<>>,
         RequestOK'
  PROVE  IInv'
<1>1. Known' = Known
  BY DEF Known
<1>2. \A p \in Known' : IsRecord(record[p])'
  BY <1>1 DEF IInv, Types, IsRecord
<1>3. Types'
  BY <1>1, <1>2 DEF IInv, Types
<1>4. RecordIsTrue'
  BY DEF IInv, RecordIsTrue
<1> QED
  BY <1>3, <1>4 DEF IInv

\* The start and the end of a tick, and packages that are not due.
LEMMA TickIInv ==
  ASSUME IInv, scheduler_tick \/ NotDue \/ DeliveryGarbled
  PROVE  IInv'
<1>1. UNCHANGED <<queue, record, importer, ingested, acked, lost>>
  BY DEF scheduler_tick, NotDue, DeliveryGarbled, importerVars
<1>2. HistoryOK' /\ DOMAIN importer' = Package
  BY <1>1 DEF IInv, HistoryOK, Types
<1>3. /\ DOMAIN sched' = {"at", "work", "read", "started", "answer"}
      /\ sched'.work \in Seq(Known)
      /\ sched'.at \in {"idle", "record"}
      /\ sched'.at # "idle" => sched'.work # <<>>
  <2>1. CASE scheduler_tick
    <3>1. /\ queue # <<>> /\ queue \in Seq(Known)
          /\ sched' = [Idle EXCEPT !.at = "record", !.work = queue]
      BY <2>1 DEF scheduler_tick, IInv, Types
    <3> QED
      BY <3>1 DEF Idle
  <2>2. CASE NotDue
    BY <2>2, NextRecordSched DEF NotDue, IInv
  <2>3. CASE DeliveryGarbled
    <3>1. sched' = Idle
      BY <2>3 DEF DeliveryGarbled
    <3> QED
      BY <3>1 DEF Idle
  <2> QED
    BY <2>1, <2>2, <2>3
<1>4. RequestOK'
  BY <1>3 DEF RequestOK
<1> QED
  BY <1>1, <1>2, <1>3, <1>4, RecordsKept

\* attempt_delivery saves the attempt, then sends the request.
LEMMA AttemptIInv ==
  ASSUME IInv, attempt_delivery
  PROVE  IInv'
<1>1. PICK c : c = current
  OBVIOUS
<1> DEFINE n == count(record[c].attempts)
           f == [state |-> "InDelivery", attempts |-> n]
           r == Updated(record[c], f)
<1>2. /\ sched.at = "record"
      /\ record' = [record EXCEPT ![c] = r]
      /\ sched' = [sched EXCEPT !.at = "post", !.read = record[c], !.started = now]
      /\ UNCHANGED <<queue, importer, ingested, acked, lost>>
  BY <1>1 DEF attempt_delivery, Due, Update, importerVars
<1>3. c \in Package /\ IsRecord(record[c]) /\ Types
  BY <1>1, <1>2, CurrentKnown DEF IInv
<1>4. n \in Nat
  BY <1>3, CountPasses DEF IsRecord
<1>5. IsRecord(r) /\ r.state = "InDelivery" /\ r.attempts = n
  <2>1. DOMAIN f = {"state", "attempts"} /\ f.state = "InDelivery" /\ f.attempts = n
    OBVIOUS
  <2> HIDE DEF f, n
  <2>2. /\ DOMAIN r = Fields
        /\ \A x \in Fields : r[x] = IF x \in DOMAIN f THEN f[x] ELSE record[c][x]
    BY <1>3, UpdatedFields DEF IsRecord
  <2> QED
    BY <1>4, <2>1, <2>2 DEF IsRecord, Fields, State
<1> HIDE DEF r
<1>6. /\ DOMAIN record' = Package
      /\ record'[c] = r
      /\ \A p \in Package : p # c => record'[p] = record[p]
  BY <1>2, <1>3, RecordWritten DEF Types
<1>7. Known \subseteq Known' /\ \A p \in Known' : IsRecord(record'[p])
  BY <1>2, <1>3, <1>5, KnownGrows
<1>8. /\ DOMAIN sched' = {"at", "work", "read", "started", "answer"}
      /\ sched'.work = sched.work
      /\ sched'.at = "post"
      /\ sched'.read = record[c]
      /\ sched.work \in Seq(Known) /\ sched.work # <<>>
  BY <1>2, <1>3 DEF Types
<1>9. Types'
  <2>1. sched'.work \in Seq(Known') /\ queue' \in Seq(Known')
    BY <1>2, <1>3, <1>7, <1>8, SeqGrows DEF Types
  <2>2. \A p \in Known' : IsRecord(record[p])'
    BY <1>7 DEF IsRecord
  <2> QED
    BY <1>2, <1>3, <1>6, <1>8, <2>1, <2>2 DEF Types
<1>10. RequestOK'
  <2>1. current' = c
    BY <1>1, <1>8 DEF current
  <2>2. record[c].attempts \in Nat
    BY <1>3 DEF IsRecord
  <2> QED
    BY <1>5, <1>6, <1>8, <2>1, <2>2 DEF RequestOK, count
<1>11. HistoryOK'
  BY <1>2 DEF IInv, HistoryOK
<1>12. RecordIsTrue'
  BY <1>2, <1>5, <1>6 DEF IInv, RecordIsTrue
<1> QED
  BY <1>9, <1>10, <1>11, <1>12 DEF IInv

\* The importer that ingests a package keeps its histories right.
LEMMA IngestHistory ==
  ASSUME IInv, NEW c \in Package, Ingest(c)
  PROVE  /\ DOMAIN importer' = Package
         /\ HistoryOK'
         /\ ingested' = ingested \cup {c}
         /\ UNCHANGED <<acked, lost>>
<1>1. /\ importer' = [importer EXCEPT ![c] = IF @ = "None" THEN "Received" ELSE @]
      /\ ingested' = ingested \cup {c}
      /\ UNCHANGED <<acked, lost>>
  BY DEF Ingest
<1>2. DOMAIN importer = Package /\ HistoryOK
  BY DEF IInv, Types
<1>3. /\ DOMAIN importer' = Package
      /\ importer'[c] = IF importer[c] = "None" THEN "Received" ELSE importer[c]
      /\ \A p \in Package : p # c => importer'[p] = importer[p]
  BY <1>1, <1>2
<1>4. HistoryOK'
  BY <1>1, <1>2, <1>3 DEF HistoryOK
<1> QED
  BY <1>1, <1>3, <1>4

\* The answer to a delivery: a receipt follows an ingestion, and a client error
\* a refusal.
LEMMA PostIInv ==
  ASSUME IInv, PostFails \/ PostRefused \/ PostArrives
  PROVE  IInv'
<1>1. PICK c : c = current
  OBVIOUS
<1>2. sched.at = "post" /\ UNCHANGED <<queue, record>>
  BY DEF PostFails, PostRefused, PostArrives, PostReply
<1>3. c \in Package /\ Types
  BY <1>1, <1>2, CurrentKnown DEF IInv
<1>4. PICK a : Answer(a)
  BY DEF PostFails, PostRefused, PostArrives, PostReply
<1>5. /\ DOMAIN sched' = {"at", "work", "read", "started", "answer"}
      /\ sched'.work = sched.work
      /\ sched'.at = "answer"
      /\ sched'.read = sched.read
      /\ sched'.answer = a
      /\ sched.work \in Seq(Known) /\ sched.work # <<>>
  BY <1>2, <1>3, <1>4 DEF Answer, Types
<1>6. /\ DOMAIN importer' = Package
      /\ HistoryOK'
      /\ ingested \subseteq ingested'
      /\ UNCHANGED <<acked, lost>>
  <2>1. CASE PostFails \/ PostRefused
    BY <1>3, <2>1 DEF PostFails, PostRefused, importerVars, IInv, HistoryOK, Types
  <2>2. CASE PostArrives
    BY <1>1, <1>3, <2>2, IngestHistory DEF PostArrives
  <2> QED
    BY <2>1, <2>2
<1>7. /\ a \in {"terminal", "pending"} => c \in ingested'
      /\ a = "terminal" => c \in acked
      /\ a = "client error" => c \in Refused
  <2>1. CASE PostFails
    BY <1>2, <1>5, <2>1 DEF PostFails, Answer, Types, IInv
  <2>2. CASE PostRefused
    BY <1>1, <1>2, <1>5, <2>2 DEF PostRefused, Answer, Types, IInv
  <2>3. CASE PostArrives
    <3>1. c \in ingested'
      BY <1>1, <1>3, <2>3, IngestHistory DEF PostArrives
    <3>2. Answer(Status(c)) \/ Answer("transient") \/ Answer("garbled")
      BY <1>1, <2>3 DEF PostArrives, PostReply
    <3>3. a \in {Status(c), "transient", "garbled"}
      BY <1>3, <1>5, <3>2 DEF Answer, Types
    <3>4. (Status(c) = "terminal" /\ c \in acked) \/ Status(c) = "pending"
      BY <1>3 DEF Status, IInv, HistoryOK
    <3> QED
      BY <3>1, <3>3, <3>4
  <2> QED
    BY <2>1, <2>2, <2>3
<1>8. RequestOK'
  <2>1. current' = c
    BY <1>1, <1>5 DEF current
  <2>2. /\ record[c].state = "InDelivery"
        /\ sched.read.attempts \in Nat
        /\ record[c].attempts = count(sched.read.attempts)
    BY <1>1, <1>2 DEF IInv, RequestOK
  <2> QED
    BY <1>2, <1>5, <1>6, <1>7, <2>1, <2>2 DEF RequestOK, count
<1> QED
  BY <1>2, <1>5, <1>6, <1>8, RecordsKept

\* The answer to a poll: the importer does not know a delivered package only
\* when it has lost it.
LEMMA PollIInv ==
  ASSUME IInv, Poll
  PROVE  IInv'
<1>1. PICK c : c = current
  OBVIOUS
<1>2. /\ sched.at = "record"
      /\ record[c].state = "Delivered"
      /\ UNCHANGED <<queue, record, importer, ingested, acked, lost>>
  BY <1>1 DEF Poll, importerVars
<1>3. PICK a \in {"transient", IF importer[c] # "None" THEN Status(c) ELSE "client error"} :
          sched' = [sched EXCEPT !.at = "polled", !.started = now, !.answer = a]
  BY <1>1 DEF Poll
<1>4. c \in Package /\ Types
  BY <1>1, <1>2, CurrentKnown DEF IInv
<1>5. /\ DOMAIN sched' = {"at", "work", "read", "started", "answer"}
      /\ sched'.work = sched.work
      /\ sched'.at = "polled"
      /\ sched'.answer = a
      /\ sched.work \in Seq(Known) /\ sched.work # <<>>
  BY <1>2, <1>3, <1>4 DEF Types
<1>6. c \in ingested
  BY <1>2, <1>4 DEF IInv, RecordIsTrue
<1>7. a = "terminal" => c \in acked
  BY <1>3, <1>4 DEF Status, IInv, HistoryOK
<1>8. a = "client error" => c \in lost
  <2>1. Status(c) # "client error"
    BY DEF Status
  <2> QED
    BY <1>3, <1>4, <1>6, <2>1 DEF IInv, HistoryOK
<1>9. RequestOK'
  <2>1. current' = c
    BY <1>1, <1>5 DEF current
  <2> QED
    BY <1>2, <1>5, <1>6, <1>7, <1>8, <2>1 DEF RequestOK
<1>10. HistoryOK' /\ DOMAIN importer' = Package
  BY <1>2, <1>4 DEF IInv, HistoryOK, Types
<1> QED
  BY <1>2, <1>5, <1>9, <1>10, RecordsKept

-----------------------------------------------------------------------------
(* The environment *)

\* Time, and what the importer does on its own.
LEMMA EnvironmentIInv ==
  ASSUME IInv, ImporterStep \/ Tick \/ UNCHANGED vars
  PROVE  IInv'
<1>1. UNCHANGED <<queue, record, sched, ingested>>
  BY DEF ImporterStep, Tick, vars, importerVars
<1>2. Types
  BY DEF IInv
<1>3. /\ DOMAIN importer' = Package
      /\ HistoryOK'
      /\ acked \subseteq acked'
      /\ lost \subseteq lost'
  <2>1. CASE ImporterStep
    <3>1. /\ importer' \in [Package -> {"None", "Received", "Acked"}]
          /\ acked' = acked \cup {p \in Package : importer'[p] = "Acked"}
          /\ lost' = lost \cup {p \in Package : Falls(p)}
      BY <2>1 DEF ImporterStep
    <3>2. ASSUME NEW p \in Package, p \in ingested, importer'[p] = "None"
          PROVE  p \in lost'
      BY <3>1, <3>2 DEF Falls, IInv, HistoryOK
    <3>3. HistoryOK'
      BY <1>1, <3>1, <3>2 DEF HistoryOK
    <3> QED
      BY <3>1, <3>3
  <2>2. CASE Tick \/ UNCHANGED vars
    <3>1. UNCHANGED <<importer, acked, lost>>
      BY <2>2 DEF Tick, vars, importerVars
    <3> QED
      BY <1>1, <1>2, <3>1 DEF IInv, HistoryOK, Types
  <2> QED
    BY <2>1, <2>2
<1>4. RequestOK'
  BY <1>1, <1>3 DEF IInv, RequestOK, current, count
<1> QED
  BY <1>1, <1>2, <1>3, <1>4, RecordsKept DEF Types

\* submit_package adds the record and the queue entry together.
LEMMA SubmitIInv ==
  ASSUME IInv, NEW c \in Package, submit_package(c)
  PROVE  IInv'
<1> DEFINE r == [state |-> "Queued", accepted_at |-> now, next_delivery_at |-> None,
                 next_ack_poll_at |-> None, attempts |-> 0]
<1>1. /\ record[c] = Missing
      /\ record' = [record EXCEPT ![c] = r]
      /\ queue' = Append(queue, c)
      /\ UNCHANGED <<sched, importer, ingested, acked, lost>>
  BY DEF submit_package, accept_envelope, importerVars
<1>2. IsRecord(r) /\ r.state = "Queued" /\ r # Missing
  BY DEF IsRecord, Fields, State, Missing
<1> HIDE DEF r
<1>3. Types
  BY DEF IInv
<1>4. /\ DOMAIN record' = Package
      /\ record'[c] = r
      /\ \A p \in Package : p # c => record'[p] = record[p]
  BY <1>1, <1>3, RecordWritten DEF Types
<1>5. Known \subseteq Known' /\ \A p \in Known' : IsRecord(record'[p])
  BY <1>1, <1>2, <1>3, KnownGrows
<1>6. c \in Known' /\ c \notin Known
  BY <1>1, <1>2, <1>4 DEF Known
<1>7. Types'
  <2>1. queue \in Seq(Known') /\ sched'.work \in Seq(Known')
    BY <1>1, <1>3, <1>5, SeqGrows DEF Types
  <2>2. queue' \in Seq(Known')
    BY <1>1, <1>6, <2>1
  <2>3. \A p \in Known' : IsRecord(record[p])'
    BY <1>5 DEF IsRecord
  <2> QED
    BY <1>1, <1>3, <1>4, <2>1, <2>2, <2>3 DEF Types
<1>8. RequestOK'
  <2>1. CASE sched.at = "idle"
    BY <1>1, <2>1 DEF RequestOK
  <2>2. CASE sched.at # "idle"
    <3>1. PICK k : k = current
      OBVIOUS
    <3>2. k \in Package /\ k # c
      BY <1>3, <1>6, <2>2, <3>1, CurrentKnown
    <3>3. current' = k /\ record'[k] = record[k]
      BY <1>1, <1>4, <3>1, <3>2 DEF current
    <3> QED
      BY <1>1, <3>1, <3>3 DEF IInv, RequestOK, count
  <2> QED
    BY <2>1, <2>2
<1>9. HistoryOK'
  BY <1>1 DEF IInv, HistoryOK
<1>10. RecordIsTrue'
  BY <1>1, <1>2, <1>4 DEF IInv, RecordIsTrue
<1> QED
  BY <1>7, <1>8, <1>9, <1>10 DEF IInv

\* normalize_restart_state reopens only deliveries that were under way.
LEMMA NormalizeKeeps ==
  ASSUME NEW r, IsRecord(r) \/ r = Missing
  PROVE  /\ normalize(Missing) = Missing
         /\ IsRecord(r) =>
               /\ IsRecord(normalize(r))
               /\ normalize(r).attempts = r.attempts
               /\ \/ normalize(r).state = r.state
                  \/ r.state = "InDelivery" /\ normalize(r).state = "Retrying"
<1>1. normalize(Missing) = Missing
  BY DEF normalize, Missing
<1>2. ASSUME IsRecord(r)
      PROVE  /\ IsRecord(normalize(r))
             /\ normalize(r).attempts = r.attempts
             /\ \/ normalize(r).state = r.state
                \/ r.state = "InDelivery" /\ normalize(r).state = "Retrying"
  BY <1>2 DEF normalize, IsRecord, Fields, State, Deliverable
<1> QED
  BY <1>1, <1>2

\* A restart keeps every record true, whether or not the request in flight
\* arrives.
LEMMA RestartIInv ==
  ASSUME IInv, Restart
  PROVE  IInv'
<1>1. /\ record' = [p \in Package |-> normalize(record[p])]
      /\ sched' = Idle
      /\ queue' = queue
  BY DEF Restart, Reload
<1>2. Types
  BY DEF IInv
<1>3. /\ DOMAIN importer' = Package
      /\ HistoryOK'
      /\ ingested \subseteq ingested'
      /\ UNCHANGED <<acked, lost>>
  <2>1. CASE sched.at = "post" /\ Ingest(current)
    <3>1. PICK c : c = current
      OBVIOUS
    <3>2. c \in Package /\ Ingest(c)
      BY <1>2, <2>1, <3>1, CurrentKnown
    <3> QED
      BY <3>2, IngestHistory
  <2>2. CASE UNCHANGED importerVars
    BY <1>2, <2>2 DEF importerVars, IInv, HistoryOK, Types
  <2> QED
    BY <2>1, <2>2 DEF Restart
<1>4. \A p \in Package :
          /\ record[p] = Missing => record'[p] = Missing
          /\ record[p] # Missing =>
                /\ IsRecord(record[p])
                /\ IsRecord(record'[p])
                /\ record'[p].attempts = record[p].attempts
                /\ \/ record'[p].state = record[p].state
                   \/ record[p].state = "InDelivery" /\ record'[p].state = "Retrying"
  <2>1. ASSUME NEW p \in Package, record[p] # Missing
        PROVE  /\ IsRecord(record[p])
               /\ IsRecord(record'[p])
               /\ record'[p].attempts = record[p].attempts
               /\ \/ record'[p].state = record[p].state
                  \/ record[p].state = "InDelivery" /\ record'[p].state = "Retrying"
    <3>1. IsRecord(record[p])
      BY <1>2, <2>1 DEF Types, Known
    <3>2. record'[p] = normalize(record[p])
      BY <1>1
    <3> QED
      BY <3>1, <3>2, NormalizeKeeps
  <2>2. ASSUME NEW p \in Package, record[p] = Missing
        PROVE  record'[p] = Missing
    <3>1. record'[p] = normalize(Missing)
      BY <1>1, <2>2
    <3> QED
      BY <3>1, NormalizeKeeps
  <2> QED
    BY <2>1, <2>2
<1>5. Known' = Known
  <2>1. \A r : IsRecord(r) => r # Missing
    BY DEF IsRecord, Missing, Fields
  <2> QED
    BY <1>4, <2>1 DEF Known
<1>6. Types'
  <2>1. \A p \in Known' : IsRecord(record[p])'
    BY <1>4, <1>5 DEF Known, IsRecord
  <2>2. <<>> \in Seq(Known)
    OBVIOUS
  <2> QED
    BY <1>1, <1>2, <1>3, <1>5, <2>1, <2>2 DEF Types, Idle
<1>7. RequestOK'
  BY <1>1 DEF RequestOK, Idle
<1>8. RecordIsTrue'
  BY <1>3, <1>4 DEF IInv, RecordIsTrue, Missing
<1> QED
  BY <1>3, <1>6, <1>7, <1>8 DEF IInv

\* The relay starts without packages.
LEMMA InitIInv == Init => IInv
<1> SUFFICES ASSUME Init PROVE IInv
  OBVIOUS
<1>1. \A p \in Package : record[p] = Missing /\ importer[p] = "None"
  BY DEF Init
<1>2. Known = {}
  BY <1>1 DEF Known
<1>3. Types
  BY <1>2 DEF Init, Types, Idle
<1>4. RequestOK
  BY DEF Init, RequestOK, Idle
<1>5. HistoryOK
  BY <1>1 DEF Init, HistoryOK
<1>6. RecordIsTrue
  BY <1>1 DEF RecordIsTrue, Missing
<1> QED
  BY <1>3, <1>4, <1>5, <1>6 DEF IInv

\* Every step keeps the invariant.
LEMMA NextIInv == IInv /\ [Next]_vars => IInv'
  BY SubmitIInv, PostponeIInv, OutcomeIInv, RetryIInv, TickIInv, AttemptIInv, PostIInv,
     PollIInv, EnvironmentIInv, RestartIInv DEF Next, SchedulerStep

-----------------------------------------------------------------------------
(* Settled packages *)

SettledStep == \A p \in Package : record[p].state \in Settled => record[p]'.state = record[p].state

\* An update of a package that is still open leaves the settled ones alone.
LEMMA OpenUpdated ==
  ASSUME Types, sched.at # "idle", record[current].state \notin Settled,
         NEW f, Update(f)
  PROVE  SettledStep
<1>1. PICK c : c = current
  OBVIOUS
<1>2. \A p \in Package : p # c => record'[p] = record[p]
  BY <1>1 DEF Update, Types
<1> QED
  BY <1>1, <1>2 DEF SettledStep

\* The scheduler updates a record only while the package is open: it tests the
\* state first, and what it saved before a request is still there after it.
LEMMA SchedulerSettled ==
  ASSUME IInv, SchedulerStep
  PROVE  SettledStep
<1>1. Types /\ RequestOK
  BY DEF IInv
<1>2. CASE schedule_record \/ DeferDelivery \/ attempt_delivery
  <2>1. PICK f : Update(f)
    BY <1>2 DEF schedule_record, DeferDelivery, attempt_delivery
  <2>2. sched.at # "idle" /\ record[current].state \notin Settled
    BY <1>2 DEF schedule_record, DeferDelivery, attempt_delivery, Due, Deliverable, Settled
  <2> QED
    BY <1>1, <2>1, <2>2, OpenUpdated
<1>3. CASE \/ DeliveryAcked \/ DeliveryAccepted \/ DeliveryRefused \/ schedule_retry
           \/ PollAcked \/ PollAgain \/ PollRefused
  <2>1. PICK f : Finish(f)
    BY <1>3 DEF DeliveryAcked, DeliveryAccepted, DeliveryRefused, schedule_retry,
                PollAcked, PollAgain, PollRefused
  <2>2. Update(f)
    BY <2>1 DEF Finish
  <2>3. sched.at \in {"answer", "polled"}
    BY <1>3 DEF DeliveryAcked, DeliveryAccepted, DeliveryRefused, schedule_retry,
                PollAcked, PollAgain, PollRefused
  <2>4. record[current].state \in {"InDelivery", "Delivered"}
    BY <1>1, <2>3 DEF RequestOK
  <2>5. sched.at # "idle" /\ record[current].state \notin Settled
    BY <2>3, <2>4 DEF Settled
  <2> QED
    BY <1>1, <2>2, <2>5, OpenUpdated
<1>4. CASE \/ scheduler_tick \/ NotDue \/ PostFails \/ PostRefused \/ PostArrives
           \/ DeliveryGarbled \/ Poll
  <2>1. record' = record
    BY <1>4 DEF scheduler_tick, NotDue, PostFails, PostRefused, PostArrives, PostReply,
                DeliveryGarbled, Poll
  <2> QED
    BY <2>1 DEF SettledStep
<1> QED
  BY <1>2, <1>3, <1>4 DEF SchedulerStep

\* No step reopens a settled package.
LEMMA NextSettled ==
  ASSUME IInv, [Next]_vars
  PROVE  SettledStep
<1>1. ASSUME NEW c \in Package, submit_package(c)
      PROVE  SettledStep
  <2>1. record[c].state \notin Settled
    BY <1>1 DEF submit_package, Missing, Settled
  <2>2. \A p \in Package : p # c => record'[p] = record[p]
    BY <1>1 DEF submit_package, accept_envelope, IInv, Types
  <2> QED
    BY <2>1, <2>2 DEF SettledStep
<1>2. CASE Restart
  <2>1. ASSUME NEW p \in Package, record[p].state \in Settled
        PROVE  record'[p] = record[p]
    <3>1. record'[p] = normalize(record[p])
      BY <1>2 DEF Restart, Reload
    <3>2. record[p].state # "InDelivery" /\ record[p].state # "Delivered"
      BY <2>1 DEF Settled
    <3> QED
      BY <3>1, <3>2 DEF normalize
  <2> QED
    BY <2>1 DEF SettledStep
<1>3. CASE ImporterStep \/ Tick \/ UNCHANGED vars
  <2>1. record' = record
    BY <1>3 DEF ImporterStep, Tick, vars
  <2> QED
    BY <2>1 DEF SettledStep
<1> QED
  BY <1>1, <1>2, <1>3, SchedulerSettled DEF Next

-----------------------------------------------------------------------------
(* Theorems *)

\* The inductive invariant holds in every state of the relay.
THEOREM RelayInvariant == Spec => []IInv
<1>1. Init => IInv
  BY InitIInv
<1>2. IInv /\ [Next]_vars => IInv'
  BY NextIInv
<1> QED
  BY <1>1, <1>2, PTL DEF Spec

\* Whatever answers are lost and however often the relay is restarted, a record
\* that attempt_delivery, poll_importer_status or schedule_retry has saved as
\* delivered, acknowledged or failed is true.
THEOREM RecordsAreTrue == Spec => []RecordIsTrue
<1>1. IInv => RecordIsTrue
  BY DEF IInv
<1> QED
  BY <1>1, RelayInvariant, PTL

\* Neither a late answer nor a restart reopens a package that is acknowledged or
\* given up: normalize_restart_state and every save of scheduler_tick leave it.
THEOREM SettledStays == Spec => SettledIsFinal
<1>1. IInv /\ [Next]_vars => SettledStep
  BY NextSettled
<1>2. SettledStep => [SettledStep]_vars
  OBVIOUS
<1> QED
  BY <1>1, <1>2, RelayInvariant, PTL DEF Spec, SettledIsFinal, SettledStep

-----------------------------------------------------------------------------
(* Blackouts: what next_delivery_after computes *)

\* A set of numbers that is not empty has a smallest one.
LEMMA Smallest ==
  ASSUME NEW S, S \subseteq Nat, S # {}
  PROVE  \E n \in S : \A m \in S : n <= m
<1>1. PICK R : R = OpToRel(<, Nat)
  BY Zenon
<1>2. IsWellFoundedOn(R, Nat)
  BY <1>1, NatLessThanWellFounded
<1>3. PICK n \in S : \A m \in S : ~ (<<m, n>> \in R)
  BY <1>2, WFMin, Zenon
<1>4. \A m \in Nat : m < n => <<m, n>> \in R
  BY <1>1 DEF OpToRel
<1>5. \A m \in S : ~ (m < n)
  BY <1>3, <1>4, Zenon
<1> QED
  BY <1>5

\* The candidate after k windows of a pass, when g has the candidates before.
Moved(g, windows, t, k) ==
    IF k = 0 THEN t ELSE IF inside(windows[k], g[k - 1]) THEN windows[k].end ELSE g[k - 1]

IsPass(g, windows, t, n) == g = [k \in 0 .. n |-> Moved(g, windows, t, k)]

\* The candidates of a pass are well defined.
LEMMA PassExists ==
  ASSUME NEW windows, NEW t, NEW n \in Nat
  PROVE  \E g : IsPass(g, windows, t, n)
<1> DEFINE Bad == {m \in Nat : ~ \E g : IsPass(g, windows, t, m)}
<1>1. SUFFICES ASSUME Bad # {} PROVE FALSE
  BY Zenon
<1>2. PICK m \in Bad : \A j \in Bad : m <= j
  BY <1>1, Smallest
<1>3. m \in Nat /\ ~ \E g : IsPass(g, windows, t, m)
  BY <1>2
<1>4. CASE m = 0
  <2>1. PICK g : g = [j \in 0 .. 0 |-> t]
    BY Zenon
  <2>2. \A j \in 0 .. 0 : j = 0
    OBVIOUS
  <2>3. g = [j \in 0 .. 0 |-> Moved(g, windows, t, j)]
    BY <2>1, <2>2 DEF Moved
  <2> QED
    BY <1>3, <1>4, <2>3 DEF IsPass
<1>5. CASE m # 0
  <2>1. m - 1 \in Nat /\ m - 1 \notin Bad
    BY <1>2, <1>3, <1>5
  <2>2. PICK g : IsPass(g, windows, t, m - 1)
    BY <2>1
  <2> HIDE DEF Bad
  <2>3. PICK h : h = [j \in 0 .. m |-> Moved(g, windows, t, j)]
    BY Zenon
  <2>4. \A j \in 0 .. m - 1 : h[j] = g[j]
    BY <1>3, <2>2, <2>3 DEF IsPass
  <2>5. \A j \in 0 .. m : j # 0 => j - 1 \in 0 .. m - 1
    BY <1>3
  <2>6. \A j \in 0 .. m : Moved(g, windows, t, j) = Moved(h, windows, t, j)
    BY <2>4, <2>5 DEF Moved
  <2>7. IsPass(h, windows, t, m)
    BY <2>3, <2>6 DEF IsPass
  <2> QED
    BY <1>3, <2>7
<1> QED
  BY <1>4, <1>5

\* Every instant from t on and before d is in a window.
Covered(windows, t, d) ==
    /\ d \in Time
    /\ t <= d
    /\ \A u \in t .. d - 1 : InBlackout(windows, u)

\* A pass moves the candidate over blacked out instants only, and leaves it
\* where it is only if no window has it.
LEMMA PassMoves ==
  ASSUME NEW windows \in Seq(Window), NEW t \in Time
  PROVE  /\ Covered(windows, t, one_pass(windows, t))
         /\ one_pass(windows, t) = t => ~ InBlackout(windows, t)
<1>0. Horizon \in Nat
  BY RelayAssumption
<1>1. PICK n \in Nat : n = Len(windows)
  OBVIOUS
<1>2. one_pass(windows, t) = (CHOOSE g : IsPass(g, windows, t, n))[n]
  BY <1>1 DEF one_pass, IsPass, Moved
<1>3. PICK g : g = CHOOSE h : IsPass(h, windows, t, n)
  BY Zenon
<1>4. IsPass(g, windows, t, n)
  BY <1>3, PassExists
<1>5. \A k \in 0 .. n : g[k] = Moved(g, windows, t, k)
  BY <1>4 DEF IsPass
<1>6. DOMAIN windows = 1 .. n
  BY <1>1
<1>7. \A k \in 1 .. n : /\ windows[k].start \in Time /\ windows[k].end \in Time
                        /\ windows[k].start < windows[k].end
  <2>1. \A k \in 1 .. n : windows[k] \in Window
    BY <1>6
  <2> QED
    BY <2>1 DEF Window
<1> DEFINE Good(k) == /\ Covered(windows, t, g[k])
                      /\ g[k] = t => \A j \in 1 .. k : ~ inside(windows[j], t)
           Bad == {k \in 0 .. n : ~ Good(k)}
<1>8. Good(0)
  <2>1. g[0] = t
    BY <1>5 DEF Moved
  <2>2. t .. t - 1 = {} /\ 1 .. 0 = {}
    BY <1>0 DEF Time
  <2>3. t <= t
    BY <1>0 DEF Time
  <2> QED
    BY <2>1, <2>2, <2>3 DEF Covered
<1>9. ASSUME NEW k \in 1 .. n, Good(k - 1)
      PROVE  Good(k)
  <2>1. PICK c : c = g[k - 1]
    BY Zenon
  <2>2. c \in Time /\ t <= c /\ \A u \in t .. c - 1 : InBlackout(windows, u)
    BY <1>9, <2>1 DEF Covered
  <2>3. g[k] = IF inside(windows[k], c) THEN windows[k].end ELSE c
    BY <1>5, <2>1 DEF Moved
  <2>4. c = t => \A j \in 1 .. k - 1 : ~ inside(windows[j], t)
    BY <1>9, <2>1
  <2>5. CASE inside(windows[k], c)
    <3>1. PICK d : d = windows[k].end
      BY Zenon
    <3>2. g[k] = d /\ d \in Time /\ c < d /\ windows[k].start <= c
      BY <1>7, <2>3, <2>5, <3>1 DEF inside
    <3>3. ASSUME NEW u \in t .. d - 1
          PROVE  InBlackout(windows, u)
      <4>1. CASE u < c
        BY <1>0, <2>2, <3>2, <4>1 DEF Time
      <4>2. CASE ~ u < c
        <5>1. windows[k].start <= u /\ u < windows[k].end
          BY <1>0, <1>7, <2>2, <3>1, <3>2, <4>2 DEF Time
        <5> QED
          BY <1>6, <5>1 DEF InBlackout, inside
      <4> QED
        BY <4>1, <4>2
    <3>4. t <= d /\ d # t
      BY <1>0, <2>2, <3>2 DEF Time
    <3> QED
      BY <3>2, <3>3, <3>4 DEF Covered
  <2>6. CASE ~ inside(windows[k], c)
    <3>1. g[k] = c
      BY <2>3, <2>6
    <3>2. ASSUME c = t, NEW j \in 1 .. k
          PROVE  ~ inside(windows[j], t)
      <4>1. j = k \/ j \in 1 .. k - 1
        OBVIOUS
      <4> QED
        BY <2>4, <2>6, <3>2, <4>1
    <3> QED
      BY <2>2, <3>1, <3>2 DEF Covered
  <2> QED
    BY <2>5, <2>6
<1> HIDE DEF Good
<1>10. Bad = {}
  <2>1. SUFFICES ASSUME Bad # {} PROVE FALSE
    OBVIOUS
  <2>2. Bad \subseteq Nat
    OBVIOUS
  <2>3. PICK m \in Bad : \A j \in Bad : m <= j
    BY <2>1, <2>2, Smallest
  <2>4. m \in 0 .. n /\ ~ Good(m)
    BY <2>3
  <2>5. m # 0
    BY <1>8, <2>4
  <2>6. m - 1 \in 0 .. n /\ m \in 1 .. n
    BY <2>4, <2>5
  <2>7. Good(m - 1)
    BY <2>3, <2>6
  <2> QED
    BY <1>9, <2>4, <2>6, <2>7
<1>11. Good(n)
  BY <1>10
<1> QED
  BY <1>2, <1>3, <1>6, <1>11 DEF Good, InBlackout

\* Where the passes settle from c on, when h has it for later candidates.
SettledAt(h, windows, c) == IF one_pass(windows, c) = c THEN c ELSE h[one_pass(windows, c)]

IsSettle(h, windows, lo) == h = [c \in lo .. Horizon |-> SettledAt(h, windows, c)]

\* The passes end: each one that moves the candidate moves it on.
LEMMA SettleExists ==
  ASSUME NEW windows \in Seq(Window)
  PROVE  \E h : IsSettle(h, windows, 0)
<1>0. Horizon \in Nat
  BY RelayAssumption
<1> DEFINE Bad == {m \in 0 .. Horizon + 1 : ~ \E h : IsSettle(h, windows, Horizon + 1 - m)}
<1>1. Bad = {}
  <2>1. SUFFICES ASSUME Bad # {} PROVE FALSE
    BY Zenon
  <2>2. Bad \subseteq Nat
    OBVIOUS
  <2>3. PICK m \in Bad : \A j \in Bad : m <= j
    BY <2>1, <2>2, Smallest
  <2>4. m \in 0 .. Horizon + 1 /\ ~ \E h : IsSettle(h, windows, Horizon + 1 - m)
    BY <2>3
  <2>5. m # 0
    <3>1. \A lo, h : lo = Horizon + 1 /\ h = [c \in {} |-> 0] => IsSettle(h, windows, lo)
      <4>1. Horizon + 1 .. Horizon = {}
        BY <1>0
      <4> QED
        BY <4>1 DEF IsSettle
    <3>2. Horizon + 1 - 0 = Horizon + 1
      BY <1>0
    <3> QED
      BY <2>4, <3>1, <3>2
  <2>6. m - 1 \in 0 .. Horizon + 1 /\ m - 1 \notin Bad
    <3>1. m - 1 \in 0 .. Horizon + 1 /\ ~ m <= m - 1
      BY <1>0, <2>4, <2>5
    <3> QED
      BY <2>3, <3>1, Zenon
  <2>7. PICK lo : lo = Horizon + 1 - m
    BY Zenon
  <2>8. lo \in Time /\ Horizon + 1 - (m - 1) = lo + 1
    BY <1>0, <2>4, <2>5, <2>7 DEF Time
  <2>9. PICK h : IsSettle(h, windows, lo + 1)
    BY <2>6, <2>8
  <2> HIDE DEF Bad
  <2>10. PICK k : k = [c \in lo .. Horizon |-> SettledAt(h, windows, c)]
    BY Zenon
  <2>11. \A c \in lo + 1 .. Horizon : h[c] = SettledAt(h, windows, c)
    BY <2>9 DEF IsSettle
  <2>12. ASSUME NEW c \in lo .. Horizon
         PROVE  SettledAt(h, windows, c) = SettledAt(k, windows, c)
    <3>1. PICK d : d = one_pass(windows, c)
      BY Zenon
    <3>2. c \in Time
      BY <1>0, <2>8 DEF Time
    <3>3. d \in Time /\ c <= d
      BY <3>1, <3>2, PassMoves DEF Covered
    <3>4. CASE d = c
      BY <3>1, <3>4 DEF SettledAt
    <3>5. CASE d # c
      <4>1. d \in lo + 1 .. Horizon /\ d \in lo .. Horizon
        BY <1>0, <2>8, <3>2, <3>3, <3>5 DEF Time
      <4>2. h[d] = k[d]
        BY <2>10, <2>11, <4>1
      <4> QED
        BY <3>1, <3>5, <4>2 DEF SettledAt
    <3> QED
      BY <3>4, <3>5
  <2>13. IsSettle(k, windows, lo)
    BY <2>10, <2>12 DEF IsSettle
  <2> QED
    BY <2>4, <2>7, <2>13
<1>2. Horizon + 1 \in 0 .. Horizon + 1 /\ Horizon + 1 - (Horizon + 1) = 0
  BY <1>0
<1> QED
  BY <1>1, <1>2

\* next_delivery_after returns the earliest instant from the one it is given on
\* that no window covers, for every list of windows: in any order, overlapping,
\* nested, touching or repeated.
THEOREM NextDeliveryIsEarliest ==
  ASSUME NEW windows \in Seq(Window), NEW t \in Time
  PROVE  /\ next_delivery_after(windows, t) \in Time
         /\ next_delivery_after(windows, t) >= t
         /\ ~ InBlackout(windows, next_delivery_after(windows, t))
         /\ \A u \in t .. next_delivery_after(windows, t) - 1 : InBlackout(windows, u)
<1>0. Horizon \in Nat
  BY RelayAssumption
<1>1. next_delivery_after(windows, t) = (CHOOSE h : IsSettle(h, windows, 0))[t]
  BY DEF next_delivery_after, IsSettle, SettledAt, Time
<1>2. PICK h : h = CHOOSE k : IsSettle(k, windows, 0)
  BY Zenon
<1>3. IsSettle(h, windows, 0)
  BY <1>2, SettleExists
<1>4. \A c \in Time : h[c] = SettledAt(h, windows, c)
  BY <1>3 DEF IsSettle, Time
<1> DEFINE Good(c) == Covered(windows, c, h[c]) /\ ~ InBlackout(windows, h[c])
           Bad == {m \in 0 .. Horizon : ~ Good(Horizon - m)}
<1>5. ASSUME NEW c \in Time, \A d \in Time : c < d => Good(d)
      PROVE  Good(c)
  <2>1. PICK d : d = one_pass(windows, c)
    BY Zenon
  <2>2. Covered(windows, c, d) /\ (d = c => ~ InBlackout(windows, c))
    BY <2>1, PassMoves
  <2>3. d \in Time /\ c <= d /\ \A u \in c .. d - 1 : InBlackout(windows, u)
    BY <2>2 DEF Covered
  <2>4. CASE d = c
    <3>1. h[c] = c
      BY <1>4, <2>1, <2>4 DEF SettledAt
    <3> QED
      BY <2>2, <2>4, <3>1
  <2>5. CASE d # c
    <3>1. h[c] = h[d]
      BY <1>4, <2>1, <2>5 DEF SettledAt
    <3>2. c < d
      BY <1>0, <2>3, <2>5 DEF Time
    <3>3. Good(d)
      BY <1>5, <2>3, <3>2
    <3>4. PICK e : e = h[d]
      BY Zenon
    <3>5. e \in Time /\ d <= e /\ (\A u \in d .. e - 1 : InBlackout(windows, u))
          /\ ~ InBlackout(windows, e)
      BY <3>3, <3>4 DEF Covered
    <3>6. c <= e /\ \A u \in c .. e - 1 : u \in c .. d - 1 \/ u \in d .. e - 1
      BY <1>0, <2>3, <3>5 DEF Time
    <3>7. \A u \in c .. e - 1 : InBlackout(windows, u)
      BY <2>3, <3>5, <3>6, Zenon
    <3> QED
      BY <3>1, <3>4, <3>5, <3>6, <3>7 DEF Covered
  <2> QED
    BY <2>4, <2>5
<1> HIDE DEF Good
<1>6. Bad = {}
  <2>1. SUFFICES ASSUME Bad # {} PROVE FALSE
    OBVIOUS
  <2>2. Bad \subseteq Nat
    OBVIOUS
  <2>3. PICK m \in Bad : \A j \in Bad : m <= j
    BY <2>1, <2>2, Smallest
  <2>4. m \in 0 .. Horizon /\ ~ Good(Horizon - m)
    BY <2>3
  <2>5. ASSUME NEW d \in Time, Horizon - m < d
        PROVE  Good(d)
    <3>1. Horizon - d \in 0 .. Horizon /\ Horizon - d < m /\ Horizon - (Horizon - d) = d
      BY <1>0, <2>4, <2>5 DEF Time
    <3>2. Horizon - d \notin Bad
      BY <2>3, <2>4, <3>1
    <3> QED
      BY <3>1, <3>2
  <2>6. Horizon - m \in Time
    BY <1>0, <2>4 DEF Time
  <2> QED
    BY <1>5, <2>4, <2>5, <2>6
<1>7. Horizon - t \in 0 .. Horizon /\ Horizon - (Horizon - t) = t
  BY <1>0 DEF Time
<1>8. Good(t)
  BY <1>6, <1>7
<1>9. h[t] \in Time /\ t <= h[t] /\ ~ InBlackout(windows, h[t])
      /\ \A u \in t .. h[t] - 1 : InBlackout(windows, u)
  BY <1>8 DEF Good, Covered
<1>10. h[t] >= t
  BY <1>0, <1>9 DEF Time
<1> QED
  BY <1>1, <1>2, <1>9, <1>10

-----------------------------------------------------------------------------
(* Delays and blackouts: the inductive invariant *)

\* The one-way delay of the link is over at this time.
Earliest(p, r) == saturating_add(r.accepted_at, Link[p].base_one_way_delay)

\* The times of a record: nothing is scheduled before the delay is over, and
\* nothing that was being delivered at the time t was.
TimesOK(p, r, t) ==
    /\ r.accepted_at \in Time
    /\ r.state \in Deliverable => r.next_delivery_at \in Time /\ r.next_delivery_at >= Earliest(p, r)
    /\ r.state = "InDelivery" => t >= Earliest(p, r)

LinkInv ==
    /\ now \in Time
    /\ \A p \in Known : TimesOK(p, record[p], now)
    /\ sched.at \in {"post", "answer"} =>
          sched.started \in Time /\ sched.started >= Earliest(current, record[current])
    /\ PostRespectsLink

\* The times the relay computes with.
LEMMA SaturatingAdd ==
  ASSUME NEW a \in Time, NEW b \in Nat
  PROVE  saturating_add(a, b) \in Time /\ saturating_add(a, b) >= a
<1>1. Horizon \in Nat /\ a \in Nat /\ a <= Horizon
  BY RelayAssumption DEF Time
<1>2. \E x \in {a + b, Horizon} : \A y \in {a + b, Horizon} : x =< y
  BY <1>1
<1>3. PICK m : m = saturating_add(a, b)
  BY Zenon
<1>4. m \in {a + b, Horizon} /\ \A y \in {a + b, Horizon} : m =< y
  BY <1>2, <1>3 DEF saturating_add, Min
<1>5. m \in Nat /\ m <= Horizon /\ a <= m
  BY <1>1, <1>4
<1> QED
  BY <1>1, <1>3, <1>5 DEF Time

\* The delay of the link is over within the horizon.
LEMMA EarliestTime ==
  ASSUME NEW p \in Package, NEW r, r.accepted_at \in Time
  PROVE  Earliest(p, r) \in Time
<1>1. Link[p].base_one_way_delay \in Nat
  BY RelayAssumption
<1> QED
  BY <1>1, SaturatingAdd DEF Earliest

\* The exponent of the retry delay stops at sixteen.
LEMMA Doublings ==
  ASSUME NEW n \in 0 .. 16
  PROVE  2 ^ n \in Nat
<1>1. /\ 2 ^ 0 \in Nat /\ 2 ^ 1 \in Nat /\ 2 ^ 2 \in Nat /\ 2 ^ 3 \in Nat
      /\ 2 ^ 4 \in Nat /\ 2 ^ 5 \in Nat /\ 2 ^ 6 \in Nat /\ 2 ^ 7 \in Nat
  BY SMT
<1>2. /\ 2 ^ 8 \in Nat /\ 2 ^ 9 \in Nat /\ 2 ^ 10 \in Nat /\ 2 ^ 11 \in Nat
      /\ 2 ^ 12 \in Nat /\ 2 ^ 13 \in Nat /\ 2 ^ 14 \in Nat /\ 2 ^ 15 \in Nat /\ 2 ^ 16 \in Nat
  BY SMT
<1>3. \/ n = 0 \/ n = 1 \/ n = 2 \/ n = 3 \/ n = 4 \/ n = 5 \/ n = 6 \/ n = 7 \/ n = 8
      \/ n = 9 \/ n = 10 \/ n = 11 \/ n = 12 \/ n = 13 \/ n = 14 \/ n = 15 \/ n = 16
  BY SMT
<1> QED
  BY <1>1, <1>2, <1>3, Zenon

\* The delay of a retry is a number of time units.
LEMMA RetryDelay ==
  ASSUME NEW p \in Package, NEW n \in Nat
  PROVE  retry_delay(p, n) \in Nat
<1>1. \E x \in {n, 1} : \A y \in {n, 1} : x >= y
  OBVIOUS
<1>2. Max({n, 1}) \in Nat \ {0}
  BY <1>1 DEF Max
<1>3. PICK k \in Nat : k = Max({n, 1}) - 1
  BY <1>2
<1>4. \E x \in {k, 16} : \A y \in {k, 16} : x =< y
  OBVIOUS
<1>5. Min({k, 16}) \in 0 .. 16
  BY <1>4 DEF Min
<1>6. PICK b \in Nat : b = 2 ^ Min({k, 16})
  BY <1>5, Doublings
<1>7. PICK i \in Nat, m \in Nat : i = Link[p].initial_retry_delay /\ m = Link[p].max_retry_delay
  BY RelayAssumption
<1>8. i * b \in Nat
  OBVIOUS
<1>9. \E x \in {i * b, m} : \A y \in {i * b, m} : x =< y
  BY <1>8
<1>10. Min({i * b, m}) \in Nat
  BY <1>8, <1>9 DEF Min
<1> QED
  BY <1>3, <1>6, <1>7, <1>10 DEF retry_delay

\* A time moved out of the blackouts of its link is not moved back.
LEMMA Deferred ==
  ASSUME NEW p \in Package, NEW t \in Time
  PROVE  /\ deferred(p, t) \in Time
         /\ deferred(p, t) >= t
         /\ ~ InBlackout(Link[p].blackout_windows, deferred(p, t))
<1>1. Link[p].blackout_windows \in Seq(Window)
  BY RelayAssumption
<1> QED
  BY <1>1, NextDeliveryIsEarliest DEF deferred

\* A step that saves the current record and goes on keeps the times in order if
\* those of the record are.
LEMMA FinishTimes ==
  ASSUME IInv, LinkInv, sched.at # "idle", NEW r, IsRecord(r), TimesOK(current, r, now),
         record' = [record EXCEPT ![current] = r], NextRecord, UNCHANGED now
  PROVE  LinkInv'
<1>1. PICK c : c = current
  BY Zenon
<1>2. c \in Package /\ Types
  BY <1>1, CurrentKnown DEF IInv
<1>3. record'[c] = r /\ \A p \in Package : p # c => record'[p] = record[p]
  BY <1>1, <1>2, RecordWritten DEF Types
<1>4. sched'.at \in {"idle", "record"}
  BY <1>2, NextRecordSched
<1>5. ASSUME NEW p \in Known'
      PROVE  TimesOK(p, record'[p], now)
  <2>1. CASE p = c
    BY <1>1, <1>3, <2>1
  <2>2. CASE p # c
    <3>1. p \in Known /\ record'[p] = record[p]
      BY <1>3, <2>2 DEF Known
    <3> QED
      BY <3>1 DEF LinkInv
  <2> QED
    BY <2>1, <2>2
<1>6. \A p \in Known' : TimesOK(p, record[p], now)'
  BY <1>5 DEF TimesOK, Earliest, saturating_add
<1> QED
  BY <1>4, <1>6 DEF LinkInv, PostRespectsLink

\* The record after fields of it are set.
LEMMA UpdatedTimes ==
  ASSUME NEW r, IsRecord(r), NEW f, "accepted_at" \notin DOMAIN f
  PROVE  /\ Updated(r, f).accepted_at = r.accepted_at
         /\ "state" \in DOMAIN f => Updated(r, f).state = f.state
         /\ "state" \notin DOMAIN f => Updated(r, f).state = r.state
         /\ "next_delivery_at" \in DOMAIN f => Updated(r, f).next_delivery_at = f.next_delivery_at
<1>1. \A x \in Fields : Updated(r, f)[x] = IF x \in DOMAIN f THEN f[x] ELSE r[x]
  BY UpdatedFields DEF IsRecord
<1>2. "accepted_at" \in Fields /\ "state" \in Fields /\ "next_delivery_at" \in Fields
  BY DEF Fields
<1> QED
  BY <1>1, <1>2

\* A time set for the delivery that is late enough.
LEMMA ScheduledTimes ==
  ASSUME NEW p \in Package, NEW r, NEW s, r.accepted_at \in Time, s.accepted_at = r.accepted_at,
         s.state \in Deliverable, s.next_delivery_at \in Time, s.next_delivery_at >= Earliest(p, r)
  PROVE  TimesOK(p, s, now)
<1>1. s.state # "InDelivery"
  BY DEF Deliverable
<1>2. Earliest(p, s) = Earliest(p, r)
  BY DEF Earliest
<1> QED
  BY <1>1, <1>2 DEF TimesOK

\* A package that is not to be delivered has no time to keep.
LEMMA ClosedTimes ==
  ASSUME NEW p \in Package, NEW r, NEW s, r.accepted_at \in Time, s.accepted_at = r.accepted_at,
         s.state \in Settled \cup {"Queued", "Delivered"}
  PROVE  TimesOK(p, s, now)
  BY DEF TimesOK, Deliverable, Settled

\* schedule_record, DeferDelivery and schedule_retry set a time that is late
\* enough; an attempt that was the last one fails.
LEMMA ScheduleTimes ==
  ASSUME IInv, LinkInv, schedule_record \/ DeferDelivery \/ schedule_retry
  PROVE  LinkInv'
<1>1. PICK c : c = current
  BY Zenon
<1>2. sched.at # "idle" /\ NextRecord /\ UNCHANGED now
  BY DEF schedule_record, DeferDelivery, schedule_retry, Due, Finish
<1>3. c \in Known /\ c \in Package /\ IsRecord(record[c])
  BY <1>1, <1>2, CurrentKnown DEF IInv
<1>4. TimesOK(c, record[c], now) /\ record[c].accepted_at \in Time
  BY <1>3 DEF LinkInv, TimesOK
<1>5. PICK first : first = Earliest(c, record[c])
  BY Zenon
<1>6. first \in Time
  BY <1>3, <1>4, <1>5, EarliestTime
<1>7. Horizon \in Nat
  BY RelayAssumption
<1>8. PICK f : /\ Update(f)
               /\ "accepted_at" \notin DOMAIN f /\ "attempts" \notin DOMAIN f
               /\ "state" \in DOMAIN f /\ "next_delivery_at" \in DOMAIN f
               /\ \/ f.state = "Failed"
                  \/ /\ f.state \in {"Scheduled", "BlockedByBlackout", "Retrying"}
                     /\ f.next_delivery_at \in Time
                     /\ f.next_delivery_at >= first
  <2>1. CASE schedule_record
    <3>1. PICK at : at = deferred(c, first)
      BY Zenon
    <3> DEFINE f == [state |-> IF at = first THEN "Scheduled" ELSE "BlockedByBlackout",
                     next_delivery_at |-> at]
    <3>2. Update(f)
      BY <1>1, <1>5, <2>1, <3>1 DEF schedule_record, Earliest
    <3>3. at \in Time /\ at >= first
      BY <1>3, <1>6, <3>1, Deferred
    <3>4. /\ DOMAIN f = {"state", "next_delivery_at"} /\ f.next_delivery_at = at
          /\ f.state \in {"Scheduled", "BlockedByBlackout"}
      OBVIOUS
    <3> HIDE DEF f
    <3> QED
      BY <3>2, <3>3, <3>4
  <2>2. CASE DeferDelivery
    <3>1. PICK due : due = record[c].next_delivery_at
      BY Zenon
    <3>2. due \in Time /\ due >= first
      BY <1>1, <1>4, <1>5, <2>2, <3>1 DEF DeferDelivery, Due, TimesOK
    <3>3. PICK at : at = deferred(c, due)
      BY Zenon
    <3> DEFINE f == [state |-> "BlockedByBlackout", next_delivery_at |-> at]
    <3>4. Update(f)
      BY <1>1, <2>2, <3>1, <3>3 DEF DeferDelivery, BlockedUntil
    <3>5. at \in Time /\ at >= due
      BY <1>3, <3>2, <3>3, Deferred
    <3>6. at >= first
      BY <1>6, <1>7, <3>2, <3>5 DEF Time
    <3>7. DOMAIN f = {"state", "next_delivery_at"} /\ f.next_delivery_at = at
          /\ f.state = "BlockedByBlackout"
      OBVIOUS
    <3> HIDE DEF f
    <3> QED
      BY <3>4, <3>5, <3>6, <3>7
  <2>3. CASE schedule_retry
    <3>1. PICK due : due = saturating_add(sched.started, retry_delay(c, sched.read.attempts))
      BY Zenon
    <3>2. sched.at = "answer" /\ sched.read.attempts \in Nat
      BY <2>3 DEF schedule_retry, IInv, RequestOK
    <3>3. sched.started \in Time /\ sched.started >= first
      BY <1>1, <1>5, <3>2 DEF LinkInv
    <3>4. due \in Time /\ due >= sched.started
      <4>1. retry_delay(c, sched.read.attempts) \in Nat
        BY <1>3, <3>2, RetryDelay
      <4> QED
        BY <3>1, <3>3, <4>1, SaturatingAdd
    <3>5. PICK at : at = deferred(c, due)
      BY Zenon
    <3>6. at \in Time /\ at >= due
      BY <1>3, <3>4, <3>5, Deferred
    <3>7. at >= first
      BY <1>6, <1>7, <3>3, <3>4, <3>6 DEF Time
    <3> DEFINE g == [state |-> "Failed", next_delivery_at |-> None, next_ack_poll_at |-> None]
               h == [state |-> IF at = due THEN "Retrying" ELSE "BlockedByBlackout",
                     next_delivery_at |-> at, next_ack_poll_at |-> None]
    <3>8. Update(g) \/ Update(h)
      <4>1. Finish(IF Exhausted(c, sched.read.attempts) THEN g ELSE h)
        BY <1>1, <2>3, <3>1, <3>5 DEF schedule_retry
      <4> HIDE DEF g, h
      <4> QED
        BY <4>1 DEF Finish
    <3>9. /\ DOMAIN g = {"state", "next_delivery_at", "next_ack_poll_at"} /\ g.state = "Failed"
          /\ DOMAIN h = {"state", "next_delivery_at", "next_ack_poll_at"}
          /\ h.next_delivery_at = at /\ h.state \in {"Retrying", "BlockedByBlackout"}
      OBVIOUS
    <3> HIDE DEF g, h
    <3>10. CASE Update(g)
      BY <3>9, <3>10
    <3>11. CASE Update(h)
      BY <3>6, <3>7, <3>9, <3>11
    <3> QED
      BY <3>8, <3>10, <3>11
  <2> QED
    BY <2>1, <2>2, <2>3
<1>9. PICK r : r = Updated(record[c], f)
  BY Zenon
<1>10. IsRecord(r)
  BY <1>3, <1>8, <1>9, UpdateKeepsShape DEF State, Deliverable, Settled
<1>11. /\ r.accepted_at = record[c].accepted_at
       /\ r.state = f.state /\ r.next_delivery_at = f.next_delivery_at
  BY <1>3, <1>8, <1>9, UpdatedTimes
<1>12. TimesOK(c, r, now)
  <2>1. CASE f.state = "Failed"
    BY <1>3, <1>4, <1>11, <2>1, ClosedTimes DEF Settled
  <2>2. CASE f.state # "Failed"
    BY <1>3, <1>4, <1>5, <1>8, <1>11, <2>2, ScheduledTimes DEF Deliverable
  <2> QED
    BY <2>1, <2>2
<1>13. record' = [record EXCEPT ![current] = r]
  BY <1>1, <1>8, <1>9 DEF Update
<1> QED
  BY <1>1, <1>2, <1>10, <1>12, <1>13, FinishTimes

\* The other answers take the package out of the schedule.
LEMMA OutcomeTimes ==
  ASSUME IInv, LinkInv,
         \/ DeliveryAcked \/ DeliveryAccepted \/ DeliveryRefused
         \/ PollAcked \/ PollAgain \/ PollRefused
  PROVE  LinkInv'
<1>1. PICK c : c = current
  BY Zenon
<1>2. /\ sched.at \in {"answer", "polled"} /\ sched.at # "idle"
      /\ PollAgain => sched.at = "polled"
  BY DEF DeliveryAcked, DeliveryAccepted, DeliveryRefused, PollAcked, PollAgain, PollRefused
<1>3. c \in Known /\ c \in Package /\ IsRecord(record[c])
  BY <1>1, <1>2, CurrentKnown DEF IInv
<1>4. record[c].accepted_at \in Time
  BY <1>3 DEF LinkInv, TimesOK
<1>5. PICK f : /\ Finish(f)
               /\ "accepted_at" \notin DOMAIN f /\ "attempts" \notin DOMAIN f
               /\ \/ "state" \in DOMAIN f /\ f.state \in {"ImporterAcked", "Delivered", "Failed"}
                  \/ "state" \notin DOMAIN f /\ record[c].state = "Delivered"
  <2>1. CASE DeliveryAcked \/ PollAcked
    <3> DEFINE f == [state |-> "ImporterAcked", next_ack_poll_at |-> None]
    <3>1. Finish(f)
      BY <2>1 DEF DeliveryAcked, PollAcked
    <3>2. DOMAIN f = {"state", "next_ack_poll_at"} /\ f.state = "ImporterAcked"
      OBVIOUS
    <3> HIDE DEF f
    <3> QED
      BY <3>1, <3>2
  <2>2. CASE DeliveryAccepted
    <3> DEFINE f == [state |-> "Delivered", next_delivery_at |-> None,
                     next_ack_poll_at |-> saturating_add(sched.started, AckPoll)]
    <3>1. Finish(f)
      BY <2>2 DEF DeliveryAccepted
    <3>2. DOMAIN f = {"state", "next_delivery_at", "next_ack_poll_at"} /\ f.state = "Delivered"
      OBVIOUS
    <3> HIDE DEF f
    <3> QED
      BY <3>1, <3>2
  <2>3. CASE DeliveryRefused
    <3> DEFINE f == [state |-> "Failed", next_delivery_at |-> None, next_ack_poll_at |-> None]
    <3>1. Finish(f)
      BY <2>3 DEF DeliveryRefused
    <3>2. DOMAIN f = {"state", "next_delivery_at", "next_ack_poll_at"} /\ f.state = "Failed"
      OBVIOUS
    <3> HIDE DEF f
    <3> QED
      BY <3>1, <3>2
  <2>4. CASE PollRefused
    <3> DEFINE f == [state |-> "Failed", next_ack_poll_at |-> None]
    <3>1. Finish(f)
      BY <2>4 DEF PollRefused
    <3>2. DOMAIN f = {"state", "next_ack_poll_at"} /\ f.state = "Failed"
      OBVIOUS
    <3> HIDE DEF f
    <3> QED
      BY <3>1, <3>2
  <2>5. CASE PollAgain
    <3> DEFINE f == [next_ack_poll_at |-> saturating_add(sched.started, AckPoll)]
    <3>1. Finish(f)
      BY <2>5 DEF PollAgain
    <3>2. DOMAIN f = {"next_ack_poll_at"}
      OBVIOUS
    <3>3. record[c].state = "Delivered"
      BY <1>1, <1>2, <2>5 DEF IInv, RequestOK
    <3> HIDE DEF f
    <3> QED
      BY <3>1, <3>2, <3>3
  <2> QED
    BY <2>1, <2>2, <2>3, <2>4, <2>5
<1>6. PICK r : r = Updated(record[c], f)
  BY Zenon
<1>7. IsRecord(r)
  BY <1>3, <1>5, <1>6, UpdateKeepsShape DEF State, Settled
<1>8. r.accepted_at = record[c].accepted_at /\ r.state \in {"ImporterAcked", "Delivered", "Failed"}
  BY <1>3, <1>5, <1>6, UpdatedTimes
<1>9. TimesOK(c, r, now)
  BY <1>3, <1>4, <1>8, ClosedTimes DEF Settled
<1>10. record' = [record EXCEPT ![current] = r] /\ NextRecord /\ UNCHANGED now
  BY <1>1, <1>5, <1>6 DEF Finish, Update
<1> QED
  BY <1>1, <1>2, <1>7, <1>9, <1>10, FinishTimes

\* attempt_delivery starts when the delay is over and an instant outside the
\* blackouts has come since the time it was scheduled for.
LEMMA AttemptTimes ==
  ASSUME IInv, LinkInv, attempt_delivery
  PROVE  LinkInv'
<1>1. PICK c : c = current
  BY Zenon
<1>2. /\ sched.at = "record" /\ record[c].state \in Deliverable
      /\ deferred(c, record[c].next_delivery_at) <= now
      /\ sched' = [sched EXCEPT !.at = "post", !.read = record[c], !.started = now]
      /\ UNCHANGED now
  BY <1>1 DEF attempt_delivery, Due, BlockedUntil
<1>3. c \in Known /\ c \in Package /\ IsRecord(record[c]) /\ Types
  BY <1>1, <1>2, CurrentKnown DEF IInv
<1>4. PICK n : n = count(record[c].attempts)
  BY Zenon
<1> DEFINE f == [state |-> "InDelivery", attempts |-> n]
<1>5. PICK r : r = Updated(record[c], f)
  BY Zenon
<1>6. record' = [record EXCEPT ![c] = r]
  BY <1>1, <1>4, <1>5 DEF attempt_delivery, Update
<1>7. r.accepted_at = record[c].accepted_at /\ r.state = "InDelivery"
  <2>1. DOMAIN f = {"state", "attempts"} /\ f.state = "InDelivery"
    OBVIOUS
  <2> HIDE DEF f
  <2> QED
    BY <1>3, <1>5, <2>1, UpdatedTimes
<1>8. record'[c] = r /\ \A p \in Package : p # c => record'[p] = record[p]
  BY <1>3, <1>6, RecordWritten DEF Types
<1>9. /\ sched'.at = "post" /\ sched'.work = sched.work
      /\ sched'.read = record[c] /\ sched'.started = now
  BY <1>2, <1>3 DEF Types
<1>10. current' = c
  BY <1>1, <1>9 DEF current
<1>11. PICK due : due = record[c].next_delivery_at
  BY Zenon
<1>12. PICK first : first = Earliest(c, record[c])
  BY Zenon
<1>13. /\ now \in Time /\ record[c].accepted_at \in Time
       /\ due \in Time /\ due >= first /\ first \in Time
  BY <1>2, <1>3, <1>11, <1>12, EarliestTime DEF LinkInv, TimesOK
<1>14. PICK at : at = deferred(c, due)
  BY Zenon
<1>15. at \in Time /\ at >= due /\ at <= now /\ ~ InBlackout(Link[c].blackout_windows, at)
  BY <1>2, <1>3, <1>11, <1>13, <1>14, Deferred
<1>16. at \in due .. now /\ now >= first
  BY <1>13, <1>15, RelayAssumption DEF Time
<1>17. Earliest(c, r) = first
  BY <1>7, <1>12 DEF Earliest
<1>18. ASSUME NEW p \in Known'
       PROVE  TimesOK(p, record'[p], now)
  <2>1. CASE p = c
    BY <1>7, <1>8, <1>13, <1>16, <1>17, <2>1 DEF TimesOK, Deliverable
  <2>2. CASE p # c
    <3>1. p \in Known /\ record'[p] = record[p]
      BY <1>8, <2>2 DEF Known
    <3> QED
      BY <3>1 DEF LinkInv
  <2> QED
    BY <2>1, <2>2
<1>19. \A p \in Known' : TimesOK(p, record[p], now)'
  BY <1>2, <1>18 DEF TimesOK, Earliest, saturating_add
<1>20. Earliest(current, record[current])' = first
  BY <1>8, <1>10, <1>17 DEF Earliest, saturating_add
<1>21. PostRespectsLink'
  <2>1. sched'.started >= Earliest(current, record[current])'
    BY <1>9, <1>16, <1>20
  <2>2. \E t \in sched'.read.next_delivery_at .. sched'.started :
            ~ InBlackout(Link[c].blackout_windows, t)
    BY <1>9, <1>11, <1>15, <1>16
  <2> QED
    BY <1>9, <1>10, <2>1, <2>2 DEF PostRespectsLink, Earliest, InBlackout, inside
<1> QED
  BY <1>2, <1>9, <1>13, <1>16, <1>19, <1>20, <1>21 DEF LinkInv

\* Steps that leave the records and the clock alone: the scheduler takes up or
\* ends its work, an answer to a request that was sent in time arrives, or the
\* importer moves.
LEMMA QuietTimes ==
  ASSUME IInv, LinkInv, UNCHANGED <<record, now>>,
         \/ sched' = sched
         \/ sched'.at \notin {"post", "answer"}
         \/ /\ sched.at = "post" /\ sched'.at = "answer"
            /\ sched'.work = sched.work /\ sched'.started = sched.started
  PROVE  LinkInv'
<1>1. Known' = Known
  BY DEF Known
<1>2. \A p \in Known' : TimesOK(p, record[p], now)'
  BY <1>1 DEF LinkInv, TimesOK, Earliest, saturating_add
<1>3. CASE sched' = sched
  BY <1>2, <1>3 DEF LinkInv, PostRespectsLink, Earliest, saturating_add, current
<1>4. CASE sched'.at \notin {"post", "answer"}
  BY <1>2, <1>4 DEF LinkInv, PostRespectsLink
<1>5. CASE /\ sched.at = "post" /\ sched'.at = "answer"
           /\ sched'.work = sched.work /\ sched'.started = sched.started
  <2>1. Earliest(current, record[current])' = Earliest(current, record[current])
    BY <1>5 DEF Earliest, saturating_add, current
  <2> QED
    BY <1>2, <1>5, <2>1 DEF LinkInv, PostRespectsLink
<1> QED
  BY <1>3, <1>4, <1>5

\* The steps of the scheduler that save nothing.
LEMMA SchedulerTimes ==
  ASSUME IInv, LinkInv,
         \/ scheduler_tick \/ NotDue \/ PostFails \/ PostRefused \/ PostArrives
         \/ DeliveryGarbled \/ Poll
  PROVE  LinkInv'
<1>1. UNCHANGED <<record, now>>
  BY DEF scheduler_tick, NotDue, PostFails, PostRefused, PostArrives, PostReply,
         DeliveryGarbled, Poll
<1>2. Types
  BY DEF IInv
<1>3. CASE scheduler_tick
  <2>1. sched' = [Idle EXCEPT !.at = "record", !.work = queue]
    BY <1>3 DEF scheduler_tick
  <2>2. sched'.at = "record"
    BY <2>1 DEF Idle
  <2> QED
    BY <1>1, <2>2, QuietTimes
<1>4. CASE NotDue
  <2>1. sched'.at \in {"idle", "record"}
    BY <1>2, <1>4, NextRecordSched DEF NotDue
  <2> QED
    BY <1>1, <2>1, QuietTimes
<1>5. CASE DeliveryGarbled
  <2>1. sched'.at = "idle"
    BY <1>5 DEF DeliveryGarbled, Idle
  <2> QED
    BY <1>1, <2>1, QuietTimes
<1>6. CASE Poll
  <2>1. sched'.at = "polled"
    BY <1>2, <1>6 DEF Poll, Types
  <2> QED
    BY <1>1, <2>1, QuietTimes
<1>7. CASE PostFails \/ PostRefused \/ PostArrives
  <2>1. PICK a : Answer(a) /\ sched.at = "post"
    BY <1>7 DEF PostFails, PostRefused, PostArrives, PostReply
  <2>2. sched'.at = "answer" /\ sched'.work = sched.work /\ sched'.started = sched.started
    BY <1>2, <2>1 DEF Answer, Types
  <2> QED
    BY <1>1, <2>1, <2>2, QuietTimes
<1> QED
  BY <1>3, <1>4, <1>5, <1>6, <1>7

\* A delay that is over stays over.
LEMMA ClockTimes ==
  ASSUME IInv, LinkInv, Tick
  PROVE  LinkInv'
<1>1. UNCHANGED <<record, sched>> /\ now < Horizon /\ now' = now + 1
  BY DEF Tick
<1>2. now' \in Time /\ now <= now' /\ now \in Time
  BY <1>1, RelayAssumption DEF LinkInv, Time
<1>3. ASSUME NEW p \in Known
      PROVE  TimesOK(p, record[p], now')
  <2>1. TimesOK(p, record[p], now) /\ p \in Package
    BY DEF LinkInv, Known
  <2>2. PICK first : first = Earliest(p, record[p])
    BY Zenon
  <2>3. first \in Time
    BY <2>1, <2>2, EarliestTime DEF TimesOK
  <2>4. now >= first => now' >= first
    BY <1>2, <2>3, RelayAssumption DEF Time
  <2> QED
    BY <2>1, <2>2, <2>4 DEF TimesOK
<1>4. Known' = Known
  BY <1>1 DEF Known
<1>5. \A p \in Known' : TimesOK(p, record[p], now)'
  BY <1>1, <1>3, <1>4 DEF TimesOK, Earliest, saturating_add
<1>6. current' = current
  BY <1>1 DEF current
<1>7. sched'.at \in {"post", "answer"} =>
          sched'.started \in Time /\ sched'.started >= Earliest(current, record[current])'
  BY <1>1, <1>6 DEF LinkInv, Earliest, saturating_add
<1>8. PostRespectsLink'
  BY <1>1, <1>6 DEF LinkInv, PostRespectsLink, saturating_add
<1> QED
  BY <1>2, <1>5, <1>7, <1>8 DEF LinkInv

\* A package that is accepted now has nothing scheduled.
LEMMA SubmitTimes ==
  ASSUME IInv, LinkInv, NEW c \in Package, submit_package(c)
  PROVE  LinkInv'
<1> DEFINE new == [state |-> "Queued", accepted_at |-> now, next_delivery_at |-> None,
                   next_ack_poll_at |-> None, attempts |-> 0]
<1>1. PICK r : r = new
  BY Zenon
<1>2. /\ record[c] = Missing
      /\ record' = [record EXCEPT ![c] = r]
      /\ UNCHANGED <<sched, now>>
  BY <1>1 DEF submit_package, accept_envelope
<1>3. r.state = "Queued" /\ r.accepted_at = now
  BY <1>1
<1> HIDE DEF new
<1>4. Types /\ now \in Time
  BY DEF IInv, LinkInv
<1>5. record'[c] = r /\ \A p \in Package : p # c => record'[p] = record[p]
  BY <1>2, <1>4, RecordWritten DEF Types
<1>6. ASSUME NEW p \in Known'
      PROVE  TimesOK(p, record'[p], now)
  <2>1. CASE p = c
    BY <1>3, <1>4, <1>5, <2>1 DEF TimesOK, Deliverable
  <2>2. CASE p # c
    <3>1. p \in Known /\ record'[p] = record[p]
      BY <1>5, <2>2 DEF Known
    <3> QED
      BY <3>1 DEF LinkInv
  <2> QED
    BY <2>1, <2>2
<1>7. \A p \in Known' : TimesOK(p, record[p], now)'
  BY <1>2, <1>6 DEF TimesOK, Earliest, saturating_add
<1>8. CASE sched.at = "idle"
  BY <1>2, <1>4, <1>7, <1>8 DEF LinkInv, PostRespectsLink
<1>9. CASE sched.at # "idle"
  <2>1. PICK k : k = current
    BY Zenon
  <2>2. k \in Known /\ k \in Package
    BY <1>4, <1>9, <2>1, CurrentKnown
  <2>3. k # c
    BY <1>2, <2>2 DEF Known
  <2>4. current' = current /\ record[current]' = record[current]
    BY <1>2, <1>5, <2>1, <2>2, <2>3 DEF current
  <2>5. PostRespectsLink'
    BY <1>2, <2>4 DEF LinkInv, PostRespectsLink, saturating_add
  <2>6. sched'.at \in {"post", "answer"} =>
            sched'.started \in Time /\ sched'.started >= Earliest(current, record[current])'
    BY <1>2, <2>4 DEF LinkInv, Earliest, saturating_add
  <2> QED
    BY <1>2, <1>4, <1>7, <2>5, <2>6 DEF LinkInv
<1> QED
  BY <1>8, <1>9

\* normalize_restart_state schedules a delivery that was under way for now, when
\* the delay of the link is over already.
LEMMA RestartTimes ==
  ASSUME IInv, LinkInv, Restart
  PROVE  LinkInv'
<1>1. /\ record' = [p \in Package |-> normalize(record[p])]
      /\ sched' = Idle
      /\ UNCHANGED now
  BY DEF Restart, Reload
<1>2. Types /\ now \in Time
  BY DEF IInv, LinkInv
<1>3. ASSUME NEW p \in Known
      PROVE  TimesOK(p, normalize(record[p]), now)
  <2>1. PICK r : r = record[p]
    BY Zenon
  <2>2. IsRecord(r) /\ TimesOK(p, r, now)
    BY <1>2, <2>1 DEF Types, LinkInv
  <2>3. CASE r.state = "InDelivery"
    <3>1. PICK s : s = [r EXCEPT !.state = "Retrying", !.next_delivery_at = now]
      BY Zenon
    <3>2. s.state = "Retrying" /\ s.next_delivery_at = now /\ s.accepted_at = r.accepted_at
      BY <2>2, <3>1 DEF IsRecord, Fields
    <3>3. Earliest(p, s) = Earliest(p, r)
      BY <3>2 DEF Earliest
    <3>4. TimesOK(p, s, now)
      BY <1>2, <2>2, <2>3, <3>2, <3>3 DEF TimesOK
    <3> QED
      BY <2>1, <2>3, <3>1, <3>4 DEF normalize
  <2>4. CASE r.state = "Delivered" /\ r.next_ack_poll_at = None
    <3>1. PICK t : t = saturating_add(now, AckPoll)
      BY Zenon
    <3>2. PICK s : s = [r EXCEPT !.next_ack_poll_at = t]
      BY Zenon
    <3>3. s.state = "Delivered" /\ s.accepted_at = r.accepted_at
      BY <2>2, <2>4, <3>2 DEF IsRecord, Fields
    <3>4. TimesOK(p, s, now)
      BY <2>2, <3>3 DEF TimesOK, Deliverable
    <3> QED
      BY <2>1, <2>4, <3>1, <3>2, <3>4 DEF normalize
  <2>5. CASE r.state # "InDelivery" /\ ~ (r.state = "Delivered" /\ r.next_ack_poll_at = None)
    BY <2>1, <2>2, <2>5 DEF normalize
  <2> QED
    BY <2>3, <2>4, <2>5
<1>4. Known' \subseteq Known
  <2>1. ASSUME NEW p \in Package, record[p] = Missing
        PROVE  record'[p] = Missing
    <3>1. record'[p] = normalize(Missing)
      BY <1>1, <2>1
    <3> QED
      BY <3>1 DEF normalize, Missing
  <2> QED
    BY <2>1 DEF Known
<1>5. \A p \in Known' : record'[p] = normalize(record[p])
  BY <1>1 DEF Known
<1>6. \A p \in Known' : TimesOK(p, record'[p], now)
  BY <1>3, <1>4, <1>5
<1>7. \A p \in Known' : TimesOK(p, record[p], now)'
  BY <1>1, <1>6 DEF TimesOK, Earliest, saturating_add
<1>8. sched'.at = "idle"
  BY <1>1 DEF Idle
<1> QED
  BY <1>1, <1>2, <1>7, <1>8 DEF LinkInv, PostRespectsLink

\* Every step keeps the times in order.
LEMMA NextTimes == IInv /\ LinkInv /\ [Next]_vars => LinkInv'
<1>1. ASSUME IInv, LinkInv, ImporterStep \/ UNCHANGED vars
      PROVE  LinkInv'
  <2>1. UNCHANGED <<record, now, sched>>
    BY <1>1 DEF ImporterStep, vars
  <2> QED
    BY <1>1, <2>1, QuietTimes
<1> QED
  BY <1>1, ScheduleTimes, OutcomeTimes, AttemptTimes, SchedulerTimes, ClockTimes,
     SubmitTimes, RestartTimes DEF Next, SchedulerStep

\* The relay starts with no package and no request.
LEMMA InitTimes == Init => LinkInv
<1> SUFFICES ASSUME Init PROVE LinkInv
  OBVIOUS
<1>1. Known = {}
  BY DEF Init, Known
<1>2. now \in Time
  BY RelayAssumption DEF Init, Time
<1>3. sched.at = "idle"
  BY DEF Init, Idle
<1> QED
  BY <1>1, <1>2, <1>3 DEF LinkInv, PostRespectsLink

\* attempt_delivery sends no request before the one-way delay of the link is
\* over, nor before an instant outside every blackout has come since the time
\* the request was scheduled for, by schedule_record, schedule_retry or
\* normalize_restart_state.
THEOREM PostRespectsLinkHolds == Spec => []PostRespectsLink
<1>1. Init => IInv /\ LinkInv
  BY InitIInv, InitTimes
<1>2. (IInv /\ LinkInv) /\ [Next]_vars => (IInv /\ LinkInv)'
  BY NextIInv, NextTimes
<1>3. LinkInv => PostRespectsLink
  BY DEF LinkInv
<1> QED
  BY <1>1, <1>2, <1>3, PTL DEF Spec
=============================================================================
