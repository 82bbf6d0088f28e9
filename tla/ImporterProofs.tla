--------------------------- MODULE ImporterProofs ---------------------------
(***************************************************************************)
(* Proofs about Importer, for any packages, proofs, prerequisites, number  *)
(* of requests, restarts and reorganisations of any depth: what a copy of  *)
(* the index claims the chain has, and invalid packages have no effect.    *)
(***************************************************************************)
EXTENDS Importer, WellFoundedInduction, TLAPS

-----------------------------------------------------------------------------
(* The inductive invariant *)

ItemStatus == {"None", "Observed", "Done"}
PackageState == Acked \cup {"AckedInvalid", "Received", "Verifying", "SubmissionRetrying"}
Record == [id : Package, state : PackageState]
Index == [packages : Seq(Record), imports : SUBSET Item]

\* A copy of the index is sound when it lists packages of R only, calls invalid
\* those that are, and claims nothing beyond the items of A.
SoundRecord(r, R, A) ==
    /\ r.id \in R
    /\ r.state = "AckedInvalid" => r.id \in Invalid
    /\ r.state \in Acked => Items(r.id) \subseteq A

Sound(ix, R, A) ==
    /\ ix \in Index
    /\ \A k \in DOMAIN ix.packages : SoundRecord(ix.packages[k], R, A)
    /\ ix.imports \subseteq A

\* What may be claimed.  Nothing is promised once an extrinsic that a
\* reorganisation undid is lost.
Claimable == {i \in Item : dropped \/ Applied(i)}

\* The items of packages that verified.
Verified(R) == UNION {Items(p) : p \in R \ Invalid}

ProcFields ==
    {"at", "work", "local", "stageIndex", "stage", "todo", "seen", "outcomes", "verdict"}
Places ==
    {"idle", "load", "mark", "verify", "stage", "items", "wait", "finish", "fail", "failed",
     "refresh", "install"}

StageItems(p, s) == Range(Proofs[p][Stages[s]])

\* While a package is worked on, its earlier stages are done, and of the stage
\* under way what is not left to do.
ProcOK(pr, R, A) ==
    /\ DOMAIN pr = ProcFields
    /\ pr.at \in Places
    /\ pr.work \in Seq(R)
    /\ pr.at # "idle" => pr.work # <<>>
    /\ Sound(pr.local, R, A)
    /\ Sound(pr.stageIndex, R, A)
    /\ pr.at \in {"stage", "items", "wait", "finish"} =>
          /\ Head(pr.work) \notin Invalid
          /\ pr.stage \in 1 .. 4
          /\ \A s \in 1 .. 3 : s < pr.stage => StageItems(Head(pr.work), s) \subseteq A
    /\ pr.at = "finish" => pr.stage = 4
    /\ pr.at \in {"items", "wait"} =>
          /\ pr.stage # 4
          /\ pr.todo \in Seq(StageItems(Head(pr.work), pr.stage))
          /\ StageItems(Head(pr.work), pr.stage) \subseteq A \cup Range(pr.todo)
    /\ pr.at = "wait" => pr.todo # <<>>
    /\ pr.at = "fail" =>
          /\ pr.verdict \in {"AckedInvalid", "SubmissionRetrying"}
          /\ pr.verdict = "AckedInvalid" => Head(pr.work) \in Invalid

\* What the chain records, of items that come from verified packages only.
StatusOK(st, R) ==
    /\ st \in [Item -> ItemStatus]
    /\ \A i \in Item : st[i] = "Observed" => IsExport(i)
    /\ \A i \in Item : st[i] # "None" => i \in Verified(R)

IsTx(tx, R) == tx \in Transaction /\ tx[2] \in Verified(R)

PoolOK(q, R) ==
    /\ q \in Seq(Transaction \cup {Gap})
    /\ \A n \in DOMAIN q : q[n] # Gap => IsTx(q[n], R)

\* Each of the recent extrinsics led from the status before it to the next one.
StatusAt(rec, st, n) == IF n <= Len(rec) THEN rec[n].before ELSE st

Included == [tx : Transaction, before : [Item -> ItemStatus]]

RecentOK(rec, st, R) ==
    /\ rec \in Seq(Included)
    /\ \A n \in 1 .. Len(rec) :
          /\ IsTx(rec[n].tx, R)
          /\ StatusOK(rec[n].before, R)
          /\ StatusAt(rec, st, n + 1) = After(rec[n].before, rec[n].tx)

\* The pool will settle the items in D again: pos says where, for each of them, the
\* extrinsic is that does so, given what is included before it.
Settles(q, st, D, pos) ==
    \A i \in D :
        /\ q[pos[i]] = <<"finish", i>>
        /\ i \notin Refused
        /\ IsExport(i) /\ st[i] = "None" => \E m \in 1 .. pos[i] - 1 : q[m] = <<"observe", i>>
        /\ i \in DOMAIN Prerequisite /\ st[Prerequisite[i]] # "Done" =>
              Prerequisite[i] \in D /\ pos[Prerequisite[i]] < pos[i]

WillSettle(q, st, D) == \E pos \in [D -> DOMAIN q] : Settles(q, st, D, pos)

Unsettled(D, st) == D \subseteq Item /\ \A i \in D : st[i] # "Done"

RetractedOK ==
    /\ Unsettled(retracted, status)
    /\ dropped \in BOOLEAN
    /\ dropped \/ WillSettle(pool, status, retracted)

ChainOK ==
    /\ StatusOK(status, received)
    /\ PoolOK(pool, received)
    /\ RecentOK(recent, status, received)
    /\ RetractedOK

IInv ==
    /\ received \subseteq Package
    /\ Sound(index, received, Claimable)
    /\ Sound(disk, received, Claimable)
    /\ ProcOK(proc, received, Claimable)
    /\ ChainOK

-----------------------------------------------------------------------------
(* Copies of the index *)

\* An empty index claims nothing.
LEMMA NewIsSound ==
  ASSUME NEW R, NEW A
  PROVE  Sound(NewIndex, R, A)
<1>1. <<>> \in Seq(Record) /\ DOMAIN <<>> = {}
  OBVIOUS
<1>2. NewIndex \in Index
  BY <1>1 DEF NewIndex, Index
<1> QED
  BY <1>1, <1>2 DEF Sound, NewIndex

\* A sound copy stays sound when more is received and applied.
LEMMA SoundGrows ==
  ASSUME NEW R, NEW A, NEW S, NEW B, R \subseteq S, A \subseteq B,
         NEW ix, Sound(ix, R, A)
  PROVE  Sound(ix, S, B)
<1>1. \A k \in DOMAIN ix.packages : SoundRecord(ix.packages[k], S, B)
  BY DEF Sound, SoundRecord
<1> QED
  BY <1>1 DEF Sound

\* A copy is sound when its list is replaced by one of sound records.
LEMMA SoundList ==
  ASSUME NEW R, NEW A, NEW ix, Sound(ix, R, A),
         NEW q \in Seq(Record), \A k \in DOMAIN q : SoundRecord(q[k], R, A)
  PROVE  Sound([ix EXCEPT !.packages = q], R, A)
<1>1. PICK iy : iy = [ix EXCEPT !.packages = q]
  BY Zenon
<1>2. iy \in Index /\ iy.packages = q /\ iy.imports = ix.imports
  BY <1>1 DEF Sound, Index
<1> QED
  BY <1>1, <1>2 DEF Sound

\* upsert_package with a state that is true keeps the index true.
LEMMA UpsertIsSound ==
  ASSUME NEW R, NEW A, NEW ix, Sound(ix, R, A),
         NEW p \in Package, NEW state \in PackageState,
         SoundRecord([id |-> p, state |-> state], R, A)
  PROVE  Sound(upsert_package(ix, p, state), R, A)
<1>1. PICK r : r = [id |-> p, state |-> state]
  OBVIOUS
<1>2. r \in Record
  BY <1>1 DEF Record
<1>3. PICK q : q = ix.packages
  OBVIOUS
<1>4. q \in Seq(Record) /\ \A k \in DOMAIN q : SoundRecord(q[k], R, A)
  BY <1>3 DEF Sound, Index
<1>5. CASE HasPackage(ix, p)
  <2>1. PICK s : s = [k \in DOMAIN q |-> IF q[k].id = p THEN r ELSE q[k]]
    BY Zenon
  <2>2. s \in Seq(Record)
    BY <1>2, <1>4, <2>1
  <2>3. \A k \in DOMAIN s : SoundRecord(s[k], R, A)
    BY <1>1, <1>4, <2>1
  <2>4. upsert_package(ix, p, state) = [ix EXCEPT !.packages = s]
    BY <1>1, <1>3, <1>5, <2>1 DEF upsert_package, Sound, Index
  <2> QED
    BY <2>2, <2>3, <2>4, SoundList
<1>6. CASE ~ HasPackage(ix, p)
  <2>1. PICK s : s = Append(q, r)
    BY Zenon
  <2>2. s \in Seq(Record) /\ Len(s) = Len(q) + 1 /\ s[Len(q) + 1] = r
        /\ \A k \in 1 .. Len(q) : s[k] = q[k]
    BY <1>2, <1>4, <2>1
  <2>3. \A k \in DOMAIN s : SoundRecord(s[k], R, A)
    <3>1. ASSUME NEW k \in DOMAIN s
          PROVE  k \in 1 .. Len(q) \/ k = Len(q) + 1
      BY <1>4, <2>2
    <3> QED
      BY <1>1, <1>4, <2>2, <3>1
  <2>4. upsert_package(ix, p, state) = [ix EXCEPT !.packages = s]
    BY <1>1, <1>3, <1>6, <2>1 DEF upsert_package, Sound, Index
  <2> QED
    BY <2>2, <2>3, <2>4, SoundList
<1> QED
  BY <1>5, <1>6

\* Loading an index, which reopens what was under way, keeps it true.
LEMMA LoadIsSound ==
  ASSUME NEW R, NEW A, NEW ix, Sound(ix, R, A)
  PROVE  Sound(load_index(ix), R, A)
<1>1. PICK q : q = ix.packages
  OBVIOUS
<1>2. q \in Seq(Record) /\ \A k \in DOMAIN q : SoundRecord(q[k], R, A) /\ q[k] \in Record
  BY <1>1 DEF Sound, Index
<1>3. PICK s : s = [k \in DOMAIN q |->
                       IF q[k].state = "Verifying" THEN [q[k] EXCEPT !.state = "Received"] ELSE q[k]]
  BY Zenon
<1>4. ASSUME NEW k \in DOMAIN q
      PROVE  s[k] \in Record /\ SoundRecord(s[k], R, A)
  <2>1. CASE q[k].state = "Verifying"
    BY <1>2, <1>3, <2>1 DEF Record, SoundRecord, PackageState, Acked
  <2>2. CASE q[k].state # "Verifying"
    BY <1>2, <1>3, <2>2
  <2> QED
    BY <2>1, <2>2
<1>5. s \in Seq(Record)
  BY <1>2, <1>3, <1>4
<1>6. load_index(ix) = [ix EXCEPT !.packages = s]
  BY <1>1, <1>3 DEF load_index, Sound, Index
<1>7. \A k \in DOMAIN s : SoundRecord(s[k], R, A)
  BY <1>3, <1>4
<1> QED
  BY <1>5, <1>6, <1>7, SoundList

\* Noting an item that is settled keeps the index true.
LEMMA ImportIsSound ==
  ASSUME NEW R, NEW A, NEW ix, Sound(ix, R, A), NEW i \in A \cap Item
  PROVE  Sound([ix EXCEPT !.imports = @ \cup {i}], R, A)
<1>1. PICK iy : iy = [ix EXCEPT !.imports = @ \cup {i}]
  BY Zenon
<1>2. iy \in Index /\ iy.packages = ix.packages /\ iy.imports = ix.imports \cup {i}
  BY <1>1 DEF Sound, Index
<1> QED
  BY <1>1, <1>2 DEF Sound

\* What a copy says of a package is what one of its records says.
LEMMA StateIsListed ==
  ASSUME NEW ix, NEW p, HasPackage(ix, p)
  PROVE  \E k \in DOMAIN ix.packages : ix.packages[k].id = p /\ ix.packages[k].state = StateOf(ix, p)
BY Zenon DEF HasPackage, StateOf

-----------------------------------------------------------------------------
(* The chain: what an extrinsic changes *)

\* An extrinsic changes the status of its item, if that of any: to observed by
\* an observation, and to done by what finishes it when nothing is missing.
LEMMA AfterCases ==
  ASSUME NEW st \in [Item -> ItemStatus], NEW tx \in Transaction
  PROVE  /\ After(st, tx) \in [Item -> ItemStatus]
         /\ \A i \in Item :
               \/ After(st, tx)[i] = st[i]
               \/ tx = <<"observe", i>> /\ IsExport(i) /\ st[i] = "None" /\ After(st, tx)[i] = "Observed"
               \/ tx = <<"finish", i>> /\ Applies(st, "finish", i) /\ After(st, tx)[i] = "Done"
<1>1. PICK op \in {"observe", "finish"}, j \in Item : tx = <<op, j>>
  BY DEF Transaction
<1>2. tx[1] = op /\ tx[2] = j /\ (op = "observe" => IsExport(j))
  BY <1>1 DEF Transaction
<1>3. CASE ~ Applies(st, op, j)
  BY <1>2, <1>3 DEF After
<1>4. CASE Applies(st, op, j)
  <2>1. After(st, tx) = [st EXCEPT ![j] = IF op = "observe" THEN "Observed" ELSE "Done"]
    BY <1>2, <1>4 DEF After
  <2>2. After(st, tx) \in [Item -> ItemStatus]
    BY <2>1 DEF ItemStatus
  <2>3. CASE op = "observe"
    <3>1. st[j] = "None"
      BY <1>4, <2>3 DEF Applies
    <3> QED
      BY <1>1, <1>2, <2>1, <2>2, <2>3, <3>1
  <2>4. CASE op = "finish"
    BY <1>1, <1>4, <2>1, <2>2, <2>4
  <2> QED
    BY <2>3, <2>4
<1> QED
  BY <1>3, <1>4

\* What is done stays done.
LEMMA AfterKeepsDone ==
  ASSUME NEW st \in [Item -> ItemStatus], NEW tx \in Transaction,
         NEW i \in Item, st[i] = "Done"
  PROVE  After(st, tx)[i] = "Done"
<1>1. ~ Applies(st, "finish", i)
  BY DEF Applies
<1> QED
  BY <1>1, AfterCases

\* The chain's state after an extrinsic is a state of the chain.
LEMMA AfterIsOK ==
  ASSUME NEW R, NEW st, StatusOK(st, R), NEW tx, IsTx(tx, R)
  PROVE  StatusOK(After(st, tx), R)
<1>1. st \in [Item -> ItemStatus] /\ tx \in Transaction
  BY DEF StatusOK, IsTx
<1>2. PICK new : new = After(st, tx)
  OBVIOUS
<1>3. new \in [Item -> ItemStatus]
  BY <1>1, <1>2, AfterCases
<1>4. ASSUME NEW i \in Item
      PROVE  /\ new[i] = "Observed" => IsExport(i)
             /\ new[i] # "None" => i \in Verified(R)
  <2>1. \/ new[i] = st[i]
        \/ tx = <<"observe", i>> /\ IsExport(i) /\ new[i] = "Observed"
        \/ tx = <<"finish", i>> /\ new[i] = "Done"
    BY <1>1, <1>2, AfterCases
  <2>2. tx = <<"observe", i>> \/ tx = <<"finish", i>> => i \in Verified(R)
    BY DEF IsTx
  <2> QED
    BY <2>1, <2>2 DEF StatusOK
<1> QED
  BY <1>2, <1>3, <1>4 DEF StatusOK

-----------------------------------------------------------------------------
(* The chain: a run of extrinsics *)

\* The extrinsics t[1] .. t[E - 1] lead from the status h[1] to h[E].
Replay(h, t, E) ==
    /\ \A n \in 1 .. E - 1 : t[n] \in Transaction /\ h[n + 1] = After(h[n], t[n])
    /\ \A n \in 1 .. E : h[n] \in [Item -> ItemStatus]

\* The step at which item i gets done, with nothing missing.
FinishesAt(h, t, n, i) ==
    /\ t[n] = <<"finish", i>>
    /\ Applies(h[n], "finish", i)
    /\ h[n][i] # "Done" /\ h[n + 1][i] = "Done"

\* Item i is observed after step k and before step n.
ObservedIn(t, k, n, i) == \E m \in k .. n - 1 : t[m] = <<"observe", i>>

\* A set of numbers that is not empty has a smallest one.
LEMMA Smallest ==
  ASSUME NEW S, S \subseteq Nat, S # {}
  PROVE  \E n \in S : \A m \in S : n <= m
<1>1. PICK R : R = OpToRel(<, Nat)
  OBVIOUS
<1>2. IsWellFoundedOn(R, Nat)
  BY <1>1, NatLessThanWellFounded
<1>3. PICK n \in S : \A m \in S : ~ (<<m, n>> \in R)
  BY <1>2, WFMin, Zenon
<1>4. \A m \in Nat : m < n => <<m, n>> \in R
  BY <1>1 DEF OpToRel
<1>5. \A m \in S : n <= m
  <2>1. \A m \in S : ~ (m < n)
    BY <1>3, <1>4, Zenon
  <2> QED
    BY <2>1
<1> QED
  BY <1>5

\* When the status of an item gets into a set, there is a step at which it does.
LEMMA Crossing ==
  ASSUME NEW h, NEW k \in Nat, NEW n \in Nat, k <= n, NEW i, NEW V,
         h[k][i] \notin V, h[n][i] \in V
  PROVE  \E m \in k .. n - 1 : h[m][i] \notin V /\ h[m + 1][i] \in V
<1>1. PICK S : S = {m \in k .. n : h[m][i] \in V}
  BY Zenon
<1>2. S \subseteq Nat /\ n \in S
  BY <1>1
<1>3. PICK m \in S : \A l \in S : m <= l
  BY <1>2, Smallest, Zenon
<1>4. m \in Nat /\ m <= n /\ k < m /\ h[m][i] \in V
  <2>1. m \in k .. n /\ h[m][i] \in V
    BY <1>1, <1>3
  <2>2. m # k
    BY <2>1
  <2> QED
    BY <2>1, <2>2
<1>5. m - 1 \in k .. n - 1 /\ (m - 1) + 1 = m
  BY <1>4
<1>6. m - 1 \notin S
  BY <1>3, <1>4
<1>7. h[m - 1][i] \notin V
  BY <1>1, <1>5, <1>6
<1> QED
  BY <1>4, <1>5, <1>7

\* What is done stays done to the end.
LEMMA ReplayKeepsDone ==
  ASSUME NEW E \in Nat, NEW h, NEW t, Replay(h, t, E),
         NEW m \in 1 .. E, NEW n \in m .. E, NEW i \in Item, h[m][i] = "Done"
  PROVE  h[n][i] = "Done"
<1>1. SUFFICES ASSUME h[n][i] # "Done"
               PROVE  FALSE
  OBVIOUS
<1>2. PICK V : V = {"None", "Observed"}
  BY Zenon
<1>3. h[n] \in [Item -> ItemStatus] /\ n \in Nat /\ m \in Nat /\ m <= n
  BY DEF Replay
<1>4. h[n][i] \in V /\ h[m][i] \notin V
  BY <1>1, <1>2, <1>3 DEF ItemStatus
<1>5. PICK l \in m .. n - 1 : h[l][i] \notin V /\ h[l + 1][i] \in V
  BY <1>3, <1>4, Crossing
<1>6. /\ l \in 1 .. E - 1 /\ h[l] \in [Item -> ItemStatus] /\ t[l] \in Transaction
      /\ h[l + 1] = After(h[l], t[l])
  BY <1>3, <1>5 DEF Replay
<1>7. h[l][i] = "Done"
  BY <1>2, <1>5, <1>6 DEF ItemStatus
<1>8. h[l + 1][i] = "Done"
  BY <1>6, <1>7, AfterKeepsDone
<1> QED
  BY <1>2, <1>5, <1>8

\* What gets done is finished by its extrinsic at some step, with nothing missing.
LEMMA ReplayFinishes ==
  ASSUME NEW E, NEW h, NEW t, NEW k, NEW i,
         E \in Nat, Replay(h, t, E), k \in 1 .. E,
         i \in Item, h[k][i] # "Done", h[E][i] = "Done"
  PROVE  \E n \in k .. E - 1 : FinishesAt(h, t, n, i)
<1>1. k \in Nat /\ k <= E
  OBVIOUS
<1>2. PICK V : V = {"Done"}
  BY Zenon
<1>3. PICK n \in k .. E - 1 : h[n][i] \notin V /\ h[n + 1][i] \in V
  BY <1>1, <1>2, Crossing
<1>4. /\ n \in k .. E - 1 /\ n \in 1 .. E - 1 /\ h[n] \in [Item -> ItemStatus] /\ t[n] \in Transaction
      /\ h[n + 1] = After(h[n], t[n])
  BY <1>1, <1>3 DEF Replay
<1>5. h[n][i] # "Done" /\ h[n + 1][i] = "Done"
  BY <1>2, <1>3
<1>6. t[n] = <<"finish", i>> /\ Applies(h[n], "finish", i)
  BY <1>4, <1>5, AfterCases
<1> QED
  BY <1>4, <1>5, <1>6 DEF FinishesAt

\* An export whose status is no longer unknown was observed at some step.
LEMMA ReplayObserves ==
  ASSUME NEW E, NEW h, NEW t, NEW k, NEW n, NEW i,
         E \in Nat, Replay(h, t, E), k \in 1 .. E, n \in k .. E,
         i \in Item, IsExport(i), h[k][i] = "None", h[n][i] # "None"
  PROVE  ObservedIn(t, k, n, i)
<1>1. n \in Nat /\ k \in Nat /\ k <= n /\ h[n] \in [Item -> ItemStatus]
  BY DEF Replay
<1>2. PICK V : V = {"Observed", "Done"}
  BY Zenon
<1>3. h[k][i] \notin V /\ h[n][i] \in V
  BY <1>1, <1>2 DEF ItemStatus
<1>4. PICK m \in k .. n - 1 : h[m][i] \notin V /\ h[m + 1][i] \in V
  BY <1>1, <1>3, Crossing
<1>5. /\ m \in 1 .. E - 1 /\ h[m] \in [Item -> ItemStatus] /\ t[m] \in Transaction
      /\ h[m + 1] = After(h[m], t[m])
  BY <1>1, <1>4 DEF Replay
<1>6. h[m][i] = "None" /\ h[m + 1][i] # h[m][i]
  BY <1>2, <1>4, <1>5 DEF ItemStatus
<1>7. ~ Applies(h[m], "finish", i)
  BY <1>6 DEF Applies
<1>8. t[m] = <<"observe", i>>
  BY <1>5, <1>6, <1>7, AfterCases
<1> QED
  BY <1>4, <1>8 DEF ObservedIn

-----------------------------------------------------------------------------
(* The pool *)

\* A bounded set of numbers that is not empty has a largest one.
LEMMA LargestBelow ==
  ASSUME NEW L \in Nat, NEW S, S \subseteq 0 .. L, S # {}
  PROVE  Max(S) \in S /\ \A y \in S : Max(S) >= y
<1>1. PICK T : T = {L - n : n \in S}
  BY Zenon
<1>2. T \subseteq Nat /\ T # {}
  <2>1. \A n \in S : n \in 0 .. L /\ L - n \in Nat
    OBVIOUS
  <2>2. PICK n : n \in S
    OBVIOUS
  <2>3. L - n \in T
    BY <1>1, <2>2
  <2> QED
    BY <1>1, <2>1, <2>3
<1>3. PICK d \in T : \A e \in T : d <= e
  BY <1>2, Smallest, Zenon
<1>4. PICK n \in S : d = L - n
  BY <1>1, <1>3
<1>5. ASSUME NEW y \in S
      PROVE  n >= y
  <2>1. L - y \in T
    BY <1>1
  <2>2. d <= L - y
    BY <1>3, <2>1
  <2>3. n \in 0 .. L /\ y \in 0 .. L
    OBVIOUS
  <2> QED
    BY <1>4, <2>2, <2>3
<1>6. \E x \in S : \A y \in S : x >= y
  BY <1>5
<1> QED
  BY <1>6, Zenon DEF Max

\* What is behind the last extrinsic is cut off, and nothing else.
LEMMA TrimKeeps ==
  ASSUME NEW S, NEW q \in Seq(S)
  PROVE  /\ Trim(q) \in Seq(S)
         /\ DOMAIN Trim(q) \subseteq DOMAIN q
         /\ \A n \in DOMAIN Trim(q) : Trim(q)[n] = q[n]
         /\ \A n \in DOMAIN q : q[n] # Gap => n \in DOMAIN Trim(q)
<1>1. PICK T : T = {0} \cup {n \in DOMAIN q : q[n] # Gap}
  BY Zenon
<1>2. T \subseteq 0 .. Len(q) /\ T # {} /\ Len(q) \in Nat /\ DOMAIN q = 1 .. Len(q)
  BY <1>1
<1>3. PICK m : m = Max(T)
  OBVIOUS
<1>4. m \in 0 .. Len(q) /\ \A n \in T : m >= n
  BY <1>2, <1>3, LargestBelow, Zenon
<1>5. Trim(q) = SubSeq(q, 1, m)
  BY <1>1, <1>3 DEF Trim
<1>6. \A i \in 1 .. m : q[i] \in S
  BY <1>2, <1>4
<1>7. /\ Trim(q) \in Seq(S) /\ Len(Trim(q)) = m
      /\ \A i \in 1 .. m : Trim(q)[i] = q[i]
  BY <1>2, <1>4, <1>5, <1>6
<1>8. DOMAIN Trim(q) = 1 .. m
  BY <1>7
<1>9. ASSUME NEW n \in DOMAIN q, q[n] # Gap
      PROVE  n \in 1 .. m
  BY <1>1, <1>2, <1>4, <1>9
<1> QED
  BY <1>2, <1>4, <1>7, <1>8, <1>9

\* The extrinsics of q about the items in D are where they were in q2.
KeepsThose(q, q2, D) ==
    \A n \in DOMAIN q : \A i \in D :
        q[n] = <<"observe", i>> \/ q[n] = <<"finish", i>> => n \in DOMAIN q2 /\ q2[n] = q[n]

\* An extrinsic in the pool is not a gap.
LEMMA NotGap ==
  ASSUME NEW i
  PROVE  <<"finish", i>> # Gap /\ <<"observe", i>> # Gap
BY DEF Gap

\* The pool settles what it did as long as the extrinsics about that stay.
LEMMA SettlesKept ==
  ASSUME NEW R, NEW q, NEW st, NEW D, NEW q2,
         PoolOK(q, R), WillSettle(q, st, D), KeepsThose(q, q2, D)
  PROVE  WillSettle(q2, st, D)
<1> PICK L \in Nat : DOMAIN q = 1 .. L
  BY DEF PoolOK
<1> PICK pos \in [D -> DOMAIN q] : Settles(q, st, D, pos)
  BY DEF WillSettle
<1>1. ASSUME NEW i \in D
      PROVE  /\ pos[i] \in DOMAIN q2
             /\ q2[pos[i]] = <<"finish", i>>
             /\ i \notin Refused
             /\ IsExport(i) /\ st[i] = "None" => \E m \in 1 .. pos[i] - 1 : q2[m] = <<"observe", i>>
             /\ i \in DOMAIN Prerequisite /\ st[Prerequisite[i]] # "Done" =>
                   Prerequisite[i] \in D /\ pos[Prerequisite[i]] < pos[i]
  <2>1. pos[i] \in 1 .. L /\ q[pos[i]] = <<"finish", i>>
    BY DEF Settles
  <2>2. pos[i] \in DOMAIN q2 /\ q2[pos[i]] = <<"finish", i>>
    BY <2>1 DEF KeepsThose
  <2>3. ASSUME IsExport(i), st[i] = "None"
        PROVE  \E m \in 1 .. pos[i] - 1 : q2[m] = <<"observe", i>>
    <3>1. PICK m \in 1 .. pos[i] - 1 : q[m] = <<"observe", i>>
      BY <2>3, Zenon DEF Settles
    <3>2. m \in DOMAIN q
      BY <2>1
    <3> QED
      BY <3>1, <3>2 DEF KeepsThose
  <2> QED
    BY <2>2, <2>3 DEF Settles
<1> QED
  BY <1>1, Zenon DEF Settles, WillSettle

\* After the first extrinsic is included the rest settles what is left.
Left(D, st) == {i \in D : st[i] # "Done"}

\* What a pool settles beyond its first extrinsic, the rest of it settles.
LEMMA SettlesRest ==
  ASSUME NEW R, NEW q, NEW tx, NEW st, NEW D,
         PoolOK(q, R), q # <<>>, tx \in Transaction, Head(q) = tx,
         StatusOK(st, R), Unsettled(D, st), WillSettle(q, st, D)
  PROVE  WillSettle(Tail(q), After(st, tx), Left(D, After(st, tx)))
<1> PICK pos \in [D -> DOMAIN q] : Settles(q, st, D, pos)
  BY DEF WillSettle
<1> PICK st2, D2 : st2 = After(st, tx) /\ D2 = Left(D, st2)
  OBVIOUS
<1> PICK pos2 : pos2 = [i \in D2 |-> pos[i] - 1]
  BY Zenon
<1>1. /\ Len(q) \in Nat /\ Len(q) # 0 /\ DOMAIN q = 1 .. Len(q) /\ q[1] = tx
  BY DEF PoolOK
<1>2. /\ DOMAIN Tail(q) = 1 .. Len(q) - 1
      /\ \A n \in 1 .. Len(q) - 1 : Tail(q)[n] = q[n + 1]
  BY <1>1 DEF PoolOK
<1>3. /\ st2 \in [Item -> ItemStatus] /\ st \in [Item -> ItemStatus]
      /\ \A i \in Item : st[i] = "Done" => st2[i] = "Done"
  BY AfterCases, AfterKeepsDone DEF StatusOK
<1>4. ASSUME NEW i \in D2
      PROVE  /\ pos2[i] \in DOMAIN Tail(q)
             /\ Tail(q)[pos2[i]] = <<"finish", i>>
             /\ i \notin Refused
             /\ IsExport(i) /\ st2[i] = "None" =>
                   \E m \in 1 .. pos2[i] - 1 : Tail(q)[m] = <<"observe", i>>
             /\ i \in DOMAIN Prerequisite /\ st2[Prerequisite[i]] # "Done" =>
                   Prerequisite[i] \in D2 /\ pos2[Prerequisite[i]] < pos2[i]
  <2>1. i \in D /\ i \in Item /\ st[i] # "Done" /\ st2[i] # "Done" /\ pos2[i] = pos[i] - 1
    BY DEF Unsettled, Left
  <2>2. pos[i] \in 1 .. Len(q) /\ q[pos[i]] = <<"finish", i>> /\ i \notin Refused
    BY <1>1, <2>1 DEF Settles
  <2>3. pos[i] # 1
    <3>1. SUFFICES ASSUME pos[i] = 1
                   PROVE  FALSE
      OBVIOUS
    <3>2. tx = <<"finish", i>>
      BY <1>1, <2>2, <3>1, Zenon
    <3>3. ~ (IsExport(i) /\ st[i] = "None")
      BY <2>1, <3>1 DEF Settles
    <3>4. st[i] = (IF IsExport(i) THEN "Observed" ELSE "None")
      BY <1>3, <2>1, <3>3 DEF ItemStatus, StatusOK
    <3>5. i \in DOMAIN Prerequisite => st[Prerequisite[i]] = "Done"
      <4>1. SUFFICES ASSUME i \in DOMAIN Prerequisite, st[Prerequisite[i]] # "Done"
                     PROVE  FALSE
        OBVIOUS
      <4>2. Prerequisite[i] \in D /\ pos[Prerequisite[i]] < pos[i]
        BY <2>1, <4>1 DEF Settles
      <4>3. pos[Prerequisite[i]] \in 1 .. Len(q)
        BY <1>1, <4>2
      <4> QED
        BY <3>1, <4>2, <4>3
    <3>6. Applies(st, "finish", i)
      BY <2>2, <3>4, <3>5 DEF Applies
    <3>7. st2[i] = "Done"
      BY <1>3, <2>1, <3>2, <3>6 DEF After
    <3> QED
      BY <2>1, <3>7
  <2>4. pos2[i] \in 1 .. Len(q) - 1 /\ pos2[i] + 1 = pos[i]
    BY <1>1, <2>1, <2>2, <2>3
  <2>5. ASSUME IsExport(i), st2[i] = "None"
        PROVE  \E m \in 1 .. pos2[i] - 1 : Tail(q)[m] = <<"observe", i>>
    <3>1. st[i] = "None"
      BY <1>3, <2>1, <2>5, AfterCases
    <3>2. PICK m \in 1 .. pos[i] - 1 : q[m] = <<"observe", i>>
      BY <2>1, <2>5, <3>1, Zenon DEF Settles
    <3>3. m # 1
      <4>1. SUFFICES ASSUME tx = <<"observe", i>>
                     PROVE  FALSE
        BY <1>1, <3>2, Zenon
      <4>2. Applies(st, "observe", i)
        BY <3>1 DEF Applies
      <4>3. st2[i] = "Observed"
        BY <1>3, <2>1, <4>1, <4>2 DEF After
      <4> QED
        BY <2>5, <4>3
    <3>4. m - 1 \in 1 .. pos2[i] - 1 /\ m - 1 \in 1 .. Len(q) - 1 /\ (m - 1) + 1 = m
      BY <2>2, <2>4, <3>2, <3>3
    <3>5. Tail(q)[m - 1] = <<"observe", i>>
      BY <1>2, <3>2, <3>4
    <3> QED
      BY <3>4, <3>5
  <2>6. ASSUME i \in DOMAIN Prerequisite, st2[Prerequisite[i]] # "Done"
        PROVE  Prerequisite[i] \in D2 /\ pos2[Prerequisite[i]] < pos2[i]
    <3>1. Prerequisite[i] \in Item
      BY <2>6, ImporterAssumption DEF Range
    <3>2. st[Prerequisite[i]] # "Done"
      BY <1>3, <2>6, <3>1
    <3>3. Prerequisite[i] \in D /\ pos[Prerequisite[i]] < pos[i]
      BY <2>1, <2>6, <3>2 DEF Settles
    <3>4. pos[Prerequisite[i]] \in 1 .. Len(q)
      BY <1>1, <3>3
    <3>5. Prerequisite[i] \in D2 /\ pos2[Prerequisite[i]] = pos[Prerequisite[i]] - 1
      BY <2>6, <3>3 DEF Left
    <3> QED
      BY <2>1, <2>2, <3>3, <3>4, <3>5
  <2> QED
    BY <1>2, <2>2, <2>4, <2>5, <2>6, Zenon
<1>5. pos2 \in [D2 -> DOMAIN Tail(q)]
  BY <1>4
<1> QED
  BY <1>4, <1>5, Zenon DEF Settles, WillSettle

\* The pool q2 has the extrinsics of t from k on in its first U places, and
\* behind them what q has.
InFront(q2, t, k, U) == \A n \in 1 .. U : n \in DOMAIN q2 /\ q2[n] = t[k + n - 1]
Behind(q2, q, N, U) == \A n \in 1 .. N : q[n] # Gap => U + n \in DOMAIN q2 /\ q2[U + n] = q[n]

\* What is to be settled again when the chain goes back from now to then.
Again(D, then, now) == {i \in Item : then[i] # "Done" /\ (i \in D \/ now[i] = "Done")}

\* Extrinsics that are undone and all put back in front of the pool settle again
\* what they had settled, and the pool behind them still settles what it did.
LEMMA SettlesAgain ==
  ASSUME NEW R, NEW E, NEW h, NEW t, NEW k, NEW q, NEW D, NEW q2
  PROVE  /\ E \in Nat /\ Replay(h, t, E) /\ k \in 1 .. E - 1 /\ PoolOK(q, R)
         /\ Unsettled(D, h[E]) /\ WillSettle(q, h[E], D)
         /\ InFront(q2, t, k, E - k) /\ Behind(q2, q, Len(q), E - k)
         => WillSettle(q2, h[k], Again(D, h[k], h[E]))
<1>0. SUFFICES ASSUME E \in Nat, Replay(h, t, E), k \in 1 .. E - 1, PoolOK(q, R),
                      Unsettled(D, h[E]), WillSettle(q, h[E], D),
                      InFront(q2, t, k, E - k), Behind(q2, q, Len(q), E - k)
               PROVE  WillSettle(q2, h[k], Again(D, h[k], h[E]))
  OBVIOUS
<1>1. PICK N, U : N = Len(q) /\ U = E - k
  BY Zenon
<1>2. /\ N \in Nat /\ DOMAIN q = 1 .. N
      /\ U \in Nat /\ E \in Nat /\ k \in Nat /\ k <= E - 1 /\ k \in 1 .. E /\ E \in k .. E
      /\ InFront(q2, t, k, U) /\ Behind(q2, q, N, U)
  BY <1>0, <1>1 DEF PoolOK
<1>3. PICK pos : pos \in [D -> DOMAIN q] /\ Settles(q, h[E], D, pos)
  BY <1>0 DEF WillSettle
<1>4. PICK D2 : D2 = Again(D, h[k], h[E])
  OBVIOUS
<1>5. /\ \A i \in D2 : i \in Item /\ h[k][i] # "Done" /\ (i \in D \/ h[E][i] = "Done")
      /\ \A i \in Item : h[k][i] # "Done" /\ (i \in D \/ h[E][i] = "Done") => i \in D2
      /\ \A i \in D : i \in Item /\ h[E][i] # "Done"
  BY <1>0, <1>4 DEF Again, Unsettled
<1>6. PICK c : c = [i \in D2 |-> CHOOSE n \in k .. E - 1 : FinishesAt(h, t, n, i)]
  BY Zenon
<1>7. ASSUME NEW i, i \in D2, i \notin D
      PROVE  c[i] \in k .. E - 1 /\ FinishesAt(h, t, c[i], i)
  <2>1. i \in Item /\ h[k][i] # "Done" /\ h[E][i] = "Done"
    BY <1>5, <1>7
  <2>2. \E n \in k .. E - 1 : FinishesAt(h, t, n, i)
    BY <1>0, <1>2, <2>1, ReplayFinishes
  <2> QED
    BY <1>6, <1>7, <2>2
<1>8. PICK pos2 : pos2 = [i \in D2 |-> IF i \in D THEN U + pos[i] ELSE c[i] - k + 1]
  BY Zenon
<1>9. \A i \in Item : <<"finish", i>> # Gap /\ <<"observe", i>> # Gap
  BY DEF Gap
<1>10. ASSUME NEW i, i \in D2, i \in D
       PROVE  /\ pos2[i] \in DOMAIN q2 /\ pos2[i] = U + pos[i] /\ pos[i] \in 1 .. N
              /\ q2[pos2[i]] = <<"finish", i>>
              /\ i \notin Refused
  <2>1. pos[i] \in 1 .. N /\ q[pos[i]] = <<"finish", i>> /\ i \notin Refused
    BY <1>2, <1>3, <1>10 DEF Settles
  <2>2. pos2[i] = U + pos[i]
    BY <1>8, <1>10
  <2>3. q[pos[i]] # Gap
    BY <1>5, <1>9, <1>10, <2>1
  <2>4. U + pos[i] \in DOMAIN q2 /\ q2[U + pos[i]] = q[pos[i]]
    BY <1>2, <2>1, <2>3, Zenon DEF Behind
  <2> QED
    BY <2>1, <2>2, <2>4
<1>11. ASSUME NEW i, i \in D2, i \notin D
       PROVE  /\ pos2[i] \in DOMAIN q2 /\ pos2[i] = c[i] - k + 1 /\ pos2[i] \in 1 .. U
              /\ q2[pos2[i]] = <<"finish", i>>
              /\ i \notin Refused
  <2>1. c[i] \in k .. E - 1 /\ FinishesAt(h, t, c[i], i)
    BY <1>7, <1>11
  <2>2. pos2[i] = c[i] - k + 1
    BY <1>8, <1>11
  <2>3. pos2[i] \in 1 .. U /\ k + pos2[i] - 1 = c[i]
    BY <1>1, <1>2, <2>1, <2>2
  <2>4. pos2[i] \in DOMAIN q2 /\ q2[pos2[i]] = t[c[i]]
    BY <1>2, <2>3 DEF InFront
  <2> QED
    BY <2>1, <2>2, <2>3, <2>4 DEF FinishesAt, Applies
<1>12. ASSUME NEW i, i \in D2, IsExport(i), h[k][i] = "None"
       PROVE  \E m \in 1 .. pos2[i] - 1 : q2[m] = <<"observe", i>>
  <2>1. ASSUME NEW e, e \in k .. E, ObservedIn(t, k, e, i), pos2[i] \in Nat, e - k < pos2[i]
        PROVE  \E m \in 1 .. pos2[i] - 1 : q2[m] = <<"observe", i>>
    <3>1. PICK m : m \in k .. e - 1 /\ t[m] = <<"observe", i>>
      BY <2>1 DEF ObservedIn
    <3>2. PICK n : n = m - k + 1
      OBVIOUS
    <3>3. n \in 1 .. U /\ k + n - 1 = m /\ n \in 1 .. pos2[i] - 1
      BY <1>1, <1>2, <2>1, <3>1, <3>2
    <3> QED
      BY <1>2, <3>1, <3>3 DEF InFront
  <2>2. CASE i \notin D
    <3>1. c[i] \in k .. E - 1 /\ Applies(h[c[i]], "finish", i)
      BY <1>7, <1>12, <2>2 DEF FinishesAt
    <3>2. h[c[i]][i] # "None"
      BY <1>12, <3>1 DEF Applies
    <3>3. c[i] \in k .. E /\ i \in Item
      BY <1>2, <1>5, <1>12, <3>1
    <3>4. ObservedIn(t, k, c[i], i)
      BY <1>0, <1>2, <1>12, <3>2, <3>3, ReplayObserves
    <3>5. pos2[i] \in Nat /\ c[i] - k < pos2[i]
      BY <1>2, <1>11, <1>12, <2>2, <3>1
    <3> QED
      BY <2>1, <3>3, <3>4, <3>5
  <2>3. CASE i \in D /\ h[E][i] # "None"
    <3>1. ObservedIn(t, k, E, i)
      BY <1>0, <1>2, <1>5, <1>12, <2>3, ReplayObserves
    <3>2. pos2[i] \in Nat /\ E - k < pos2[i]
      BY <1>1, <1>2, <1>10, <1>12, <2>3
    <3> QED
      BY <1>2, <2>1, <3>1, <3>2
  <2>4. CASE i \in D /\ h[E][i] = "None"
    <3>1. PICK m : m \in 1 .. pos[i] - 1 /\ q[m] = <<"observe", i>>
      BY <1>3, <1>12, <2>4 DEF Settles
    <3>2. m \in 1 .. N /\ U + m \in 1 .. pos2[i] - 1
      BY <1>2, <1>10, <1>12, <2>4, <3>1
    <3>3. q[m] # Gap
      BY <1>5, <1>9, <1>12, <3>1
    <3>4. q2[U + m] = <<"observe", i>>
      BY <1>2, <3>1, <3>2, <3>3, Zenon DEF Behind
    <3> QED
      BY <3>2, <3>4
  <2> QED
    BY <2>2, <2>3, <2>4
<1>13. ASSUME NEW i, i \in D2, i \in DOMAIN Prerequisite, h[k][Prerequisite[i]] # "Done"
       PROVE  Prerequisite[i] \in D2 /\ pos2[Prerequisite[i]] < pos2[i]
  <2>1. PICK j : j = Prerequisite[i]
    OBVIOUS
  <2>2. j \in Item /\ h[k][j] # "Done"
    BY <1>13, <2>1, ImporterAssumption DEF Range
  <2>3. CASE i \in D /\ h[E][j] # "Done"
    <3>1. j \in D /\ pos[j] < pos[i]
      BY <1>3, <1>13, <2>1, <2>3 DEF Settles
    <3>2. j \in D2
      BY <1>5, <2>2, <3>1
    <3>3. pos2[j] = U + pos[j] /\ pos[j] \in 1 .. N /\ pos2[i] = U + pos[i] /\ pos[i] \in 1 .. N
      BY <1>10, <1>13, <2>3, <3>1, <3>2
    <3> QED
      BY <1>2, <2>1, <3>1, <3>2, <3>3
  <2>4. CASE i \in D /\ h[E][j] = "Done"
    <3>1. j \in D2 /\ j \notin D
      BY <1>5, <2>2, <2>4
    <3>2. pos2[j] \in 1 .. U /\ pos2[i] = U + pos[i] /\ pos[i] \in 1 .. N
      BY <1>10, <1>11, <1>13, <2>4, <3>1
    <3> QED
      BY <1>2, <2>1, <3>1, <3>2
  <2>5. CASE i \notin D
    <3>1. c[i] \in k .. E - 1 /\ Applies(h[c[i]], "finish", i)
      BY <1>7, <1>13, <2>5 DEF FinishesAt
    <3>2. h[c[i]][j] = "Done"
      BY <1>13, <2>1, <3>1 DEF Applies
    <3>3. c[i] \in 1 .. E /\ E \in c[i] .. E
      BY <1>2, <3>1
    <3>4. h[E][j] = "Done"
      BY <1>0, <1>2, <2>2, <3>2, <3>3, ReplayKeepsDone
    <3>5. j \in D2 /\ j \notin D
      BY <1>5, <2>2, <3>4
    <3>6. c[j] \in k .. E - 1 /\ h[c[j]][j] # "Done"
      BY <1>7, <3>5 DEF FinishesAt
    <3>7. c[j] < c[i]
      <4>1. SUFFICES ASSUME c[i] <= c[j]
                     PROVE  FALSE
        BY <1>2, <3>1, <3>6
      <4>2. c[j] \in c[i] .. E
        BY <1>2, <3>1, <3>6, <4>1
      <4>3. h[c[j]][j] = "Done"
        BY <1>0, <1>2, <2>2, <3>2, <3>3, <4>2, ReplayKeepsDone
      <4> QED
        BY <3>6, <4>3
    <3>8. pos2[j] = c[j] - k + 1 /\ pos2[i] = c[i] - k + 1
      BY <1>11, <1>13, <2>5, <3>5
    <3> QED
      BY <1>2, <2>1, <3>1, <3>5, <3>6, <3>7, <3>8
  <2> QED
    BY <2>3, <2>4, <2>5
<1>14. pos2 \in [D2 -> DOMAIN q2]
  BY <1>8, <1>10, <1>11
<1>15. Settles(q2, h[k], D2, pos2)
  BY <1>10, <1>11, <1>12, <1>13 DEF Settles
<1> QED
  BY <1>4, <1>14, <1>15 DEF WillSettle

-----------------------------------------------------------------------------
(* The recent extrinsics *)

\* The recent blocks lead to the present state after another extrinsic too.
LEMMA RecentAppend ==
  ASSUME NEW R, NEW rec, NEW st, RecentOK(rec, st, R), StatusOK(st, R), NEW tx, IsTx(tx, R)
  PROVE  RecentOK(Append(rec, [tx |-> tx, before |-> st]), After(st, tx), R)
<1>1. PICK r : r = [tx |-> tx, before |-> st]
  BY Zenon
<1>2. r \in Included /\ r.tx = tx /\ r.before = st
  BY <1>1 DEF Included, StatusOK, IsTx
<1>3. PICK all : all = Append(rec, r)
  BY Zenon
<1>4. PICK L : L = Len(rec)
  BY Zenon
<1>5. /\ L \in Nat /\ rec \in Seq(Included) /\ all \in Seq(Included)
      /\ Len(all) = L + 1 /\ all[L + 1] = r
      /\ \A n \in 1 .. L : all[n] = rec[n]
  BY <1>2, <1>3, <1>4 DEF RecentOK
<1>6. ASSUME NEW n \in 1 .. L + 1
      PROVE  /\ IsTx(all[n].tx, R)
             /\ StatusOK(all[n].before, R)
             /\ StatusAt(all, After(st, tx), n + 1) = After(all[n].before, all[n].tx)
  <2>1. CASE n = L + 1
    BY <1>2, <1>5, <2>1 DEF StatusAt
  <2>2. CASE n = L
    <3>1. n \in 1 .. L /\ ~ (n + 1 <= L) /\ n + 1 <= L + 1 /\ n + 1 = L + 1
      BY <1>5, <2>2
    <3>2. StatusAt(all, After(st, tx), n + 1) = st
      BY <1>2, <1>5, <3>1 DEF StatusAt
    <3>3. StatusAt(rec, st, n + 1) = st
      BY <1>4, <3>1 DEF StatusAt
    <3> QED
      BY <1>4, <1>5, <3>1, <3>2, <3>3 DEF RecentOK
  <2>3. CASE n < L
    <3>1. n \in 1 .. L /\ n + 1 \in 1 .. L /\ n + 1 <= L + 1
      BY <1>5, <2>3
    <3>2. StatusAt(all, After(st, tx), n + 1) = StatusAt(rec, st, n + 1)
      BY <1>4, <1>5, <3>1 DEF StatusAt
    <3> QED
      BY <1>4, <1>5, <3>1, <3>2 DEF RecentOK
  <2> QED
    BY <1>5, <2>1, <2>2, <2>3
<1> QED
  BY <1>1, <1>3, <1>5, <1>6 DEF RecentOK

\* The last of the recent blocks lead to the present state.
LEMMA RecentSuffix ==
  ASSUME NEW R, NEW rec, NEW st, RecentOK(rec, st, R), NEW s \in 0 .. Len(rec)
  PROVE  RecentOK(SubSeq(rec, s + 1, Len(rec)), st, R)
<1>1. PICK L : L = Len(rec)
  OBVIOUS
<1>2. L \in Nat /\ rec \in Seq(Included) /\ s \in 0 .. L /\ DOMAIN rec = 1 .. L
  BY <1>1 DEF RecentOK
<1>3. PICK q : q = SubSeq(rec, s + 1, L)
  BY Zenon
<1>4. PICK M : M = L - s
  OBVIOUS
<1>5. M \in Nat /\ s + M = L
  BY <1>2, <1>4
<1>6. q \in Seq(Included) /\ Len(q) = M /\ \A n \in 1 .. M : q[n] = rec[s + n]
  <2>1. q = [n \in 1 .. M |-> rec[s + n]]
    BY <1>2, <1>3, <1>4, <1>5
  <2>2. \A n \in 1 .. M : s + n \in 1 .. L
    BY <1>2, <1>5
  <2>3. \A n \in 1 .. M : rec[s + n] \in Included
    BY <1>2, <2>2
  <2> QED
    BY <1>5, <2>1, <2>3
<1>7. ASSUME NEW n \in 1 .. M
      PROVE  /\ IsTx(q[n].tx, R)
             /\ StatusOK(q[n].before, R)
             /\ StatusAt(q, st, n + 1) = After(q[n].before, q[n].tx)
  <2>1. s + n \in 1 .. L /\ (n + 1 <= M <=> (s + n) + 1 <= L) /\ s + (n + 1) = (s + n) + 1
    BY <1>2, <1>5
  <2>2. /\ IsTx(rec[s + n].tx, R) /\ StatusOK(rec[s + n].before, R)
        /\ StatusAt(rec, st, (s + n) + 1) = After(rec[s + n].before, rec[s + n].tx)
    BY <1>1, <2>1 DEF RecentOK
  <2>3. n + 1 <= M => q[n + 1] = rec[(s + n) + 1]
    BY <1>5, <1>6, <2>1
  <2>4. StatusAt(q, st, n + 1) = StatusAt(rec, st, (s + n) + 1)
    BY <1>1, <1>6, <2>1, <2>3 DEF StatusAt
  <2> QED
    BY <1>6, <2>2, <2>4
<1> QED
  BY <1>1, <1>3, <1>6, <1>7, Zenon DEF RecentOK

\* The recent extrinsics, replayed, lead to the status.
LEMMA RecentReplays ==
  ASSUME NEW R, NEW rec, NEW st, RecentOK(rec, st, R), StatusOK(st, R),
         NEW E, E = Len(rec) + 1,
         NEW h, h = [n \in 1 .. E |-> StatusAt(rec, st, n)],
         NEW t, t = [n \in 1 .. E - 1 |-> rec[n].tx]
  PROVE  E \in Nat /\ Replay(h, t, E) /\ h[E] = st /\ \A n \in 1 .. E - 1 : h[n] = rec[n].before
<1>1. Len(rec) \in Nat /\ E \in Nat /\ E - 1 = Len(rec)
  BY DEF RecentOK
<1>2. h[E] = st
  BY <1>1 DEF StatusAt
<1>3. \A n \in 1 .. E - 1 : h[n] = rec[n].before
  BY <1>1 DEF StatusAt
<1>4. ASSUME NEW n \in 1 .. E - 1
      PROVE  t[n] \in Transaction /\ h[n + 1] = After(h[n], t[n])
  <2>1. n \in 1 .. Len(rec) /\ n + 1 \in 1 .. E
    BY <1>1
  <2>2. IsTx(rec[n].tx, R) /\ StatusAt(rec, st, n + 1) = After(rec[n].before, rec[n].tx)
    BY <2>1 DEF RecentOK
  <2> QED
    BY <1>3, <2>1, <2>2, Zenon DEF IsTx
<1>5. ASSUME NEW n \in 1 .. E
      PROVE  h[n] \in [Item -> ItemStatus]
  <2>1. CASE n = E
    BY <1>2, <2>1 DEF StatusOK
  <2>2. CASE n # E
    <3>1. n \in 1 .. E - 1 /\ n \in 1 .. Len(rec)
      BY <1>1, <2>2
    <3>2. StatusOK(rec[n].before, R)
      BY <3>1 DEF RecentOK
    <3> QED
      BY <1>3, <3>1, <3>2, Zenon DEF StatusOK
  <2> QED
    BY <2>1, <2>2
<1> QED
  BY <1>1, <1>2, <1>3, <1>4, <1>5, Zenon DEF Replay

-----------------------------------------------------------------------------
(* Steps of the chain *)

\* Everything that may be claimed is done or waits to be settled again.
LEMMA ClaimGrows ==
  ASSUME ChainOK', dropped => dropped',
         \A i \in Item : status[i] = "Done" \/ i \in retracted => status'[i] = "Done" \/ i \in retracted'
  PROVE  Claimable \subseteq Claimable'
<1>1. ASSUME NEW i \in Claimable, ~ dropped'
      PROVE  Applied(i)'
  <2>1. i \in Item /\ (status'[i] = "Done" \/ i \in retracted')
    BY <1>1 DEF Claimable, Applied
  <2>2. ASSUME i \in retracted'
        PROVE  <<"finish", i>> \in Range(pool')
    <3>1. PICK pos \in [retracted' -> DOMAIN pool'] : Settles(pool', status', retracted', pos)
      BY <1>1 DEF ChainOK, RetractedOK, WillSettle
    <3>2. pos[i] \in DOMAIN pool' /\ pool'[pos[i]] = <<"finish", i>>
      BY <2>2, <3>1 DEF Settles
    <3> QED
      BY <3>2 DEF Range
  <2> QED
    BY <2>1, <2>2 DEF Applied
<1> QED
  BY <1>1 DEF Claimable

\* Including an extrinsic settles items and unsettles none.
LEMMA IncludeStep ==
  ASSUME ChainOK, NEW tx \in Transaction, Include(tx)
  PROVE  ChainOK' /\ Claimable \subseteq Claimable'
<1>1. /\ StatusOK(status, received) /\ PoolOK(pool, received)
      /\ RecentOK(recent, status, received) /\ RetractedOK
  BY DEF ChainOK
<1>2. /\ pool # <<>> /\ Head(pool) = tx /\ pool' = Tail(pool) /\ status' = After(status, tx)
      /\ retracted' = {i \in retracted : status'[i] # "Done"}
      /\ dropped' = dropped /\ received' = received
  BY DEF Include
<1>3. pool \in Seq(Transaction \cup {Gap}) /\ Len(pool) \in Nat /\ Len(pool) # 0 /\ pool[1] = tx
  BY <1>1, <1>2 DEF PoolOK
<1>4. IsTx(tx, received)
  <2>1. tx # Gap
    BY DEF Transaction, Gap
  <2>2. 1 \in DOMAIN pool
    BY <1>3
  <2> QED
    BY <1>1, <1>3, <2>1, <2>2 DEF PoolOK
<1>5. StatusOK(status', received')
  BY <1>1, <1>2, <1>4, AfterIsOK
<1>6. PoolOK(pool', received')
  <2>1. Tail(pool) \in Seq(Transaction \cup {Gap})
    BY <1>3
  <2>2. ASSUME NEW n \in DOMAIN Tail(pool)
        PROVE  n + 1 \in DOMAIN pool /\ Tail(pool)[n] = pool[n + 1]
    BY <1>3
  <2> QED
    BY <1>1, <1>2, <2>1, <2>2 DEF PoolOK
<1>7. RecentOK(recent', status', received')
  <2>1. PICK all : all = Append(recent, [tx |-> tx, before |-> status])
    BY Zenon
  <2>2. RecentOK(all, status', received)
    BY <1>1, <1>2, <1>4, <2>1, RecentAppend
  <2>3. PICK d : d = Min({Depth, Len(all)})
    OBVIOUS
  <2>4. Len(all) \in Nat /\ Depth \in Nat
    BY <2>2, ImporterAssumption DEF RecentOK, Depth
  <2>5. d \in 0 .. Len(all)
    <3>1. \E x \in {Depth, Len(all)} : \A y \in {Depth, Len(all)} : x <= y
      BY <2>4
    <3>2. d \in {Depth, Len(all)} /\ \A y \in {Depth, Len(all)} : d <= y
      BY <2>3, <3>1 DEF Min
    <3> QED
      BY <2>4, <3>2
  <2>6. PICK s : s = Len(all) - d
    OBVIOUS
  <2>7. s \in 0 .. Len(all)
    BY <2>4, <2>5, <2>6
  <2>8. recent' = SubSeq(all, s + 1, Len(all))
    BY <2>1, <2>3, <2>6 DEF Include
  <2> QED
    BY <1>2, <2>2, <2>7, <2>8, RecentSuffix
<1>8. RetractedOK'
  <2>1. /\ Unsettled(retracted, status)
        /\ dropped \in BOOLEAN
    BY <1>1 DEF RetractedOK
  <2>2. ASSUME ~ dropped
        PROVE  WillSettle(pool', status', retracted')
    <3>1. WillSettle(pool, status, retracted)
      BY <1>1, <2>2 DEF RetractedOK
    <3>2. retracted' = Left(retracted, status')
      BY <1>2 DEF Left
    <3>3. pool # <<>> /\ Head(pool) = tx /\ pool' = Tail(pool) /\ status' = After(status, tx)
      BY <1>2
    <3>4. WillSettle(Tail(pool), After(status, tx), Left(retracted, After(status, tx)))
      BY <1>1, <2>1, <3>1, <3>3, SettlesRest
    <3> QED
      BY <3>2, <3>3, <3>4
  <2>3. Unsettled(retracted', status')
    BY <1>2, <2>1 DEF Unsettled
  <2> QED
    BY <1>2, <2>1, <2>2, <2>3 DEF RetractedOK
<1>9. ChainOK'
  BY <1>5, <1>6, <1>7, <1>8 DEF ChainOK
<1>10. \A i \in Item : status[i] = "Done" \/ i \in retracted => status'[i] = "Done" \/ i \in retracted'
  <2>1. status \in [Item -> ItemStatus]
    BY <1>1 DEF StatusOK
  <2> QED
    BY <1>2, <2>1, AfterKeepsDone
<1> QED
  BY <1>2, <1>9, <1>10, ClaimGrows

\* Losing an extrinsic takes nothing away from what may be claimed: when an item
\* that was undone waited for it, the loss is noted.
LEMMA LoseStep ==
  ASSUME ChainOK, NEW tx \in Transaction, Lose(tx)
  PROVE  ChainOK' /\ Claimable \subseteq Claimable'
<1>1. /\ StatusOK(status, received) /\ PoolOK(pool, received)
      /\ RecentOK(recent, status, received) /\ RetractedOK
  BY DEF ChainOK
<1>2. /\ dropped' = (dropped \/ tx[2] \in retracted)
      /\ status' = status /\ recent' = recent /\ retracted' = retracted /\ received' = received
  BY DEF Lose
<1>3. PICK n \in DOMAIN pool : pool[n] = tx /\ pool' = Trim([pool EXCEPT ![n] = Gap])
  BY DEF Lose
<1>4. pool \in Seq(Transaction \cup {Gap})
  BY <1>1 DEF PoolOK
<1>5. PICK q : q = [pool EXCEPT ![n] = Gap]
  BY Zenon
<1>6. /\ q \in Seq(Transaction \cup {Gap}) /\ DOMAIN q = DOMAIN pool /\ q[n] = Gap
      /\ \A m \in DOMAIN pool : m # n => q[m] = pool[m]
  BY <1>4, <1>5
<1>7. /\ pool' \in Seq(Transaction \cup {Gap})
      /\ DOMAIN pool' \subseteq DOMAIN q
      /\ \A m \in DOMAIN pool' : pool'[m] = q[m]
      /\ \A m \in DOMAIN q : q[m] # Gap => m \in DOMAIN pool'
  BY <1>3, <1>5, <1>6, TrimKeeps, Zenon
<1>8. PoolOK(pool', received')
  BY <1>1, <1>2, <1>6, <1>7 DEF PoolOK
<1>9. RetractedOK'
  <2>1. /\ Unsettled(retracted, status)
        /\ dropped \in BOOLEAN
    BY <1>1 DEF RetractedOK
  <2>2. ASSUME ~ dropped'
        PROVE  WillSettle(pool', status, retracted)
    <3>1. WillSettle(pool, status, retracted)
      BY <1>1, <1>2, <2>2 DEF RetractedOK
    <3>2. ASSUME NEW m \in DOMAIN pool, NEW i \in retracted,
                 pool[m] = <<"observe", i>> \/ pool[m] = <<"finish", i>>
          PROVE  m \in DOMAIN pool' /\ pool'[m] = pool[m]
      <4>1. pool[m][2] = i /\ pool[m] # Gap
        BY <3>2 DEF Gap
      <4>2. m # n
        BY <1>2, <1>3, <2>2, <4>1, Zenon
      <4> QED
        BY <1>6, <1>7, <4>1, <4>2
    <3>3. KeepsThose(pool, pool', retracted)
      BY <3>2 DEF KeepsThose
    <3> QED
      BY <1>1, <3>1, <3>3, SettlesKept
  <2> QED
    BY <1>2, <2>1, <2>2 DEF RetractedOK
<1>10. ChainOK'
  BY <1>1, <1>2, <1>8, <1>9 DEF ChainOK
<1> QED
  BY <1>2, <1>10, ClaimGrows, Zenon

\* A reorganisation returns what it unsettles to the pool.
LEMMA ReorgStep ==
  ASSUME ChainOK, Reorg
  PROVE  ChainOK' /\ Claimable \subseteq Claimable'
<1>1. /\ StatusOK(status, received) /\ PoolOK(pool, received)
      /\ RecentOK(recent, status, received) /\ RetractedOK
  BY DEF ChainOK
<1>2. /\ retracted' = {i \in Item : status'[i] # "Done" /\ (i \in retracted \/ status[i] = "Done")}
      /\ recent' = <<>> /\ received' = received
  BY DEF Reorg
<1>3. PICK k, undone, back :
          /\ k \in DOMAIN recent /\ undone = SubSeq(recent, k, Len(recent))
          /\ back \in SUBSET DOMAIN undone
          /\ status' = recent[k].before
          /\ pool' = Trim([n \in DOMAIN undone |-> IF n \in back THEN undone[n].tx ELSE Gap] \o pool)
          /\ dropped' = (dropped \/ back # DOMAIN undone)
  BY Zenon DEF Reorg
<1>4. PICK E, h, t : /\ E = Len(recent) + 1
                     /\ h = [n \in 1 .. E |-> StatusAt(recent, status, n)]
                     /\ t = [n \in 1 .. E - 1 |-> recent[n].tx]
  BY Zenon
<1>5. E \in Nat /\ Replay(h, t, E) /\ h[E] = status /\ \A n \in 1 .. E - 1 : h[n] = recent[n].before
  BY <1>1, <1>4, RecentReplays
<1>6. recent \in Seq(Included) /\ Len(recent) \in Nat /\ Len(recent) = E - 1
  BY <1>1, <1>4 DEF RecentOK
<1>7. k \in 1 .. E - 1 /\ h[k] = status'
  BY <1>3, <1>5, <1>6
<1>8. PICK U : U = E - k
  OBVIOUS
<1>9. /\ U \in Nat /\ DOMAIN undone = 1 .. U
      /\ \A n \in 1 .. U : undone[n] = recent[k + n - 1] /\ k + n - 1 \in 1 .. E - 1
  <2>1. PICK L : L = Len(recent)
    BY Zenon
  <2>2. L \in Nat /\ k \in 1 .. L /\ undone = SubSeq(recent, k, L) /\ L - k + 1 = U
    <3>1. undone = SubSeq(recent, k, L)
      BY <1>3, <2>1
    <3>2. L \in Nat /\ L = E - 1
      BY <1>6, <2>1
    <3> QED
      BY <1>5, <1>7, <1>8, <3>1, <3>2
  <2>3. undone = [n \in 1 .. U |-> recent[k + n - 1]]
    BY <2>2
  <2> QED
    BY <1>5, <1>7, <1>8, <2>3
<1>10. \A n \in 1 .. U : undone[n].tx = t[k + n - 1] /\ IsTx(undone[n].tx, received)
  <2>1. ASSUME NEW n \in 1 .. U
        PROVE  undone[n].tx = t[k + n - 1] /\ IsTx(undone[n].tx, received)
    <3>1. PICK m : m = k + n - 1
      OBVIOUS
    <3>2. m \in 1 .. E - 1 /\ undone[n] = recent[m]
      BY <1>9, <3>1
    <3>3. IsTx(recent[m].tx, received)
      BY <1>1, <1>6, <3>2 DEF RecentOK
    <3> QED
      BY <1>4, <3>1, <3>2, <3>3
  <2> QED
    BY <2>1
<1>11. PICK f, q : /\ f = [n \in DOMAIN undone |-> IF n \in back THEN undone[n].tx ELSE Gap]
                   /\ q = f \o pool
  BY Zenon
<1>12. /\ f \in Seq(Transaction \cup {Gap}) /\ Len(f) = U
       /\ \A n \in 1 .. U : f[n] = (IF n \in back THEN undone[n].tx ELSE Gap)
  <2>1. \A n \in 1 .. U : f[n] = (IF n \in back THEN undone[n].tx ELSE Gap)
    BY <1>9, <1>11
  <2>2. \A n \in 1 .. U : f[n] \in Transaction \cup {Gap}
    BY <1>10, <2>1 DEF IsTx
  <2>3. f = [n \in 1 .. U |-> f[n]]
    BY <1>9, <1>11
  <2> QED
    BY <1>9, <2>1, <2>2, <2>3
<1>13. pool \in Seq(Transaction \cup {Gap}) /\ Len(pool) \in Nat
  BY <1>1 DEF PoolOK
<1>14. /\ q \in Seq(Transaction \cup {Gap}) /\ Len(q) = U + Len(pool)
       /\ \A n \in 1 .. U : q[n] = f[n]
       /\ \A n \in 1 .. Len(pool) : q[U + n] = pool[n]
  <2>1. q \in Seq(Transaction \cup {Gap}) /\ Len(q) = U + Len(pool)
    BY <1>11, <1>12, <1>13
  <2>2. \A n \in 1 .. Len(f) + Len(pool) : q[n] = (IF n <= Len(f) THEN f[n] ELSE pool[n - Len(f)])
    BY <1>11, <1>12, <1>13
  <2>3. ASSUME NEW n \in 1 .. U
        PROVE  q[n] = f[n]
    <3>1. n \in 1 .. Len(f) + Len(pool) /\ n <= Len(f)
      BY <1>9, <1>12, <1>13
    <3> QED
      BY <2>2, <3>1
  <2>4. ASSUME NEW n \in 1 .. Len(pool)
        PROVE  q[U + n] = pool[n]
    <3>1. U + n \in 1 .. Len(f) + Len(pool) /\ ~ (U + n <= Len(f)) /\ (U + n) - Len(f) = n
      BY <1>9, <1>12, <1>13
    <3> QED
      BY <2>2, <3>1
  <2> QED
    BY <2>1, <2>3, <2>4
<1>15. /\ pool' \in Seq(Transaction \cup {Gap})
       /\ DOMAIN pool' \subseteq DOMAIN q
       /\ \A n \in DOMAIN pool' : pool'[n] = q[n]
       /\ \A n \in DOMAIN q : q[n] # Gap => n \in DOMAIN pool'
  <2>1. pool' = Trim(q)
    BY <1>3, <1>11
  <2> QED
    BY <1>14, <2>1, TrimKeeps
<1>16. \A n \in DOMAIN q : q[n] # Gap => IsTx(q[n], received)
  <2>1. ASSUME NEW n \in DOMAIN q, q[n] # Gap
        PROVE  IsTx(q[n], received)
    <3>1. CASE n \in 1 .. U
      BY <1>10, <1>12, <1>14, <2>1, <3>1
    <3>2. CASE n \notin 1 .. U
      <4>1. PICK m : m = n - U
        OBVIOUS
      <4>2. m \in 1 .. Len(pool) /\ U + m = n
        BY <1>9, <1>13, <1>14, <3>2, <4>1
      <4>3. q[n] = pool[m] /\ m \in DOMAIN pool
        BY <1>13, <1>14, <4>2
      <4> QED
        BY <1>1, <2>1, <4>3 DEF PoolOK
    <3> QED
      BY <3>1, <3>2
  <2> QED
    BY <2>1
<1>17. PoolOK(pool', received')
  BY <1>2, <1>15, <1>16 DEF PoolOK
<1>18. StatusOK(status', received')
  BY <1>1, <1>2, <1>3, <1>6, <1>7 DEF RecentOK
<1>19. RecentOK(recent', status', received')
  BY <1>2 DEF RecentOK
<1>20. retracted' = Again(retracted, h[k], h[E])
  BY <1>2, <1>5, <1>7 DEF Again
<1>21. ASSUME ~ dropped'
       PROVE  WillSettle(pool', status', retracted')
  <2>1. WillSettle(pool, h[E], retracted) /\ Unsettled(retracted, h[E])
    BY <1>1, <1>3, <1>5, <1>21 DEF RetractedOK
  <2>2. \A n \in 1 .. U : n \in DOMAIN q /\ q[n] = t[k + n - 1] /\ q[n] # Gap
    <3>1. back = 1 .. U
      BY <1>3, <1>9, <1>21, Zenon
    <3>2. \A n \in 1 .. U : n \in DOMAIN q
      BY <1>9, <1>13, <1>14
    <3>3. Gap \notin Transaction
      BY DEF Gap, Transaction
    <3> QED
      BY <1>10, <1>12, <1>14, <3>1, <3>2, <3>3 DEF IsTx
  <2>3. InFront(pool', t, k, U)
    BY <1>15, <2>2 DEF InFront
  <2>4. Behind(pool', pool, Len(pool), U)
    <3>1. \A n \in 1 .. Len(pool) : U + n \in DOMAIN q
      BY <1>9, <1>13, <1>14
    <3> QED
      BY <1>14, <1>15, <3>1 DEF Behind
  <2> QED
    BY <1>1, <1>5, <1>7, <1>8, <1>20, <2>1, <2>3, <2>4, SettlesAgain, Zenon
<1>22. Unsettled(retracted', status')
  BY <1>2 DEF Unsettled
<1>23. RetractedOK'
  <2>1. dropped' \in BOOLEAN
    BY <1>1, <1>3 DEF RetractedOK
  <2> QED
    BY <1>21, <1>22, <2>1 DEF RetractedOK
<1>24. ChainOK'
  BY <1>17, <1>18, <1>19, <1>23 DEF ChainOK
<1>25. \A i \in Item : status[i] = "Done" \/ i \in retracted => status'[i] = "Done" \/ i \in retracted'
  BY <1>2
<1> QED
  BY <1>3, <1>24, <1>25, ClaimGrows, Zenon

\* The extrinsics the node takes fill places that are free.
LEMMA SubmitStep ==
  ASSUME ChainOK, NEW k \in DOMAIN Extrinsics, Submit(k), Extrinsics \in Seq(Transaction),
         \A j \in DOMAIN Extrinsics : IsTx(Extrinsics[j], received),
         UNCHANGED <<status, undoVars, received>>
  PROVE  ChainOK' /\ Claimable \subseteq Claimable'
<1>1. /\ StatusOK(status, received) /\ PoolOK(pool, received)
      /\ RecentOK(recent, status, received) /\ RetractedOK
  BY DEF ChainOK
<1>2. /\ status' = status /\ recent' = recent /\ retracted' = retracted /\ dropped' = dropped
      /\ received' = received
  BY DEF undoVars
<1>3. PICK L, x : L = Len(pool) /\ x = Extrinsics
  BY Zenon
<1>4. /\ pool \in Seq(Transaction \cup {Gap}) /\ L \in Nat /\ DOMAIN pool = 1 .. L
      /\ x \in Seq(Transaction) /\ k \in 1 .. Len(x) /\ Len(x) \in Nat
  BY <1>1, <1>3 DEF PoolOK
<1>5. PICK n : n = account_next_index
  OBVIOUS
<1>6. n \in 1 .. L + 1
  <2>1. PICK S : S = {m \in 1 .. L + 1 : Free(m)}
    BY Zenon
  <2>2. L + 1 \in S
    BY <1>4, <2>1 DEF Free
  <2>3. S \subseteq Nat /\ S # {}
    BY <1>4, <2>1, <2>2
  <2>4. \E m \in S : \A y \in S : m <= y
    BY <2>3, Smallest, Zenon
  <2>5. n \in S
    BY <1>3, <1>5, <2>1, <2>4 DEF account_next_index, Min
  <2> QED
    BY <2>1, <2>5
<1>7. PICK T, M : T = {L, n + k - 1} /\ M = Max(T)
  BY Zenon
<1>8. (M = L \/ M = n + k - 1) /\ M >= L /\ M >= n + k - 1
  <2>1. T \subseteq 0 .. L + k /\ T # {} /\ L + k \in Nat
    BY <1>4, <1>6, <1>7
  <2>2. M \in T /\ \A y \in T : M >= y
    BY <1>7, <2>1, LargestBelow, Zenon
  <2> QED
    BY <1>7, <2>2
<1>9. pool' = [m \in 1 .. M |-> IF m \in n .. n + k - 1 THEN x[m - n + 1] ELSE pool[m]]
  BY <1>3, <1>5, <1>7 DEF Submit
<1>10. \A m \in n .. n + k - 1 : Free(m)
  BY <1>5 DEF Submit
<1>11. M \in Nat /\ n \in Nat /\ k \in Nat
  BY <1>4, <1>6, <1>8
<1>12. ASSUME NEW m \in 1 .. M
       PROVE  /\ pool'[m] \in Transaction \cup {Gap}
              /\ pool'[m] # Gap => IsTx(pool'[m], received)
  <2>1. CASE m \in n .. n + k - 1
    <3>1. PICK j : j = m - n + 1
      OBVIOUS
    <3>2. j \in 1 .. Len(x) /\ pool'[m] = x[j]
      BY <1>4, <1>9, <1>11, <2>1, <3>1
    <3>3. x[j] \in Transaction /\ IsTx(x[j], received)
      BY <1>3, <1>4, <3>2
    <3> QED
      BY <3>2, <3>3
  <2>2. CASE m \notin n .. n + k - 1
    <3>1. pool'[m] = pool[m]
      BY <1>9, <2>2
    <3>2. m \in 1 .. L
      <4>1. m < n \/ m > n + k - 1
        BY <1>11, <2>2
      <4>2. m < n => m <= L
        BY <1>4, <1>6, <1>11
      <4>3. m > n + k - 1 => m <= L
        BY <1>4, <1>8, <1>11
      <4> QED
        BY <1>4, <1>11, <4>1, <4>2, <4>3
    <3>3. m \in DOMAIN pool
      BY <1>4, <3>2
    <3>4. pool[m] # Gap => IsTx(pool[m], received)
      BY <1>1, <3>3 DEF PoolOK
    <3>5. pool[m] \in Transaction \cup {Gap}
      BY <3>4 DEF IsTx
    <3> QED
      BY <3>1, <3>4, <3>5
  <2> QED
    BY <2>1, <2>2
<1>13. DOMAIN pool' = 1 .. M /\ pool' \in Seq(Transaction \cup {Gap})
  <2>1. DOMAIN pool' = 1 .. M /\ pool' = [m \in 1 .. M |-> pool'[m]]
    BY <1>9
  <2> QED
    BY <1>11, <1>12, <2>1
<1>14. PoolOK(pool', received')
  BY <1>2, <1>12, <1>13 DEF PoolOK
<1>15. KeepsThose(pool, pool', retracted)
  <2>1. ASSUME NEW m \in DOMAIN pool, NEW i \in retracted,
               pool[m] = <<"observe", i>> \/ pool[m] = <<"finish", i>>
        PROVE  m \in DOMAIN pool' /\ pool'[m] = pool[m]
    <3>1. ~ Free(m)
      <4>1. pool[m] # Gap
        BY <2>1, NotGap
      <4> QED
        BY <4>1 DEF Free
    <3>2. m \in 1 .. M
      BY <1>4, <1>8, <1>11
    <3>3. m \notin n .. n + k - 1
      BY <1>10, <3>1
    <3> QED
      BY <1>9, <1>13, <3>2, <3>3
  <2> QED
    BY <2>1 DEF KeepsThose
<1>16. RetractedOK'
  BY <1>1, <1>2, <1>15, SettlesKept DEF RetractedOK
<1>17. ChainOK'
  BY <1>1, <1>2, <1>14, <1>16 DEF ChainOK
<1> QED
  BY <1>2, <1>17, ClaimGrows

\* A step that is not about the chain.
LEMMA ChainKept ==
  ASSUME ChainOK, UNCHANGED <<chainVars, received>>
  PROVE  ChainOK' /\ Claimable' = Claimable
<1>1. /\ pool' = pool /\ status' = status /\ recent' = recent /\ retracted' = retracted
      /\ dropped' = dropped /\ received' = received
  BY DEF chainVars, undoVars
<1>2. RetractedOK'
  BY <1>1 DEF ChainOK, RetractedOK
<1>3. ChainOK'
  BY <1>1, <1>2 DEF ChainOK
<1>4. Claimable' = Claimable
  BY <1>1 DEF Claimable, Applied
<1> QED
  BY <1>3, <1>4

\* What is received only grows.
LEMMA ChainGrows ==
  ASSUME ChainOK, UNCHANGED chainVars, received \subseteq received'
  PROVE  ChainOK' /\ Claimable' = Claimable
<1>1. /\ pool' = pool /\ status' = status /\ recent' = recent /\ retracted' = retracted
      /\ dropped' = dropped
  BY DEF chainVars, undoVars
<1>2. Verified(received) \subseteq Verified(received')
  BY DEF Verified
<1>3. ASSUME NEW st, StatusOK(st, received)
      PROVE  StatusOK(st, received')
  BY <1>2, <1>3 DEF StatusOK
<1>4. ASSUME NEW tx, IsTx(tx, received)
      PROVE  IsTx(tx, received')
  BY <1>2, <1>4 DEF IsTx
<1>5. PoolOK(pool, received')
  BY <1>4 DEF ChainOK, PoolOK
<1>6. RecentOK(recent, status, received')
  BY <1>3, <1>4, Zenon DEF ChainOK, RecentOK
<1>7. RetractedOK'
  BY <1>1 DEF ChainOK, RetractedOK
<1>8. StatusOK(status, received')
  BY <1>3 DEF ChainOK
<1>9. ChainOK'
  BY <1>1, <1>5, <1>6, <1>7, <1>8 DEF ChainOK
<1>10. Claimable' = Claimable
  BY <1>1 DEF Claimable, Applied
<1> QED
  BY <1>9, <1>10

-----------------------------------------------------------------------------
(* The processor's variables *)

\* The three stages a package goes through.
LEMMA StagesFacts ==
  /\ DOMAIN Stages = 1 .. 3 /\ Len(Stages) = 3
  /\ Stages[1] = "exports" /\ Stages[2] = "completions" /\ Stages[3] = "governance"
  /\ Range(Stages) = {"exports", "completions", "governance"}
<1>1. /\ DOMAIN Stages = 1 .. 3 /\ Len(Stages) = 3
      /\ Stages[1] = "exports" /\ Stages[2] = "completions" /\ Stages[3] = "governance"
  BY DEF Stages
<1>2. 1 \in 1 .. 3 /\ 2 \in 1 .. 3 /\ 3 \in 1 .. 3 /\ \A s \in 1 .. 3 : s = 1 \/ s = 2 \/ s = 3
  OBVIOUS
<1>3. Range(Stages) = {"exports", "completions", "governance"}
  BY <1>1, <1>2 DEF Range
<1> QED
  BY <1>1, <1>3

\* The items of a stage are items of the package.
LEMMA StageItemsFacts ==
  ASSUME NEW p \in Package, NEW s \in 1 .. 3
  PROVE  /\ Proofs[p][Stages[s]] \in Seq(Item)
         /\ StageItems(p, s) \subseteq Item
         /\ StageItems(p, s) \subseteq Items(p)
         /\ \A i \in StageItems(p, 1) : IsExport(i)
<1>1. Stages[s] \in Range(Stages)
  BY StagesFacts DEF Range
<1>2. Proofs[p][Stages[s]] \in Seq(Item)
  BY <1>1, ImporterAssumption
<1>3. StageItems(p, s) \subseteq Item
  BY <1>2 DEF StageItems, Range
<1>4. StageItems(p, s) \subseteq Items(p)
  BY <1>1 DEF StageItems, Items
<1>5. \A i \in StageItems(p, 1) : IsExport(i)
  BY StagesFacts DEF StageItems, IsExport
<1> QED
  BY <1>2, <1>3, <1>4, <1>5

\* What holds for the items of the three stages holds for all items.
LEMMA AllStages ==
  ASSUME NEW p, NEW A, \A s \in 1 .. 3 : StageItems(p, s) \subseteq A
  PROVE  Items(p) \subseteq A
<1>1. 1 \in 1 .. 3 /\ 2 \in 1 .. 3 /\ 3 \in 1 .. 3
  OBVIOUS
<1>2. \A s \in Range(Stages) : Range(Proofs[p][s]) \subseteq A
  BY <1>1, StagesFacts DEF StageItems
<1> QED
  BY <1>2 DEF Items

\* A sequence over a set is one over every larger set.
LEMMA SeqGrows ==
  ASSUME NEW R, NEW S, R \subseteq S, NEW q \in Seq(R)
  PROVE  q \in Seq(S)
OBVIOUS

\* What the processor knows stays right as more is received and settled.
LEMMA ProcGrows ==
  ASSUME NEW R, NEW A, NEW S, NEW B, R \subseteq S, A \subseteq B, NEW pr, ProcOK(pr, R, A)
  PROVE  ProcOK(pr, S, B)
<1>1. Sound(pr.local, S, B) /\ Sound(pr.stageIndex, S, B)
  BY SoundGrows DEF ProcOK
<1>2. pr.work \in Seq(S)
  BY SeqGrows DEF ProcOK
<1>3. ASSUME pr.at \in {"stage", "items", "wait", "finish"}
      PROVE  \A s \in 1 .. 3 : s < pr.stage => StageItems(Head(pr.work), s) \subseteq B
  BY <1>3 DEF ProcOK
<1>4. ASSUME pr.at \in {"items", "wait"}
      PROVE  StageItems(Head(pr.work), pr.stage) \subseteq B \cup Range(pr.todo)
  BY <1>4 DEF ProcOK
<1> QED
  BY <1>1, <1>2, <1>3, <1>4 DEF ProcOK

\* Nothing is kept but the packages to work on, and why the first one failed.
Resting(pr, R) ==
    /\ DOMAIN pr = ProcFields
    /\ pr.at \in {"idle", "load", "refresh", "fail"}
    /\ pr.work \in Seq(R)
    /\ pr.at # "idle" => pr.work # <<>>
    /\ pr.local = NewIndex /\ pr.stageIndex = NewIndex
    /\ pr.at = "fail" =>
          /\ pr.verdict \in {"AckedInvalid", "SubmissionRetrying"}
          /\ pr.verdict = "AckedInvalid" => Head(pr.work) \in Invalid

\* A processor between two stages is in order.
LEMMA RestingOK ==
  ASSUME NEW R, NEW A, NEW pr, Resting(pr, R)
  PROVE  ProcOK(pr, R, A)
<1>1. Sound(NewIndex, R, A)
  BY NewIsSound
<1>2. pr.at \in Places /\ pr.at \notin {"stage", "items", "wait", "finish"}
  BY DEF Places, Resting
<1> QED
  BY <1>1, <1>2 DEF ProcOK, Resting

\* A processor that loads a package or refreshes is in order.
LEMMA IdleAtOK ==
  ASSUME NEW R, NEW A, NEW at \in {"load", "refresh"}, NEW work \in Seq(R), work # <<>>
  PROVE  ProcOK([Idle EXCEPT !.at = at, !.work = work], R, A)
<1>1. PICK pr : pr = [Idle EXCEPT !.at = at, !.work = work]
  OBVIOUS
<1>2. /\ DOMAIN pr = ProcFields /\ pr.at = at /\ pr.work = work
      /\ pr.local = NewIndex /\ pr.stageIndex = NewIndex
  BY <1>1 DEF Idle, ProcFields
<1>3. Resting(pr, R)
  BY <1>2 DEF Resting
<1> QED
  BY <1>1, <1>3, RestingOK

\* An idle processor is in order.
LEMMA IdleIsOK ==
  ASSUME NEW R, NEW A
  PROVE  ProcOK(Idle, R, A)
<1>1. /\ DOMAIN Idle = ProcFields /\ Idle.at = "idle" /\ Idle.work = <<>>
      /\ Idle.local = NewIndex /\ Idle.stageIndex = NewIndex
  BY DEF Idle, ProcFields
<1>2. Resting(Idle, R)
  BY <1>1 DEF Resting
<1> QED
  BY <1>2, RestingOK

\* A failure is recorded for the package being worked on.
LEMMA FailedOK ==
  ASSUME NEW R, NEW A, ProcOK(proc, R, A), proc.at # "idle",
         NEW verdict \in {"AckedInvalid", "SubmissionRetrying"},
         verdict = "AckedInvalid" => current \in Invalid,
         FailWith(verdict)
  PROVE  ProcOK(proc', R, A)
<1>1. PICK pr : pr = [Idle EXCEPT !.at = "fail", !.work = proc.work, !.verdict = verdict]
  OBVIOUS
<1>2. /\ DOMAIN pr = ProcFields /\ pr.at = "fail" /\ pr.work = proc.work /\ pr.verdict = verdict
      /\ pr.local = NewIndex /\ pr.stageIndex = NewIndex
  BY <1>1 DEF Idle, ProcFields
<1>3. proc.work \in Seq(R) /\ proc.work # <<>>
  BY DEF ProcOK
<1>4. Resting(pr, R)
  BY <1>2, <1>3 DEF Resting, current
<1>5. proc' = pr
  BY <1>1 DEF FailWith
<1> QED
  BY <1>4, <1>5, RestingOK

\* A processor that is done with a package goes on to refresh.
LEMMA ToRefreshOK ==
  ASSUME NEW R, NEW A, ProcOK(proc, R, A), proc.at # "idle", ToRefresh
  PROVE  ProcOK(proc', R, A)
<1>1. proc.work \in Seq(R) /\ proc.work # <<>>
  BY DEF ProcOK
<1> QED
  BY <1>1, IdleAtOK, Zenon DEF ToRefresh

\* The invariant after a step, from what the step did to each part.
LEMMA Closing ==
  ASSUME IInv, ChainOK', Claimable \subseteq Claimable', received' = received,
         Sound(index', received, Claimable), Sound(disk', received, Claimable),
         ProcOK(proc', received, Claimable)
  PROVE  IInv'
<1>1. PICK A, B : A = Claimable /\ B = Claimable'
  OBVIOUS
<1>2. A \subseteq B /\ received \subseteq Package
  BY <1>1 DEF IInv
<1>3. Sound(index', received, B) /\ Sound(disk', received, B)
  BY <1>1, <1>2, SoundGrows
<1>4. ProcOK(proc', received, B)
  BY <1>1, <1>2, ProcGrows
<1> QED
  BY <1>1, <1>2, <1>3, <1>4 DEF IInv

\* A step of the processor that leaves the chain alone.
LEMMA QuietStep ==
  ASSUME IInv, UNCHANGED <<chainVars, received>>,
         Sound(index', received, Claimable), Sound(disk', received, Claimable),
         ProcOK(proc', received, Claimable)
  PROVE  IInv'
<1>1. ChainOK
  BY DEF IInv
<1>2. ChainOK' /\ Claimable' = Claimable /\ received' = received
  BY <1>1, ChainKept
<1> QED
  BY <1>2, Closing

\* The package at hand was received.
LEMMA CurrentReceived ==
  ASSUME IInv, proc.at # "idle"
  PROVE  /\ proc.work \in Seq(received) /\ proc.work # <<>>
         /\ current \in received /\ current \in Package
<1>1. proc.work \in Seq(received) /\ proc.work # <<>> /\ received \subseteq Package
  BY DEF IInv, ProcOK
<1>2. Head(proc.work) \in received
  BY <1>1
<1> QED
  BY <1>1, <1>2 DEF current

-----------------------------------------------------------------------------
(* The processor's steps *)

\* process_pending_packages_once takes up packages that were received.
LEMMA PendingStep ==
  ASSUME IInv, process_pending_packages_once
  PROVE  IInv'
<1> DEFINE q == index.packages
           S == {k \in DOMAIN q : ~ is_terminal(q[k].state)}
<1>3. q \in Seq(Record) /\ \A k \in DOMAIN q : q[k].id \in received
  BY DEF IInv, Sound, Index, SoundRecord
<1>4. S # {} /\ S \subseteq DOMAIN q
  BY DEF process_pending_packages_once
<1>5. PICK order : /\ order \in InOrder(S)
                   /\ proc' = [Idle EXCEPT !.at = "load", !.work = [n \in DOMAIN order |-> q[order[n]].id]]
  BY Zenon DEF process_pending_packages_once
<1> HIDE DEF q, S
<1>6. PICK c \in Nat : order \in [1 .. c -> S] /\ Range(order) = S
  BY <1>5 DEF InOrder
<1>7. c # 0
  BY <1>4, <1>6 DEF Range
<1>8. PICK work : work = [n \in DOMAIN order |-> q[order[n]].id]
  BY Zenon
<1>10. work \in Seq(received) /\ work # <<>>
  <2>1. DOMAIN work = 1 .. c /\ c \in Nat \ {0}
    BY <1>6, <1>7, <1>8
  <2>2. \A n \in 1 .. c : work[n] \in received
    BY <1>3, <1>4, <1>6, <1>8
  <2>3. work = [n \in 1 .. c |-> work[n]]
    BY <1>8, <2>1
  <2>4. work \in Seq(received) /\ Len(work) = c
    BY <2>1, <2>2, <2>3
  <2> QED
    BY <2>1, <2>4
<1>11. ProcOK(proc', received, Claimable)
  BY <1>5, <1>8, <1>10, IdleAtOK, Zenon
<1>12. UNCHANGED <<chainVars, received>> /\ index' = index /\ disk' = disk
  BY DEF process_pending_packages_once
<1> QED
  BY <1>11, <1>12, QuietStep DEF IInv

\* Loading the package keeps the invariant.
LEMMA LoadStep ==
  ASSUME IInv, LoadPackage
  PROVE  IInv'
<1>1. PICK ix, A : ix = load_index(disk) /\ A = Claimable
  OBVIOUS
<1>2. Sound(ix, received, A) /\ ProcOK(proc, received, A)
  BY <1>1, LoadIsSound DEF IInv
<1>3. proc.at = "load" /\ proc.at # "idle"
  BY DEF LoadPackage
<1>4. current \in received /\ current \in Package
  BY <1>3, CurrentReceived
<1>5. PICK iy : iy = upsert_package(ix, current, "Verifying")
  OBVIOUS
<1>6. Sound(iy, received, A)
  <2>1. SoundRecord([id |-> current, state |-> "Verifying"], received, A)
    BY <1>4 DEF SoundRecord, Acked
  <2>2. "Verifying" \in PackageState
    BY DEF PackageState
  <2> QED
    BY <1>2, <1>4, <1>5, <2>1, <2>2, UpsertIsSound
<1>7. \/ proc' = Idle
      \/ ToRefresh
      \/ proc' = [proc EXCEPT !.at = "mark", !.local = iy]
  BY <1>1, <1>5 DEF LoadPackage
<1>8. ASSUME proc' = [proc EXCEPT !.at = "mark", !.local = iy]
      PROVE  ProcOK(proc', received, A)
  <2>1. /\ DOMAIN proc' = ProcFields /\ proc'.at = "mark" /\ proc'.local = iy
        /\ proc'.work = proc.work /\ proc'.stageIndex = proc.stageIndex
    BY <1>2, <1>8 DEF ProcOK, ProcFields
  <2> QED
    BY <1>2, <1>3, <1>6, <2>1, Zenon DEF ProcOK, Places
<1>9. ProcOK(proc', received, A)
  BY <1>2, <1>3, <1>7, <1>8, IdleIsOK, ToRefreshOK
<1>10. UNCHANGED <<chainVars, received>> /\ index' = index /\ disk' = disk
  BY DEF LoadPackage
<1> QED
  BY <1>1, <1>9, <1>10, QuietStep DEF IInv

\* Saving that a package is being worked on keeps the invariant.
LEMMA SaveMarkStep ==
  ASSUME IInv, SaveMark
  PROVE  IInv'
<1>1. PICK A : A = Claimable
  OBVIOUS
<1>2. ProcOK(proc, received, A) /\ proc.at = "mark" /\ proc' = [proc EXCEPT !.at = "verify"]
  BY <1>1 DEF IInv, SaveMark
<1>3. /\ DOMAIN proc' = ProcFields /\ proc'.at = "verify" /\ proc'.local = proc.local
      /\ proc'.work = proc.work /\ proc'.stageIndex = proc.stageIndex
  BY <1>2 DEF ProcOK, ProcFields
<1>4. ProcOK(proc', received, A)
  BY <1>2, <1>3 DEF ProcOK, Places
<1>5. Sound(disk', received, A)
  BY <1>2 DEF SaveMark, ProcOK
<1>6. UNCHANGED <<chainVars, received>> /\ index' = index
  BY DEF SaveMark
<1> QED
  BY <1>1, <1>4, <1>5, <1>6, QuietStep DEF IInv

\* The verification calls invalid only what is.
LEMMA VerifyStep ==
  ASSUME IInv, VerifyInvalid \/ VerifyNoNode \/ VerifyValid
  PROVE  IInv'
<1>1. PICK A : A = Claimable
  OBVIOUS
<1>2. /\ ProcOK(proc, received, A) /\ proc.at = "verify" /\ proc.at # "idle"
      /\ UNCHANGED <<chainVars, received>> /\ index' = index /\ disk' = disk
  BY <1>1 DEF IInv, VerifyInvalid, VerifyNoNode, VerifyValid
<1>3. ASSUME VerifyInvalid PROVE ProcOK(proc', received, A)
  BY <1>2, <1>3, FailedOK DEF VerifyInvalid
<1>4. ASSUME VerifyNoNode PROVE ProcOK(proc', received, A)
  BY <1>2, <1>4, FailedOK, IdleIsOK DEF VerifyNoNode
<1>5. ASSUME VerifyValid PROVE ProcOK(proc', received, A)
  <2>1. current \notin Invalid /\ proc' = [proc EXCEPT !.at = "stage", !.stage = 1]
    BY <1>5 DEF VerifyValid
  <2>2. /\ DOMAIN proc' = ProcFields /\ proc'.at = "stage" /\ proc'.local = proc.local
        /\ proc'.work = proc.work /\ proc'.stageIndex = proc.stageIndex /\ proc'.stage = 1
    BY <1>2, <2>1 DEF ProcOK, ProcFields
  <2>3. 1 \in 1 .. 4 /\ \A s \in 1 .. 3 : ~ s < 1
    OBVIOUS
  <2> QED
    BY <1>2, <2>1, <2>2, <2>3 DEF ProcOK, Places, current
<1>6. ProcOK(proc', received, A)
  BY <1>3, <1>4, <1>5
<1> QED
  BY <1>1, <1>2, <1>6, QuietStep DEF IInv

\* A stage starts with the items of the package.
LEMMA StartStageStep ==
  ASSUME IInv, StartStage
  PROVE  IInv'
<1>1. PICK A, p, g : A = Claimable /\ p = current /\ g = proc.stage
  OBVIOUS
<1>2. ProcOK(proc, received, A) /\ proc.at = "stage" /\ proc.at # "idle"
  BY <1>1 DEF IInv, StartStage
<1>3. /\ p = Head(proc.work) /\ p \notin Invalid /\ g \in 1 .. 4
      /\ \A s \in 1 .. 3 : s < g => StageItems(p, s) \subseteq A
  BY <1>1, <1>2 DEF ProcOK, current
<1>4. p \in Package
  BY <1>1, <1>2, CurrentReceived
<1>5. PICK todo : todo = Proofs[p][Stages[g]]
  OBVIOUS
<1>6. /\ g > 3 => proc' = [proc EXCEPT !.at = "finish"]
      /\ ~ g > 3 /\ todo = <<>> => proc' = [proc EXCEPT !.stage = g + 1]
      /\ ~ g > 3 /\ todo # <<>> =>
            proc' = [proc EXCEPT !.at = "items", !.stageIndex = load_index(disk), !.todo = todo, !.seen = {}]
  <2>1. Len(Stages) = 3
    BY StagesFacts
  <2> QED
    BY <1>1, <1>5, <2>1 DEF StartStage, StageName
<1>7. ASSUME g > 3 PROVE ProcOK(proc', received, A)
  <2>1. g = 4
    BY <1>3, <1>7
  <2>2. /\ DOMAIN proc' = ProcFields /\ proc'.at = "finish" /\ proc'.local = proc.local
        /\ proc'.work = proc.work /\ proc'.stageIndex = proc.stageIndex /\ proc'.stage = g
    BY <1>1, <1>2, <1>6, <1>7 DEF ProcOK, ProcFields
  <2> QED
    BY <1>1, <1>2, <1>3, <2>1, <2>2, Zenon DEF ProcOK, Places
<1>8. ASSUME ~ g > 3, todo = <<>> PROVE ProcOK(proc', received, A)
  <2>1. /\ DOMAIN proc' = ProcFields /\ proc'.at = "stage" /\ proc'.local = proc.local
        /\ proc'.work = proc.work /\ proc'.stageIndex = proc.stageIndex /\ proc'.stage = g + 1
    BY <1>2, <1>6, <1>8 DEF ProcOK, ProcFields
  <2>2. g + 1 \in 1 .. 4 /\ \A s \in 1 .. 3 : s < g + 1 => s < g \/ s = g
    BY <1>3, <1>8
  <2>3. StageItems(p, g) \subseteq A
    BY <1>5, <1>8 DEF StageItems, Range
  <2>4. \A s \in 1 .. 3 : s < g + 1 => StageItems(p, s) \subseteq A
    BY <1>3, <2>2, <2>3
  <2> QED
    BY <1>2, <1>3, <2>1, <2>2, <2>4, Zenon DEF ProcOK, Places
<1>9. ASSUME ~ g > 3, todo # <<>> PROVE ProcOK(proc', received, A)
  <2>1. PICK ix : ix = load_index(disk)
    OBVIOUS
  <2>2. Sound(ix, received, A)
    BY <1>1, <2>1, LoadIsSound DEF IInv
  <2>3. /\ DOMAIN proc' = ProcFields /\ proc'.at = "items" /\ proc'.local = proc.local
        /\ proc'.work = proc.work /\ proc'.stageIndex = ix /\ proc'.stage = g
        /\ proc'.todo = todo
    BY <1>1, <1>2, <1>6, <1>9, <2>1, Zenon DEF ProcOK, ProcFields
  <2>4. g \in 1 .. 3 /\ g # 4
    BY <1>3, <1>9
  <2>5. todo \in Seq(Item)
    BY <1>4, <1>5, <2>4, StageItemsFacts
  <2>6. Range(todo) = StageItems(p, g)
    BY <1>5 DEF StageItems
  <2>7. todo \in Seq(StageItems(p, g))
    BY <2>5, <2>6 DEF Range
  <2> QED
    BY <1>2, <1>3, <2>2, <2>3, <2>4, <2>6, <2>7 DEF ProcOK, Places
<1>10. ProcOK(proc', received, A)
  BY <1>7, <1>8, <1>9
<1>11. UNCHANGED <<chainVars, received>> /\ index' = index /\ disk' = disk
  BY DEF StartStage
<1> QED
  BY <1>1, <1>10, <1>11, QuietStep DEF IInv

\* The item at hand comes from a package that verified.
LEMMA ItemFacts ==
  ASSUME IInv, proc.at \in {"items", "wait"}, proc.todo # <<>>
  PROVE  /\ item \in Item /\ item \in Verified(received)
         /\ StageName = "exports" => IsExport(item)
<1>1. PICK A, p, g : A = Claimable /\ p = current /\ g = proc.stage
  OBVIOUS
<1>2. ProcOK(proc, received, A) /\ proc.at # "idle"
  BY <1>1 DEF IInv
<1>3. p = Head(proc.work) /\ p \notin Invalid /\ g \in 1 .. 4 /\ g # 4 /\ proc.todo \in Seq(StageItems(p, g))
  BY <1>1, <1>2 DEF ProcOK, current
<1>4. p \in received /\ p \in Package
  BY <1>1, <1>2, CurrentReceived
<1>5. item \in StageItems(p, g) /\ g \in 1 .. 3
  BY <1>3 DEF item
<1>6. item \in Item /\ item \in Items(p)
  BY <1>4, <1>5, StageItemsFacts
<1>7. item \in Verified(received)
  BY <1>3, <1>4, <1>6 DEF Verified
<1>8. ASSUME StageName = "exports" PROVE IsExport(item)
  <2>1. g = 1
    BY <1>1, <1>5, <1>8, StagesFacts DEF StageName
  <2> QED
    BY <1>4, <1>5, <2>1, StageItemsFacts
<1> QED
  BY <1>6, <1>7, <1>8

\* An item that may be claimed is added to those that are done.
LEMMA ItemDoneOK ==
  ASSUME IInv, proc.at \in {"items", "wait"}, proc.todo # <<>>, item \in Claimable,
         NEW how, ItemDone(how)
  PROVE  ProcOK(proc', received, Claimable)
<1>1. PICK A, p, g, q : A = Claimable /\ p = current /\ g = proc.stage /\ q = proc.todo
  OBVIOUS
<1>2. ProcOK(proc, received, A) /\ proc.at # "idle"
  BY <1>1 DEF IInv
<1>3. /\ p = Head(proc.work) /\ p \notin Invalid /\ g \in 1 .. 4 /\ g # 4
      /\ q \in Seq(StageItems(p, g)) /\ q # <<>>
      /\ StageItems(p, g) \subseteq A \cup Range(q)
  BY <1>1, <1>2 DEF ProcOK, current
<1>4. PICK ix, i : ix = proc.stageIndex /\ i = item
  OBVIOUS
<1>5. Sound(ix, received, A) /\ i \in A \cap Item
  BY <1>1, <1>2, <1>4, ItemFacts DEF ProcOK
<1>6. PICK iy : iy = [ix EXCEPT !.imports = IF Indexed THEN @ \cup {i} ELSE @]
  BY Zenon
<1>7. Sound(iy, received, A)
  <2>1. CASE Indexed
    BY <1>5, <1>6, <2>1, ImportIsSound
  <2>2. CASE ~ Indexed
    <3>1. ix \in Index
      BY <1>5 DEF Sound
    <3>2. iy = ix
      BY <1>6, <2>2, <3>1 DEF Index
    <3> QED
      BY <1>5, <3>2
  <2> QED
    BY <2>1, <2>2
<1>8. /\ DOMAIN proc' = ProcFields /\ proc'.at = "items" /\ proc'.local = proc.local
      /\ proc'.work = proc.work /\ proc'.stageIndex = iy /\ proc'.stage = g
      /\ proc'.todo = Tail(q)
  BY <1>1, <1>2, <1>4, <1>6 DEF ItemDone, ProcOK, ProcFields
<1>9. Tail(q) \in Seq(StageItems(p, g)) /\ Range(q) \subseteq {Head(q)} \cup Range(Tail(q))
  <2>1. /\ Tail(q) \in Seq(StageItems(p, g)) /\ Len(Tail(q)) = Len(q) - 1 /\ Len(q) \in Nat
        /\ Len(q) > 0 /\ \A n \in 1 .. Len(q) - 1 : Tail(q)[n] = q[n + 1]
    BY <1>3
  <2>2. ASSUME NEW n \in 1 .. Len(q)
        PROVE  q[n] \in {Head(q)} \cup Range(Tail(q))
    <3>1. CASE n = 1
      BY <1>3, <3>1
    <3>2. CASE n # 1
      <4>1. PICK m : m = n - 1
        OBVIOUS
      <4>2. m \in 1 .. Len(q) - 1 /\ n = m + 1
        BY <2>1, <3>2, <4>1
      <4>3. q[n] = Tail(q)[m] /\ m \in DOMAIN Tail(q)
        BY <2>1, <4>2
      <4> QED
        BY <4>3 DEF Range
    <3> QED
      BY <3>1, <3>2
  <2>3. DOMAIN q = 1 .. Len(q)
    BY <1>3
  <2> QED
    BY <2>1, <2>2, <2>3 DEF Range
<1>10. StageItems(p, g) \subseteq A \cup Range(Tail(q))
  BY <1>1, <1>3, <1>4, <1>5, <1>9 DEF item
<1>11. ProcOK(proc', received, A)
  BY <1>1, <1>2, <1>3, <1>7, <1>8, <1>9, <1>10, Zenon DEF ProcOK, Places
<1> QED
  BY <1>1, <1>11

\* Items are done when they are known, settled or waited for.
LEMMA ItemDoneStep ==
  ASSUME IInv, SkipKnown \/ SkipSettled \/ WaitDone
  PROVE  IInv'
<1>1. /\ UNCHANGED <<chainVars, received>> /\ index' = index /\ disk' = disk
      /\ proc.at \in {"items", "wait"} /\ \E how : ItemDone(how)
  BY DEF SkipKnown, SkipSettled, WaitDone
<1>2. proc.todo # <<>>
  BY Zenon DEF SkipKnown, SkipSettled, WaitDone, IInv, ProcOK
<1>3. item \in Item
  BY <1>1, <1>2, ItemFacts
<1>4. item \in Claimable
  <2>1. CASE SkipKnown
    <3>1. Sound(proc.stageIndex, received, Claimable)
      BY Zenon DEF IInv, ProcOK
    <3>2. item \in proc.stageIndex.imports
      BY <2>1 DEF SkipKnown, Known
    <3> QED
      BY <3>1, <3>2 DEF Sound
  <2>2. CASE SkipSettled \/ WaitDone
    BY <1>3, <2>2 DEF SkipSettled, WaitDone, Claimable, Applied
  <2> QED
    BY <2>1, <2>2
<1>5. ProcOK(proc', received, Claimable)
  BY <1>1, <1>2, <1>4, ItemDoneOK
<1> QED
  BY <1>1, <1>5, QuietStep DEF IInv

\* The extrinsics for an item of a verified package are about that item.
LEMMA ExtrinsicsOK ==
  ASSUME IInv, proc.at = "items", proc.todo # <<>>
  PROVE  /\ Extrinsics \in Seq(Transaction)
         /\ \A j \in DOMAIN Extrinsics : IsTx(Extrinsics[j], received)
         /\ Len(Extrinsics) \in DOMAIN Extrinsics
<1>1. /\ item \in Item /\ item \in Verified(received)
      /\ StageName = "exports" => IsExport(item)
  BY ItemFacts
<1>2. PICK i, f : i = item /\ f = <<"finish", i>>
  BY Zenon
<1>3. f \in Transaction /\ IsTx(f, received)
  BY <1>1, <1>2 DEF Transaction, IsTx
<1>4. CASE StageName = "exports" /\ status[item] = "None"
  <2>1. PICK o : o = <<"observe", i>>
    BY Zenon
  <2>2. o \in Transaction /\ IsTx(o, received)
    BY <1>1, <1>2, <1>4, <2>1 DEF Transaction, IsTx
  <2>3. Extrinsics = <<o, f>>
    BY <1>2, <1>4, <2>1 DEF Extrinsics
  <2> QED
    BY <1>3, <2>2, <2>3
<1>5. CASE ~ (StageName = "exports" /\ status[item] = "None")
  <2>1. Extrinsics = <<f>>
    BY <1>2, <1>5 DEF Extrinsics
  <2> QED
    BY <1>3, <2>1
<1> QED
  BY <1>4, <1>5

\* Submitting an extrinsic keeps the invariant.
LEMMA SubmitItemStep ==
  ASSUME IInv, SubmitItem
  PROVE  IInv'
<1>1. PICK A : A = Claimable
  OBVIOUS
<1>2. /\ ProcOK(proc, received, A) /\ proc.at = "items" /\ proc.todo # <<>> /\ ChainOK
      /\ proc' = [proc EXCEPT !.at = "wait"]
  BY <1>1 DEF IInv, SubmitItem
<1>3. /\ DOMAIN proc' = ProcFields /\ proc'.at = "wait" /\ proc'.local = proc.local
      /\ proc'.work = proc.work /\ proc'.stageIndex = proc.stageIndex /\ proc'.stage = proc.stage
      /\ proc'.todo = proc.todo
  BY <1>2 DEF ProcOK, ProcFields
<1>4. ProcOK(proc', received, A)
  BY <1>2, <1>3 DEF ProcOK, Places
<1>5. /\ Submit(Len(Extrinsics)) /\ UNCHANGED <<status, undoVars, received>>
      /\ received' = received /\ index' = index /\ disk' = disk
  BY DEF SubmitItem
<1>6. ChainOK' /\ Claimable \subseteq Claimable'
  BY <1>2, <1>5, ExtrinsicsOK, SubmitStep
<1> QED
  BY <1>1, <1>4, <1>5, <1>6, Closing DEF IInv

\* An item that fails ends the work on its package.
LEMMA ItemFailsStep ==
  ASSUME IInv, ItemFails
  PROVE  IInv'
<1>1. PICK A : A = Claimable
  OBVIOUS
<1>2. /\ ProcOK(proc, received, A) /\ proc.at = "items" /\ proc.at # "idle"
      /\ proc.todo # <<>> /\ ChainOK /\ FailWith("SubmissionRetrying")
  BY <1>1 DEF IInv, ItemFails
<1>3. ProcOK(proc', received, A)
  BY <1>2, FailedOK
<1>4. /\ UNCHANGED <<status, undoVars, received>>
      /\ received' = received /\ index' = index /\ disk' = disk
  BY DEF ItemFails
<1>5. CASE pool' = pool
  <2>1. UNCHANGED <<chainVars, received>>
    BY <1>4, <1>5 DEF chainVars
  <2> QED
    BY <1>1, <1>3, <1>4, <2>1, QuietStep DEF IInv
<1>6. CASE \E k \in DOMAIN Extrinsics : Submit(k)
  <2>1. ChainOK' /\ Claimable \subseteq Claimable'
    BY <1>2, <1>4, <1>6, ExtrinsicsOK, SubmitStep, Zenon
  <2> QED
    BY <1>1, <1>3, <1>4, <2>1, Closing DEF IInv
<1> QED
  BY <1>5, <1>6 DEF ItemFails

\* A wait that fails ends the work on its package.
LEMMA WaitFailsStep ==
  ASSUME IInv, WaitFails
  PROVE  IInv'
<1>1. /\ proc.at # "idle" /\ FailWith("SubmissionRetrying")
      /\ UNCHANGED <<chainVars, received>> /\ index' = index /\ disk' = disk
  BY DEF WaitFails
<1>2. ProcOK(proc', received, Claimable)
  BY <1>1, FailedOK DEF IInv
<1> QED
  BY <1>1, <1>2, QuietStep DEF IInv

\* A stage ends when all its items are done.
LEMMA EndStageStep ==
  ASSUME IInv, EndStage
  PROVE  IInv'
<1>1. PICK A, p, g : A = Claimable /\ p = current /\ g = proc.stage
  OBVIOUS
<1>2. ProcOK(proc, received, A) /\ proc.at = "items" /\ proc.todo = <<>>
  BY <1>1 DEF IInv, EndStage
<1>3. /\ p = Head(proc.work) /\ p \notin Invalid /\ g \in 1 .. 4 /\ g # 4
      /\ \A s \in 1 .. 3 : s < g => StageItems(p, s) \subseteq A
      /\ StageItems(p, g) \subseteq A \cup Range(<<>>)
  BY <1>1, <1>2 DEF ProcOK, current
<1>4. StageItems(p, g) \subseteq A
  BY <1>3 DEF Range
<1>5. /\ DOMAIN proc' = ProcFields /\ proc'.at = "stage" /\ proc'.local = proc.local
      /\ proc'.work = proc.work /\ proc'.stageIndex = NewIndex /\ proc'.stage = g + 1
  BY <1>1, <1>2 DEF ProcOK, ProcFields, EndStage
<1>6. g + 1 \in 1 .. 4 /\ \A s \in 1 .. 3 : s < g + 1 => s < g \/ s = g
  BY <1>3
<1>7. \A s \in 1 .. 3 : s < g + 1 => StageItems(p, s) \subseteq A
  BY <1>3, <1>4, <1>6
<1>8. ProcOK(proc', received, A)
  BY <1>2, <1>3, <1>5, <1>6, <1>7, NewIsSound, Zenon DEF ProcOK, Places
<1>9. Sound(disk', received, A)
  <2>1. disk' = proc.stageIndex \/ disk' = disk
    BY DEF EndStage
  <2> QED
    BY <1>1, <1>2, <2>1, Zenon DEF IInv, ProcOK
<1>10. UNCHANGED <<chainVars, received>> /\ index' = index
  BY DEF EndStage
<1> QED
  BY <1>1, <1>8, <1>9, <1>10, QuietStep DEF IInv

\* The state of a finished package is an acknowledgment.
LEMMA FinalIsAcked == FinalState \in Acked
<1>1. CASE proc.outcomes \in {{"AckedDuplicateLocal"}, {"AckedDuplicateRemote"}}
  <2>1. (CHOOSE o \in proc.outcomes : TRUE) \in proc.outcomes
    BY <1>1
  <2> QED
    BY <1>1, <2>1 DEF FinalState, Acked
<1>2. CASE proc.outcomes \notin {{"AckedDuplicateLocal"}, {"AckedDuplicateRemote"}}
  BY <1>2 DEF FinalState, Acked
<1> QED
  BY <1>1, <1>2

\* A package is acknowledged when its three stages are done.
LEMMA FinishStep ==
  ASSUME IInv, FinishPackage
  PROVE  IInv'
<1>1. PICK A, p, z : A = Claimable /\ p = current /\ z = FinalState
  OBVIOUS
<1>2. ProcOK(proc, received, A) /\ proc.at = "finish" /\ proc.at # "idle" /\ ToRefresh
  BY <1>1 DEF IInv, FinishPackage
<1>3. \A s \in 1 .. 3 : StageItems(p, s) \subseteq A
  <2>1. \A s \in 1 .. 3 : s < 4
    OBVIOUS
  <2> QED
    BY <1>1, <1>2, <2>1 DEF ProcOK, current
<1>4. Items(p) \subseteq A /\ p \in received /\ p \in Package
  BY <1>1, <1>2, <1>3, AllStages, CurrentReceived
<1>5. z \in Acked /\ z \in PackageState /\ z # "AckedInvalid"
  BY <1>1, FinalIsAcked DEF PackageState, Acked
<1>6. SoundRecord([id |-> p, state |-> z], received, A)
  BY <1>4, <1>5 DEF SoundRecord
<1>7. disk' = upsert_package(proc.local, p, z) /\ Sound(proc.local, received, A)
  BY <1>1, <1>2, Zenon DEF FinishPackage, ProcOK
<1>8. Sound(disk', received, A)
  BY <1>4, <1>5, <1>6, <1>7, UpsertIsSound
<1>9. ProcOK(proc', received, A)
  BY <1>2, ToRefreshOK
<1>10. UNCHANGED <<chainVars, received>> /\ index' = index
  BY DEF FinishPackage
<1> QED
  BY <1>1, <1>8, <1>9, <1>10, QuietStep DEF IInv

\* finalize_package_error records the verdict and nothing else.
LEMMA FailStep ==
  ASSUME IInv, finalize_package_error
  PROVE  IInv'
<1>1. PICK A, p, z, ix : A = Claimable /\ p = current /\ z = proc.verdict /\ ix = load_index(disk)
  OBVIOUS
<1>2. ProcOK(proc, received, A) /\ proc.at = "fail" /\ proc.at # "idle"
  BY <1>1 DEF IInv, finalize_package_error
<1>3. p \in received /\ p \in Package
  BY <1>1, <1>2, CurrentReceived
<1>4. /\ z \in {"AckedInvalid", "SubmissionRetrying"}
      /\ z = "AckedInvalid" => p \in Invalid
  BY <1>1, <1>2, Zenon DEF ProcOK, current
<1>5. SoundRecord([id |-> p, state |-> z], received, A) /\ z \in PackageState
  BY <1>3, <1>4 DEF SoundRecord, PackageState, Acked
<1>6. Sound(ix, received, A)
  BY <1>1, LoadIsSound DEF IInv
<1>7. PICK iy : iy = upsert_package(ix, p, z)
  OBVIOUS
<1>8. Sound(iy, received, A)
  BY <1>3, <1>5, <1>6, <1>7, UpsertIsSound
<1>9. proc' = [proc EXCEPT !.at = "failed", !.local = iy]
  BY <1>1, <1>7 DEF finalize_package_error
<1>10. /\ DOMAIN proc' = ProcFields /\ proc'.at = "failed" /\ proc'.local = iy
       /\ proc'.work = proc.work /\ proc'.stageIndex = proc.stageIndex
  BY <1>2, <1>9 DEF ProcOK, ProcFields
<1>11. ProcOK(proc', received, A)
  BY <1>2, <1>8, <1>10, Zenon DEF ProcOK, Places
<1>12. UNCHANGED <<chainVars, received>> /\ index' = index /\ disk' = disk
  BY DEF finalize_package_error
<1> QED
  BY <1>1, <1>11, <1>12, QuietStep DEF IInv

\* Saving a failure keeps the invariant.
LEMMA SaveFailedStep ==
  ASSUME IInv, SaveFailed
  PROVE  IInv'
<1>1. /\ proc.at # "idle" /\ ToRefresh /\ disk' = proc.local
      /\ UNCHANGED <<chainVars, received>> /\ index' = index
  BY DEF SaveFailed
<1>2. ProcOK(proc', received, Claimable)
  BY <1>1, ToRefreshOK DEF IInv
<1>3. Sound(disk', received, Claimable)
  BY <1>1, Zenon DEF IInv, ProcOK
<1> QED
  BY <1>1, <1>2, <1>3, QuietStep DEF IInv

\* Refreshing from the disk keeps the invariant.
LEMMA RefreshStep ==
  ASSUME IInv, Refresh
  PROVE  IInv'
<1>1. PICK A, ix : A = Claimable /\ ix = load_index(disk)
  OBVIOUS
<1>2. ProcOK(proc, received, A) /\ proc.at = "refresh" /\ Sound(ix, received, A)
  BY <1>1, LoadIsSound DEF IInv, Refresh
<1>3. proc' = [proc EXCEPT !.at = "install", !.local = ix]
  BY <1>1 DEF Refresh
<1>4. /\ DOMAIN proc' = ProcFields /\ proc'.at = "install" /\ proc'.local = ix
      /\ proc'.work = proc.work /\ proc'.stageIndex = proc.stageIndex
  BY <1>2, <1>3 DEF ProcOK, ProcFields
<1>5. ProcOK(proc', received, A)
  BY <1>2, <1>4, Zenon DEF ProcOK, Places
<1>6. UNCHANGED <<chainVars, received>> /\ index' = index /\ disk' = disk
  BY DEF Refresh
<1> QED
  BY <1>1, <1>5, <1>6, QuietStep DEF IInv

\* Installing the refreshed index keeps the invariant.
LEMMA InstallStep ==
  ASSUME IInv, Install
  PROVE  IInv'
<1>1. /\ proc.at # "idle" /\ index' = proc.local
      /\ UNCHANGED <<chainVars, received>> /\ disk' = disk
  BY DEF Install
<1>2. PICK q : q = proc.work
  OBVIOUS
<1>3. q \in Seq(received) /\ q # <<>>
  BY <1>1, <1>2, CurrentReceived
<1>4. \/ proc' = Idle
      \/ Len(q) # 1 /\ proc' = [Idle EXCEPT !.at = "load", !.work = Tail(q)]
  BY <1>2 DEF Install
<1>5. ProcOK(proc', received, Claimable)
  <2>1. PICK rest : rest = Tail(q)
    BY Zenon
  <2>2. CASE Len(q) # 1
    <3>1. rest \in Seq(received) /\ Len(rest) = Len(q) - 1 /\ Len(q) \in Nat
      BY <1>3, <2>1
    <3>2. Len(rest) # 0
      BY <2>2, <3>1
    <3>3. rest # <<>>
      BY <3>2
    <3>4. ProcOK([Idle EXCEPT !.at = "load", !.work = rest], received, Claimable)
      BY <3>1, <3>3, IdleAtOK, Zenon
    <3> QED
      BY <1>4, <2>1, <3>4, IdleIsOK
  <2>3. CASE Len(q) = 1
    BY <1>4, <2>3, IdleIsOK
  <2> QED
    BY <2>2, <2>3
<1>6. Sound(index', received, Claimable)
  BY <1>1, Zenon DEF IInv, ProcOK
<1> QED
  BY <1>1, <1>5, <1>6, QuietStep DEF IInv

-----------------------------------------------------------------------------
(* Requests and restarts *)

\* A restart keeps the invariant.
LEMMA RestartStep ==
  ASSUME IInv, Restart
  PROVE  IInv'
<1>1. /\ UNCHANGED <<chainVars, received>> /\ disk' = disk
      /\ index' = load_index(disk) /\ proc' = Idle
  BY DEF Restart
<1>2. Sound(index', received, Claimable)
  BY <1>1, LoadIsSound DEF IInv
<1> QED
  BY <1>1, <1>2, IdleIsOK, QuietStep DEF IInv

\* A request to the importer's endpoint keeps the invariant.
LEMMA RequestStep ==
  ASSUME IInv, NEW p \in Package, Request(p)
  PROVE  IInv'
<1>1. /\ index' = ensure_package_record(index, p) /\ disk' = index'
      /\ received' = received \cup {p} /\ proc' = proc /\ UNCHANGED chainVars
  BY DEF Request, receive_package
<1>2. PICK A, S : A = Claimable /\ S = received'
  OBVIOUS
<1>3. received \subseteq S /\ p \in S /\ S \subseteq Package
  BY <1>1, <1>2 DEF IInv
<1>4. ChainOK' /\ Claimable' = A
  BY <1>1, <1>2, <1>3, ChainGrows DEF IInv
<1>5. Sound(index, S, A)
  BY <1>2, <1>3, SoundGrows DEF IInv
<1>6. Sound(index', S, A)
  <2>1. SoundRecord([id |-> p, state |-> "Received"], S, A)
    BY <1>3 DEF SoundRecord, Acked
  <2>2. "Received" \in PackageState
    BY DEF PackageState
  <2>3. Sound(upsert_package(index, p, "Received"), S, A)
    BY <1>5, <2>1, <2>2, UpsertIsSound
  <2> QED
    BY <1>1, <1>5, <2>3 DEF ensure_package_record
<1>7. ProcOK(proc, S, A)
  BY <1>2, <1>3, ProcGrows DEF IInv
<1> QED
  BY <1>1, <1>2, <1>3, <1>4, <1>6, <1>7 DEF IInv

-----------------------------------------------------------------------------
(* Theorems *)

\* Every step of the processor keeps the invariant.
LEMMA ProcessorKeeps ==
  ASSUME IInv, ProcessorStep
  PROVE  IInv'
BY PendingStep, LoadStep, SaveMarkStep, VerifyStep, StartStageStep, ItemDoneStep, SubmitItemStep,
   ItemFailsStep, WaitFailsStep, EndStageStep, FinishStep, FailStep, SaveFailedStep, RefreshStep,
   InstallStep DEF ProcessorStep

\* Every step of the chain keeps the invariant.
LEMMA ChainKeeps ==
  ASSUME IInv, (\E tx \in Transaction : Include(tx) \/ Lose(tx)) \/ Reorg
  PROVE  IInv'
<1>1. ChainOK' /\ Claimable \subseteq Claimable'
  BY IncludeStep, LoseStep, ReorgStep DEF IInv
<1>2. received' = received /\ index' = index /\ disk' = disk /\ proc' = proc
  BY Zenon DEF Include, Lose, Reorg
<1> QED
  BY <1>1, <1>2, Closing DEF IInv

\* A step that changes nothing keeps the invariant.
LEMMA StutterKeeps ==
  ASSUME IInv, UNCHANGED vars
  PROVE  IInv'
<1>1. UNCHANGED <<chainVars, received>> /\ index' = index /\ disk' = disk /\ proc' = proc
  BY DEF vars
<1> QED
  BY <1>1, QuietStep DEF IInv

\* The importer starts with an empty index and an empty chain.
LEMMA InitOK ==
  ASSUME Init
  PROVE  IInv
<1>1. /\ index = NewIndex /\ disk = NewIndex /\ proc = Idle /\ pool = <<>>
      /\ status = [i \in Item |-> "None"] /\ recent = <<>> /\ retracted = {} /\ dropped = FALSE
      /\ received = {}
  BY DEF Init
<1>2. StatusOK(status, received)
  BY <1>1 DEF StatusOK, ItemStatus
<1>3. PoolOK(pool, received)
  BY <1>1 DEF PoolOK
<1>4. RecentOK(recent, status, received)
  <2>1. recent \in Seq(Included) /\ Len(recent) = 0
    BY <1>1
  <2> QED
    BY <2>1 DEF RecentOK
<1>5. RetractedOK
  <2>1. PICK pos : pos = [i \in {} |-> 1]
    OBVIOUS
  <2>2. pos \in [{} -> DOMAIN pool]
    BY <2>1
  <2>3. Settles(pool, status, {}, pos)
    BY DEF Settles
  <2>4. WillSettle(pool, status, retracted)
    BY <1>1, <2>2, <2>3, Zenon DEF WillSettle
  <2> QED
    BY <1>1, <2>4, Zenon DEF RetractedOK, Unsettled
<1>6. Sound(index, received, Claimable) /\ Sound(disk, received, Claimable)
  BY <1>1, NewIsSound
<1>7. ProcOK(proc, received, Claimable)
  BY <1>1, IdleIsOK
<1> QED
  BY <1>1, <1>2, <1>3, <1>4, <1>5, <1>6, <1>7 DEF IInv, ChainOK

\* Every step keeps the inductive invariant: what the copies of the index claim,
\* where the processor is in a package, and that the pool settles again what a
\* reorganisation undid.
THEOREM ImporterInvariant == Spec => []IInv
<1>1. Init => IInv
  BY InitOK
<1>2. IInv /\ [Next]_vars => IInv'
  BY ProcessorKeeps, ChainKeeps, StutterKeeps, RequestStep, RestartStep DEF Next
<1> QED
  BY <1>1, <1>2, PTL DEF Spec

\* What a true index says of a package.
LEMMA SoundStates ==
  ASSUME NEW ix, NEW R, NEW A, Sound(ix, R, A), NEW p
  PROVE  /\ StateOf(ix, p) \in Acked => Items(p) \subseteq A
         /\ StateOf(ix, p) = "AckedInvalid" => p \in Invalid
<1>1. CASE HasPackage(ix, p)
  <2>1. PICK k \in DOMAIN ix.packages :
           ix.packages[k].id = p /\ ix.packages[k].state = StateOf(ix, p)
    BY <1>1, StateIsListed
  <2>2. SoundRecord(ix.packages[k], R, A)
    BY DEF Sound
  <2> QED
    BY <2>1, <2>2 DEF SoundRecord
<1>2. CASE ~ HasPackage(ix, p)
  BY <1>2 DEF StateOf, Acked
<1> QED
  BY <1>1, <1>2

\* No copy of the index, in memory, on disk or in the processor, claims an item
\* or acknowledges a package that the chain does not have, for any number of
\* packages, requests, restarts, lost extrinsics and reorganisations.
THEOREM IndexMatchesChainHolds == Spec => []IndexMatchesChain
<1>1. IInv => IndexMatchesChain
  <2>1. SUFFICES ASSUME IInv, ~ dropped
                 PROVE  /\ \A p \in Package, ix \in {index, disk, proc.local} :
                              StateOf(ix, p) \in Acked => \A i \in Items(p) : Applied(i)
                        /\ \A ix \in {index, disk, proc.local, proc.stageIndex} :
                              \A i \in ix.imports : Applied(i)
    BY DEF IndexMatchesChain
  <2>2. \A ix \in {index, disk, proc.local, proc.stageIndex} : Sound(ix, received, Claimable)
    BY <2>1 DEF IInv, ProcOK
  <2>3. \A i \in Claimable : Applied(i)
    BY <2>1 DEF Claimable
  <2>4. \A p \in Package, ix \in {index, disk, proc.local} :
           StateOf(ix, p) \in Acked => \A i \in Items(p) : Applied(i)
    BY <2>2, <2>3, SoundStates
  <2>5. \A ix \in {index, disk, proc.local, proc.stageIndex} : \A i \in ix.imports : Applied(i)
    BY <2>2, <2>3 DEF Sound
  <2> QED
    BY <2>4, <2>5
<1> QED
  BY <1>1, ImporterInvariant, PTL

\* What the chain records, or the pool holds, comes from a received package that
\* verified, and no package that verifies is called invalid.
THEOREM OnlyVerifiedAppliedHolds == Spec => []OnlyVerifiedApplied
<1>1. IInv => OnlyVerifiedApplied
  <2>1. SUFFICES ASSUME IInv PROVE OnlyVerifiedApplied
    OBVIOUS
  <2>2. StatusOK(status, received) /\ PoolOK(pool, received) /\ Sound(index, received, Claimable)
    BY <2>1 DEF IInv, ChainOK
  <2>3. ASSUME NEW i \in Item,
               status[i] # "None" \/ \E op \in {"observe", "finish"} : <<op, i>> \in Range(pool)
        PROVE  \E p \in received \ Invalid : i \in Items(p)
    <3>1. i \in Verified(received)
      <4>1. CASE status[i] # "None"
        BY <2>2, <4>1 DEF StatusOK
      <4>2. CASE \E op \in {"observe", "finish"} : <<op, i>> \in Range(pool)
        <5>1. PICK op \in {"observe", "finish"} : <<op, i>> \in Range(pool)
          BY <4>2
        <5>2. PICK n \in DOMAIN pool : pool[n] = <<op, i>>
          BY <5>1 DEF Range
        <5>3. pool[n] # Gap
          BY <5>2 DEF Gap
        <5>4. IsTx(pool[n], received)
          BY <2>2, <5>3 DEF PoolOK
        <5> QED
          BY <5>2, <5>4 DEF IsTx
      <4> QED
        BY <2>3, <4>1, <4>2
    <3> QED
      BY <3>1 DEF Verified
  <2>4. \A p \in Package \ Invalid : StateOf(index, p) # "AckedInvalid"
    BY <2>2, SoundStates
  <2> QED
    BY <2>3, <2>4 DEF OnlyVerifiedApplied
<1> QED
  BY <1>1, ImporterInvariant, PTL
=============================================================================
