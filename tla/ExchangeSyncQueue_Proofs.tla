---------------------- MODULE ExchangeSyncQueue_Proofs ----------------------
(***************************************************************************)
(* Proofs about ExchangeSyncQueue, for every address book and any number   *)
(* of runs, rows, retries and crashes.                                     *)
(***************************************************************************)
EXTENDS ExchangeSyncQueue, TLAPS

-----------------------------------------------------------------------------
(* Facts about the constants and the operators on rows. *)

LEMMA ConstantFacts ==
  /\ 0 \in Versions /\ RpcTries \in Nat \ {0} /\ MaxAttempts \in Nat \ {0}
  /\ MaxCrashes \in Nat /\ MaxVersion \in Nat /\ 0 \in 0..RpcTries
  /\ NoRow \notin Rows /\ Rows \subseteq Nat
  /\ BlankView \in [Entities -> Versions]
  BY QueueAssumption DEF Versions, Rows, NoRow, BlankView

LEMMA EntityType == ASSUME queue \in [Rows -> Row], NEW i \in Rows
                    PROVE  EntityOfRow(i) \in Entities /\ Scope(i) \subseteq Entities
  BY QueueAssumption DEF EntityOfRow, Scope, Row

LEMMA TakenType == ASSUME NEW q PROVE Taken(q) \subseteq Eligible(q) /\ Eligible(q) \subseteq Rows
  BY DEF Taken, Candidates, Eligible

(* Expiring and repairing rows leaves them rows, of the same key. *)
LEMMA SweptType == ASSUME queue \in [Rows -> Row]
                   PROVE  /\ Swept \in [Rows -> Row]
                          /\ \A i \in Rows : Swept[i].key = queue[i].key
  <1>1. ASSUME NEW i \in Rows PROVE Swept[i] \in Row /\ Swept[i].key = queue[i].key
    <2>1. queue[i] \in Row /\ RetryOrNever(i) \in Retry
      BY DEF RetryOrNever, Retry
    <2>2. \A next \in Retry : [queue[i] EXCEPT !.status = "failed", !.stale = FALSE,
                                              !.next = next] \in Row
      BY <2>1 DEF Row, Status
    <2>3. [queue[i] EXCEPT !.next = "null"] \in Row
      BY <2>1 DEF Row, Retry
    <2> QED
      BY <2>1, <2>2, <2>3 DEF Swept, Row
  <1> QED
    BY <1>1 DEF Swept
-----------------------------------------------------------------------------
(* Type correctness of the runs. *)

LEMMA RunTypeStep == ASSUME TypeOK, Next PROVE RunTypeOK'
  <1> USE ConstantFacts
  <1> USE DEF progress, store, Goes, PC, Cleared
  <1>a. RunTypeOK /\ queue \in [Rows -> Row] /\ src \in [Entities -> Versions]
    BY DEF TypeOK, StoreTypeOK
  <1>1. ASSUME NEW k \in Keys, NEW a \in Actors, SourceChange(k, a) PROVE RunTypeOK'
    BY <1>a, <1>1 DEF RunTypeOK, SourceChange
  <1>2. ASSUME NEW i \in Rows, GoesStale(i) PROVE RunTypeOK'
    BY <1>a, <1>2 DEF RunTypeOK, GoesStale
  <1>3. ASSUME NEW i \in Rows, RetryFallsDue(i) PROVE RunTypeOK'
    BY <1>a, <1>3 DEF RunTypeOK, RetryFallsDue
  <1>4. CASE LeaseRunsOut
    BY <1>a, <1>4 DEF RunTypeOK, LeaseRunsOut
  <1>b. ASSUME NEW r \in Runs, RunEnds(r) PROVE RunTypeOK'
    BY <1>a, <1>b DEF RunTypeOK, RunEnds
  <1>5. ASSUME NEW r \in Runs, Begin(r) PROVE RunTypeOK'
    <2>1. CASE Reserve(r)
      BY <1>a, <2>1 DEF RunTypeOK, Reserve
    <2>2. CASE ReserveRejected(r)
      BY <1>a, <2>2 DEF RunTypeOK, ReserveRejected
    <2>3. CASE NeverStarts(r)
      BY <1>a, <2>3 DEF RunTypeOK, NeverStarts
    <2>4. CASE Denied(r)
      BY <1>a, <2>4 DEF RunTypeOK, Denied
    <2>5. ASSUME NEW m \in {"incremental", "full"}, Start(r, m) PROVE RunTypeOK'
      BY <1>a, <2>5 DEF RunTypeOK, Start
    <2>6. ASSUME NEW m \in {"incremental", "full"}, StartUnanswered(r, m) PROVE RunTypeOK'
      BY <1>a, <2>6 DEF RunTypeOK, StartUnanswered
    <2> QED
      BY <1>5, <2>1, <2>2, <2>3, <2>4, <2>5, <2>6 DEF Begin
  <1>6. ASSUME NEW r \in Runs, Project(r) PROVE RunTypeOK'
    <2>1. CASE Claim(r)
      <3>1. Taken(Swept) \subseteq Rows
        BY TakenType
      <3>2. CASE RunEnds(r)
        BY <1>b, <3>2
      <3>3. CASE /\ Goes(r, "pick") /\ batch' = [batch EXCEPT ![r] = Taken(Swept)]
                 /\ seen' = [seen EXCEPT ![r] = {}]
                 /\ UNCHANGED <<mode, row, view, todo, cmd, tries, ok>>
        BY <1>a, <3>1, <3>3 DEF RunTypeOK
      <3>4. CASE /\ Goes(r, "load") /\ seen' = [seen EXCEPT ![r] = {}]
                 /\ UNCHANGED <<mode, batch, row, view, todo, cmd, tries, ok>>
        BY <1>a, <3>4 DEF RunTypeOK
      <3> QED
        BY <2>1, <3>2, <3>3, <3>4 DEF Claim
    <2>2. CASE Abort(r)
      BY <1>b, <2>2 DEF Abort
    <2>3. CASE Pick(r)
      <3>1. CASE /\ Goes(r, "claim") /\ seen' = [seen EXCEPT ![r] = {}]
                 /\ view' = [view EXCEPT ![r] = BlankView]
                 /\ UNCHANGED <<batch, row, todo, tries, mode, cmd, ok>>
        BY <1>a, <3>1 DEF RunTypeOK
      <3>2. ASSUME NEW i \in batch[r], batch' = [batch EXCEPT ![r] = @ \ {i}],
                   row' = [row EXCEPT ![r] = i], todo' = [todo EXCEPT ![r] = Scope(i)],
                   tries' = [tries EXCEPT ![r] = 0], UNCHANGED <<view, seen, mode, cmd, ok>>,
                   Goes(r, IF seen[r] = Entities THEN "write" ELSE "load")
            PROVE RunTypeOK'
        <4>1. i \in Rows /\ Scope(i) \subseteq Entities
          BY <1>a, EntityType DEF RunTypeOK
        <4> QED
          BY <1>a, <3>2, <4>1 DEF RunTypeOK
      <3> QED
        BY <2>3, <3>1, <3>2 DEF Pick
    <2>4. CASE Land(r)
      BY <1>a, <2>4 DEF RunTypeOK, Land
    <2>5. CASE CommandFails(r)
      BY <1>a, <2>5 DEF RunTypeOK, CommandFails
    <2>6. CASE LateLanding(r)
      BY <1>a, <2>6 DEF RunTypeOK, LateLanding
    <2>7. CASE Projected(r)
      <3>1. CASE row[r] # NoRow
        BY <1>a, <2>7, <3>1 DEF RunTypeOK, Projected
      <3>2. CASE row[r] = NoRow
        <4>1. pc' \in [Runs -> PC]
          BY <1>a, <2>7, <3>2 DEF RunTypeOK, Projected
        <4>2. todo' = [todo EXCEPT ![r] = Entities] /\ Entities \in SUBSET Entities
          BY <2>7, <3>2 DEF Projected
        <4>3. todo' \in [Runs -> SUBSET Entities]
          BY <1>a, <4>2 DEF RunTypeOK
        <4> QED
          BY <1>a, <2>7, <4>1, <4>3 DEF RunTypeOK, Projected
      <3> QED
        BY <3>1, <3>2
    <2>8. CASE RowThrows(r)
      BY <1>a, <2>8 DEF RunTypeOK, RowThrows
    <2>9. ASSUME NEW e \in Entities, LoadOne(r, e) PROVE RunTypeOK'
      <3>1. view' \in [Runs -> [Entities -> Versions]]
        BY <1>a, <2>9 DEF RunTypeOK, LoadOne
      <3>2. /\ seen' \in [Runs -> SUBSET Entities]
            /\ todo' \in [Runs -> SUBSET Entities]
        BY <1>a, <2>9 DEF RunTypeOK, LoadOne
      <3>3. pc' \in [Runs -> PC]
        BY <1>a, <2>9 DEF RunTypeOK, LoadOne
      <3> QED
        BY <1>a, <2>9, <3>1, <3>2, <3>3 DEF RunTypeOK, LoadOne
    <2>10. ASSUME NEW e \in Entities, Issue(r, e) PROVE RunTypeOK'
      BY <1>a, <2>10 DEF RunTypeOK, Issue
    <2> QED
      BY <1>6, <2>1, <2>2, <2>3, <2>4, <2>5, <2>6, <2>7, <2>8, <2>9, <2>10 DEF Project
  <1>c. ASSUME NEW r \in Runs, TryAgain(r) PROVE tries' \in [Runs -> 0..RpcTries]
    BY <1>a, <1>c DEF RunTypeOK, TryAgain
  <1>7. ASSUME NEW r \in Runs, Settle(r) PROVE RunTypeOK'
    <2>1. CASE RowDone(r) /\ UNCHANGED <<mode, batch, view, seen, todo, cmd>>
      BY <1>a, <2>1 DEF RunTypeOK, RowDone
    <2>2. CASE RowFails(r) /\ UNCHANGED <<mode, batch, view, seen, todo, cmd>>
      BY <1>a, <2>2 DEF RunTypeOK, RowFails
    <2>3. CASE TryAgain(r) /\ UNCHANGED <<pc, row, ok, mode, batch, view, seen, todo, cmd>>
      BY <1>a, <1>c, <2>3 DEF RunTypeOK
    <2> QED
      BY <1>7, <2>1, <2>2, <2>3 DEF Settle, CompleteRow, CompletionAbandoned, PersistFailure
  <1>8. ASSUME NEW r \in Runs, Verify(r) PROVE RunTypeOK'
    <2>1. ASSUME NEW e \in Entities, NEW place \in PC, NEW rest \in SUBSET Entities,
                 Compared(r, e, place, rest),
                 UNCHANGED <<mode, batch, row, view, seen, cmd, tries, ok>>
          PROVE RunTypeOK'
      <3>1. pc' \in [Runs -> PC]
        BY <1>a, <2>1 DEF RunTypeOK, Compared
      <3>2. todo' \in [Runs -> SUBSET Entities]
        <4>1. todo[r] \ {e} \in SUBSET Entities
          BY <1>a DEF RunTypeOK
        <4>2. CASE todo' = [todo EXCEPT ![r] = todo[r] \ {e}]
          BY <1>a, <4>1, <4>2 DEF RunTypeOK
        <4>3. CASE todo' = [todo EXCEPT ![r] = rest]
          BY <1>a, <2>1, <4>3 DEF RunTypeOK
        <4> QED
          BY <2>1, <4>2, <4>3 DEF Compared
      <3> QED
        BY <1>a, <2>1, <3>1, <3>2 DEF RunTypeOK
    <2>2. ASSUME NEW e \in Entities, Check(r, e) PROVE RunTypeOK'
      BY <1>b, <2>1, <2>2 DEF Check
    <2>3. ASSUME NEW e \in Entities, Reread(r, e) PROVE RunTypeOK'
      BY <1>b, <2>1, <2>3 DEF Reread
    <2>4. CASE Certify(r)
      <3>1. CASE TryAgain(r) /\ UNCHANGED <<pc, mode, batch, row, view, seen, todo, cmd, ok>>
        BY <1>a, <1>c, <3>1 DEF RunTypeOK
      <3> QED
        BY <1>b, <2>4, <3>1 DEF Certify
    <2> QED
      BY <1>8, <2>2, <2>3, <2>4 DEF Verify
  <1>9. ASSUME NEW r \in Runs, Finish(r) PROVE RunTypeOK'
    <2>1. CASE Release(r)
      BY <1>a, <2>1 DEF RunTypeOK, Release
    <2>2. CASE Crash(r)
      BY <1>a, <2>2 DEF RunTypeOK, Crash
    <2>3. CASE Recycle(r)
      BY <1>a, <2>3 DEF RunTypeOK, Recycle
    <2> QED
      BY <1>9, <2>1, <2>2, <2>3 DEF Finish
  <1> QED
    BY <1>1, <1>2, <1>3, <1>4, <1>5, <1>6, <1>7, <1>8, <1>9 DEF Next, Edit, Deadline

-----------------------------------------------------------------------------
(* Type correctness of the store.  A claim counts up the attempts of a     *)
(* row, so a row that can be claimed must have attempts left.              *)

LEMMA StampType == ASSUME StoreTypeOK, StampedByDatabase \/ StampedByWorker
                   PROVE  fence' \in [Runs -> {"held", "moved"}] /\ ahead' \in BOOLEAN
  <1>1. AllMoved \in [Runs -> {"held", "moved"}]
    BY DEF AllMoved
  <1>2. fence' = AllMoved \/ fence' = fence
    BY DEF StampedByDatabase, StampedByWorker
  <1>3. fence' \in [Runs -> {"held", "moved"}]
    BY <1>1, <1>2 DEF StoreTypeOK
  <1>4. ahead \in BOOLEAN /\ WorkerClockSkew \in BOOLEAN
    BY QueueAssumption DEF StoreTypeOK
  <1>5. ahead' = FALSE \/ ahead' = ahead \/ ahead' = WorkerClockSkew
    BY DEF StampedByDatabase, StampedByWorker
  <1>6. ahead' \in BOOLEAN
    BY <1>4, <1>5, Zenon
  <1> QED
    BY <1>3, <1>6

LEMMA ClaimedType ==
  ASSUME NEW q \in [Rows -> Row], NEW r \in Runs,
         \A i \in Rows : q[i].status = "pending" => q[i].attempts = 0
  PROVE  /\ ClaimedBy(q, r) \in [Rows -> Row]
         /\ \A i \in Rows :
              \/ ClaimedBy(q, r)[i] = q[i]
              \/ i \in Taken(q) /\ ClaimedBy(q, r)[i].status = "processing"
  <1>1. ASSUME NEW i \in Taken(q)
        PROVE  [q[i] EXCEPT !.status = "processing", !.attempts = @ + 1, !.next = "null",
                            !.stale = FALSE, !.run = r]
                 \in {x \in Row : x.status = "processing"}
    <2>1. i \in Eligible(q) /\ i \in Rows /\ q[i] \in Row
      BY TakenType
    <2>2. q[i].attempts \in 0..MaxAttempts /\ q[i].attempts < MaxAttempts
      BY <2>1, ConstantFacts DEF Eligible, Row
    <2>3. q[i].attempts + 1 \in 0..MaxAttempts
      BY <2>2, ConstantFacts
    <2> QED
      BY <2>1, <2>3 DEF Row, Status, Retry
  <1>2. \A i \in Rows : i \in Taken(q) => ClaimedBy(q, r)[i] \in {x \in Row : x.status = "processing"}
    BY <1>1 DEF ClaimedBy
  <1>3. \A i \in Rows : i \notin Taken(q) => ClaimedBy(q, r)[i] = q[i]
    BY DEF ClaimedBy
  <1>4. ClaimedBy(q, r) = [i \in Rows |-> ClaimedBy(q, r)[i]]
    BY DEF ClaimedBy
  <1> QED
    BY <1>2, <1>3, <1>4

LEMMA SweptStatus == ASSUME queue \in [Rows -> Row], NEW i \in Rows
                     PROVE  /\ Swept[i].attempts = queue[i].attempts
                            /\ \/ Swept[i].status = queue[i].status
                               \/ Processing(i) /\ Swept[i].status = "failed"
  BY DEF Swept, Processing, Row

LEMMA CompletedType == ASSUME queue \in [Rows -> Row], NEW i
                       PROVE  CompletedIn(i) \in [Rows -> Row] /\ SkippedTerminal \in [Rows -> Row]
  <1>1. ASSUME NEW j \in Rows PROVE CompletedIn(i)[j] \in Row /\ SkippedTerminal[j] \in Row
    <2>1. /\ [queue[j] EXCEPT !.status = "completed", !.next = "null", !.stale = FALSE] \in Row
          /\ [queue[j] EXCEPT !.status = "skipped", !.stale = FALSE] \in Row
          /\ [queue[j] EXCEPT !.status = "skipped"] \in Row
      BY DEF Row, Status, Retry
    <2> QED
      BY <2>1 DEF CompletedIn, SkippedTerminal
  <1> QED
    BY <1>1 DEF CompletedIn, SkippedTerminal

LEMMA StoreTypeStep == ASSUME TypeOK, FreshPending, Next
                       PROVE  StoreTypeOK' /\ FreshPending'
  <1> USE ConstantFacts
  <1> USE DEF progress, store
  <1>a. StoreTypeOK /\ RunTypeOK /\ queue \in [Rows -> Row]
    BY DEF TypeOK, StoreTypeOK
  <1> DEFINE RowsOK == queue' \in [Rows -> Row] /\ FreshPending'
  <1>b. ASSUME UNCHANGED queue PROVE RowsOK
    BY <1>a, <1>b DEF FreshPending, Pending
  <1>c. ASSUME NEW r \in Runs, NEW m \in {"incremental", "full"},
               Acquired(r, m) \/ Released(r) \/ UNCHANGED lock
        PROVE  lock' \in [run : Runs \cup {NoRun}, mode : {"incremental", "full"}, live : BOOLEAN]
    <2>1. /\ [run |-> r, mode |-> m, live |-> TRUE]
               \in [run : Runs \cup {NoRun}, mode : {"incremental", "full"}, live : BOOLEAN]
          /\ FreeLock \in [run : Runs \cup {NoRun}, mode : {"incremental", "full"}, live : BOOLEAN]
      BY DEF FreeLock
    <2>2. lock' \in {[run |-> r, mode |-> m, live |-> TRUE], FreeLock, lock}
      BY <1>c DEF Acquired, Released
    <2> QED
      BY <1>a, <2>1, <2>2 DEF StoreTypeOK
  <1>d. ASSUME NEW i \in Rows, NEW x \in Row, x.status # "pending" \/ x.attempts = 0,
               queue' = [queue EXCEPT ![i] = x]
        PROVE  RowsOK
    <2>1. queue' \in [Rows -> Row]
      BY <1>a, <1>d
    <2>2. \A j \in Rows : queue'[j] = IF j = i THEN x ELSE queue[j]
      BY <1>a, <1>d
    <2> QED
      BY <1>d, <2>1, <2>2 DEF FreshPending, Pending
  <1>1. ASSUME NEW k \in Keys, NEW a \in Actors, SourceChange(k, a)
        PROVE  StoreTypeOK' /\ FreshPending'
    <2>1. NewRow(k, a) \in Row /\ NewRow(k, a).attempts = 0
      BY DEF NewRow, Row, Status, Retry
    <2>2. RowsOK
      BY <1>1, <1>b, <1>d, <2>1 DEF SourceChange
    <2>3. src' \in [Entities -> Versions]
      <3>1. src[EntityOf[k]] + 1 \in Versions
        BY <1>a, <1>1, QueueAssumption DEF StoreTypeOK, Versions, SourceChange
      <3> QED
        BY <1>a, <1>1, <3>1 DEF StoreTypeOK, SourceChange
    <2>4. fence' \in [Runs -> {"held", "moved"}] /\ ahead' \in BOOLEAN
      BY <1>a, <1>1, StampType DEF SourceChange
    <2> QED
      BY <1>a, <1>1, <2>2, <2>3, <2>4 DEF StoreTypeOK, SourceChange
  <1>2. ASSUME NEW i \in Rows, GoesStale(i) PROVE StoreTypeOK' /\ FreshPending'
    <2>1. [queue[i] EXCEPT !.stale = TRUE] \in {x \in Row : x.status # "pending"}
      BY <1>a, <1>2 DEF GoesStale, Processing, Row
    <2>2. RowsOK
      BY <1>2, <1>d, <2>1 DEF GoesStale
    <2> QED
      BY <1>a, <1>2, <2>2 DEF StoreTypeOK, GoesStale
  <1>3. ASSUME NEW i \in Rows, RetryFallsDue(i) PROVE StoreTypeOK' /\ FreshPending'
    <2>1. [queue[i] EXCEPT !.next = "due"] \in {x \in Row : x.status # "pending" \/ x.attempts = 0}
      BY <1>a DEF FreshPending, Pending, Row, Retry
    <2>2. RowsOK
      BY <1>3, <1>d, <2>1 DEF RetryFallsDue
    <2> QED
      BY <1>a, <1>3, <2>2 DEF StoreTypeOK, RetryFallsDue
  <1>4. CASE LeaseRunsOut
    <2>1. [lock EXCEPT !.live = FALSE]
            \in [run : Runs \cup {NoRun}, mode : {"incremental", "full"}, live : BOOLEAN]
      BY <1>a DEF StoreTypeOK
    <2>2. lock' \in [run : Runs \cup {NoRun}, mode : {"incremental", "full"}, live : BOOLEAN]
      BY <1>4, <2>1 DEF LeaseRunsOut
    <2> QED
      BY <1>a, <1>b, <1>4, <2>2 DEF StoreTypeOK, LeaseRunsOut
  <1>5. ASSUME NEW r \in Runs, Begin(r) PROVE StoreTypeOK' /\ FreshPending'
    <2>1. ASSUME NEW m \in {"incremental", "full"}, Start(r, m)
          PROVE  StoreTypeOK' /\ FreshPending'
      <3>1. fence' \in [Runs -> {"held", "moved"}]
        BY <1>a, <2>1 DEF StoreTypeOK, Start
      <3> QED
        BY <1>a, <1>b, <1>c, <2>1, <3>1 DEF StoreTypeOK, Start
    <2>2. ASSUME NEW m \in {"incremental", "full"}, StartUnanswered(r, m)
          PROVE  StoreTypeOK' /\ FreshPending'
      BY <1>a, <1>b, <1>c, <2>2 DEF StoreTypeOK, StartUnanswered
    <2>3. CASE Reserve(r)
      BY <1>a, <1>b, <1>c, <2>3 DEF StoreTypeOK, Reserve
    <2>4. CASE ReserveRejected(r)
      BY <1>a, <1>b, <1>c, <2>4 DEF StoreTypeOK, ReserveRejected
    <2>5. CASE NeverStarts(r) \/ Denied(r)
      BY <1>a, <1>b, <2>5 DEF StoreTypeOK, NeverStarts, Denied
    <2> QED
      BY <1>5, <2>1, <2>2, <2>3, <2>4, <2>5 DEF Begin
  <1>6. ASSUME NEW r \in Runs, Project(r) PROVE StoreTypeOK' /\ FreshPending'
    <2>1. CASE Claim(r)
      <3>1. \A i \in Rows : Swept[i].status = "pending" => Swept[i].attempts = 0
        BY <1>a, SweptStatus DEF FreshPending, Pending
      <3>2. RowsOK
        BY <1>a, <2>1, <3>1, SweptType, ClaimedType DEF Claim, FreshPending, Pending
      <3>3. fence' \in [Runs -> {"held", "moved"}] /\ ahead' \in BOOLEAN
        <4>1. CASE StampedByDatabase
          BY <1>a, <4>1, StampType
        <4>2. CASE UNCHANGED <<fence, ahead>>
          BY <1>a, <4>2 DEF StoreTypeOK
        <4>3. CASE fence' = [fence EXCEPT ![r] = "held"] /\ UNCHANGED ahead
          BY <1>a, <4>3 DEF StoreTypeOK
        <4> QED
          BY <2>1, <4>1, <4>2, <4>3 DEF Claim
      <3> QED
        BY <1>a, <2>1, <3>2, <3>3 DEF StoreTypeOK, Claim
    <2>2. ASSUME TakesEffect(r) \/ exch' = exch,
                 UNCHANGED <<src, queue, lock, fence, ahead, certified, crashes>>
          PROVE  StoreTypeOK' /\ FreshPending'
      <3>1. cmd[r] \in Entities => view[r][cmd[r]] \in Versions
        BY <1>a DEF RunTypeOK
      <3>2. exch' \in [Entities -> Versions]
        BY <1>a, <2>2, <3>1 DEF StoreTypeOK, TakesEffect
      <3> QED
        BY <1>a, <1>b, <2>2, <3>2 DEF StoreTypeOK
    <2>3. CASE LateLanding(r)
      BY <2>2, <2>3 DEF LateLanding
    <2>4. CASE Land(r) \/ CommandFails(r)
      BY <2>2, <2>4 DEF Land, CommandFails
    <2>5. CASE UNCHANGED store
      BY <1>a, <1>b, <2>5 DEF StoreTypeOK
    <2> QED
      BY <1>6, <2>1, <2>3, <2>4, <2>5
         DEF Project, Pick, Projected, RowThrows, Abort, LoadOne, Issue
  <1>e. ASSUME NEW r \in Runs, CompleteInDatabase(r) PROVE RowsOK
    <2>1. ASSUME queue' = CompletedIn(row[r]) PROVE RowsOK
      <3>1. \A j \in Rows : queue'[j].status = "pending" => queue'[j] = queue[j]
        BY <1>a, <2>1 DEF CompletedIn, Row
      <3> QED
        BY <1>a, <2>1, <3>1, CompletedType DEF FreshPending, Pending
    <2> QED
      BY <1>b, <1>e, <2>1 DEF CompleteInDatabase
  <1>f. ASSUME StampedByDatabase \/ StampedByWorker \/ UNCHANGED <<fence, ahead>>
        PROVE  fence' \in [Runs -> {"held", "moved"}] /\ ahead' \in BOOLEAN
    <2>1. CASE StampedByDatabase \/ StampedByWorker
      BY <1>a, <2>1, StampType
    <2>2. CASE UNCHANGED <<fence, ahead>>
      BY <1>a, <2>2 DEF StoreTypeOK
    <2> QED
      BY <1>f, <2>1, <2>2
  <1>7. ASSUME NEW r \in Runs, Settle(r) PROVE StoreTypeOK' /\ FreshPending'
    <2>1. CASE CompleteRow(r)
      <3>1. RowsOK
        BY <1>b, <1>e, <2>1 DEF CompleteRow
      <3>2. fence' \in [Runs -> {"held", "moved"}] /\ ahead' \in BOOLEAN
        BY <1>f, <2>1 DEF CompleteRow, CompleteInDatabase
      <3> QED
        BY <1>a, <2>1, <3>1, <3>2 DEF StoreTypeOK, CompleteRow
    <2>2. CASE CompletionAbandoned(r)
      BY <1>a, <1>b, <2>2 DEF StoreTypeOK, CompletionAbandoned
    <2>3. CASE PersistFailure(r)
      <3>1. ASSUME row[r] \in Rows PROVE Failure(row[r]) \in Row /\ Failure(row[r]).status = "failed"
        <4>1. queue[row[r]] \in Row /\ LaterOrNever(row[r]) \in Retry
          BY <1>a, <3>1 DEF LaterOrNever, Retry
        <4>2. \A next \in Retry :
                [queue[row[r]] EXCEPT !.status = "failed", !.stale = FALSE, !.next = next]
                  \in {x \in Row : x.status = "failed"}
          BY <4>1 DEF Row, Status
        <4> QED
          BY <4>1, <4>2 DEF Failure
      <3>2. ASSUME queue' = [queue EXCEPT ![row[r]] = Failure(row[r])] PROVE RowsOK
        <4>1. CASE row[r] \in Rows
          BY <1>d, <3>1, <3>2, <4>1
        <4>2. CASE row[r] \notin Rows
          BY <1>a, <1>b, <3>2, <4>2
        <4> QED
          BY <4>1, <4>2
      <3>3. RowsOK
        BY <1>b, <2>3, <3>2 DEF PersistFailure
      <3>4. fence' \in [Runs -> {"held", "moved"}] /\ ahead' \in BOOLEAN
        BY <1>f, <2>3 DEF PersistFailure
      <3> QED
        BY <1>a, <2>3, <3>3, <3>4 DEF StoreTypeOK, PersistFailure
    <2> QED
      BY <1>7, <2>1, <2>2, <2>3 DEF Settle
  <1>8. ASSUME NEW r \in Runs, Verify(r) PROVE StoreTypeOK' /\ FreshPending'
    <2>1. CASE UNCHANGED store
      BY <1>a, <1>b, <2>1 DEF StoreTypeOK
    <2>2. CASE CertifyInDatabase(r) /\ UNCHANGED <<src, exch, lock, crashes>>
      <3>1. ASSUME queue' = SkippedTerminal PROVE RowsOK
        <4>1. \A j \in Rows : queue'[j].status = "pending" => queue'[j] = queue[j]
          BY <1>a, <3>1 DEF SkippedTerminal, Row
        <4> QED
          BY <1>a, <3>1, <4>1, CompletedType DEF FreshPending, Pending
      <3>2. RowsOK
        BY <1>b, <2>2, <3>1 DEF CertifyInDatabase
      <3>3. fence' \in [Runs -> {"held", "moved"}] /\ ahead' \in BOOLEAN
        BY <1>f, <2>2 DEF CertifyInDatabase
      <3>4. certified' \subseteq Runs
        BY <1>a, <2>2 DEF StoreTypeOK, CertifyInDatabase
      <3> QED
        BY <1>a, <2>2, <3>2, <3>3, <3>4 DEF StoreTypeOK
    <2> QED
      BY <1>8, <2>1, <2>2 DEF Verify, Check, Reread, Certify
  <1>9. ASSUME NEW r \in Runs, Finish(r) PROVE StoreTypeOK' /\ FreshPending'
    <2>1. CASE Release(r)
      BY <1>a, <1>b, <1>c, <2>1 DEF StoreTypeOK, Release
    <2>2. CASE Crash(r)
      BY <1>a, <1>b, <2>2 DEF StoreTypeOK, Crash
    <2>3. CASE Recycle(r)
      <3>1. \A j \in Rows : [queue[j] EXCEPT !.run = NoRun] \in Row
        BY <1>a DEF Row
      <3>2. queue' \in [Rows -> Row]
        BY <1>a, <2>3, <3>1 DEF Recycle
      <3>3. \A j \in Rows : queue'[j].status = queue[j].status
                            /\ queue'[j].attempts = queue[j].attempts
        BY <1>a, <2>3 DEF Recycle, Row
      <3>4. certified' \subseteq Runs
        BY <1>a, <2>3 DEF StoreTypeOK, Recycle
      <3> QED
        BY <1>a, <1>c, <2>3, <3>2, <3>3, <3>4 DEF StoreTypeOK, FreshPending, Pending, Recycle
    <2> QED
      BY <1>9, <2>1, <2>2, <2>3 DEF Finish
  <1> QED
    BY <1>1, <1>2, <1>3, <1>4, <1>5, <1>6, <1>7, <1>8, <1>9 DEF Next, Edit, Deadline

LEMMA TypeInit == ASSUME Init PROVE TypeOK /\ FreshPending
  <1> USE ConstantFacts
  <1>1. queue \in [Rows -> Row] /\ FreshPending
    <2>1. (CHOOSE k \in Keys : TRUE) \in Keys /\ (CHOOSE a \in Actors : TRUE) \in Actors
      BY QueueAssumption
    <2> QED
      BY <2>1 DEF Init, Row, Status, Retry, FreshPending, Pending
  <1>2. lock \in [run : Runs \cup {NoRun}, mode : {"incremental", "full"}, live : BOOLEAN]
    BY DEF Init, FreeLock
  <1>3. src \in [Entities -> Versions] /\ exch \in [Entities -> Versions]
    BY DEF Init
  <1>4. fence \in [Runs -> {"held", "moved"}] /\ certified \subseteq Runs /\ crashes \in 0..MaxCrashes
    BY DEF Init, AllMoved
  <1>5. ahead \in BOOLEAN
    BY DEF Init
  <1>6. StoreTypeOK
    BY <1>1, <1>2, <1>3, <1>4, <1>5 DEF StoreTypeOK
  <1>7. RunTypeOK
    BY DEF Init, RunTypeOK, PC
  <1> QED
    BY <1>1, <1>6, <1>7 DEF TypeOK

(* The queue, the lease and every run keep their types whatever happens;   *)
(* a claim never counts a row's attempts past the limit.                   *)
THEOREM TypeCorrect == Spec => [](TypeOK /\ FreshPending)
  <1>1. Init => TypeOK /\ FreshPending
    BY TypeInit
  <1>2. TypeOK /\ FreshPending /\ [Next]_vars => TypeOK' /\ FreshPending'
    <2>1. TypeOK /\ FreshPending /\ Next => TypeOK' /\ FreshPending'
      BY StoreTypeStep, RunTypeStep DEF TypeOK
    <2>2. TypeOK /\ FreshPending /\ UNCHANGED vars => TypeOK' /\ FreshPending'
      BY DEF vars, store, progress, TypeOK, StoreTypeOK, RunTypeOK, FreshPending, Pending
    <2> QED
      BY <2>1, <2>2
  <1> QED
    BY <1>1, <1>2, PTL DEF Spec

-----------------------------------------------------------------------------
(* The inductive invariant.  A step of one run leaves the state of every    *)
(* other run alone, and while one run works every other run is quiet.      *)

RunSame(s) ==
  /\ pc'[s] = pc[s] /\ cmd'[s] = cmd[s] /\ view'[s] = view[s] /\ seen'[s] = seen[s]
  /\ todo'[s] = todo[s] /\ row'[s] = row[s] /\ batch'[s] = batch[s] /\ mode'[s] = mode[s]

RunAction(r) == Begin(r) \/ Project(r) \/ Settle(r) \/ Verify(r) \/ Finish(r)

LEMMA OthersSame ==
  ASSUME RunTypeOK, NEW r \in Runs, NEW s \in Runs, s # r, RunAction(r)
  PROVE  RunSame(s)
  <1> USE DEF progress, Goes, Cleared, RunTypeOK, RunSame
  <1>a. ASSUME RunEnds(r) PROVE RunSame(s)
    BY <1>a DEF RunEnds
  <1>1. CASE Begin(r)
    BY <1>1 DEF Begin, Reserve, ReserveRejected, NeverStarts, Denied, Start, StartUnanswered
  <1>2. CASE Project(r)
    <2>1. CASE Claim(r)
      BY <1>a, <2>1 DEF Claim
    <2>2. CASE Pick(r)
      BY <2>2 DEF Pick
    <2>3. CASE Land(r) \/ CommandFails(r) \/ LateLanding(r)
      BY <2>3 DEF Land, CommandFails, LateLanding
    <2>4. CASE Projected(r) \/ RowThrows(r) \/ Abort(r)
      BY <1>a, <2>4 DEF Projected, RowThrows, Abort
    <2>5. ASSUME NEW e \in Entities, LoadOne(r, e) \/ Issue(r, e) PROVE RunSame(s)
      BY <2>5 DEF LoadOne, Issue
    <2> QED
      BY <1>2, <2>1, <2>2, <2>3, <2>4, <2>5 DEF Project
  <1>3. CASE Settle(r)
    BY <1>3 DEF Settle, CompleteRow, CompletionAbandoned, PersistFailure, RowDone, RowFails, TryAgain
  <1>4. CASE Verify(r)
    BY <1>a, <1>4 DEF Verify, Check, Reread, Compared, Certify, TryAgain
  <1>5. CASE Finish(r)
    BY <1>5 DEF Finish, Release, Crash, Recycle
  <1> QED
    BY <1>1, <1>2, <1>3, <1>4, <1>5 DEF RunAction

(* Statuses never return to absent or pending, and a row keeps its key.     *)
RowsKept == \A i \in Rows : queue[i].status # "absent" =>
  /\ queue'[i].key = queue[i].key
  /\ queue[i].status # "pending" => queue'[i].status \notin {"absent", "pending"}

(* A quiet run stays sound when another run acts. *)
LEMMA QuietKept ==
  ASSUME NEW s \in Runs, RunSame(s), RowsKept, RunInv(s), Quiet(s)
  PROVE  RunInv(s)'
  <1>1. Quiet(s)' /\ LeaseHeld(s)'
    BY DEF Quiet, RunSame, LeaseHeld
  <1>2. Shape(s)'
    BY DEF RunInv, Shape, RunSame
  <1>3. RowsAtHand(s)'
    BY DEF RunInv, RowsAtHand, RunSame, RowsKept
  <1>4. seen'[s] = {} /\ row'[s] = NoRow /\ pc'[s] \notin Working
    BY <1>1, <1>2 DEF Shape, Quiet
  <1>5. ViewLag(s)'
    BY <1>1, <1>4, QueueAssumption DEF ViewLag, Quiet
  <1>6. Written(s)' /\ Checked(s)'
    BY <1>4 DEF Written, Checked, Working, PC
  <1> QED
    BY <1>1, <1>2, <1>3, <1>5, <1>6 DEF RunInv

(* Only one run is not quiet. *)
LEMMA OneBusy ==
  ASSUME NEW r \in Runs, NEW s \in Runs, s # r, RunInv(r), RunInv(s), ~Quiet(r)
  PROVE  Quiet(s) /\ HoldsLock(r)
  BY DEF RunInv, LeaseHeld, HoldsLock

-----------------------------------------------------------------------------
(* What each step does to the rows of the queue.                           *)

SameKeys   == \A i \in Rows : queue'[i].key = queue[i].key
SameStatus == \A i \in Rows : queue'[i].status = queue[i].status

(* A change adds a pending row of its key, or finds one there. *)
LEMMA ChangeRows ==
  ASSUME TypeOK, NEW k \in Keys, NEW a \in Actors, SourceChange(k, a)
  PROVE  /\ \A i \in Rows : \/ queue'[i] = queue[i]
                            \/ queue[i].status = "absent" /\ queue'[i] = NewRow(k, a)
         /\ \E i \in Rows : queue'[i].status = "pending" /\ queue'[i].key = k
  <1>1. queue \in [Rows -> Row]
    BY DEF TypeOK, StoreTypeOK
  <1>2. CASE queue' = queue /\ \E i \in Rows : Coalesces(i, k, a)
    BY <1>2 DEF Coalesces, Pending
  <1>3. ASSUME NEW i \in Rows, queue[i].status = "absent",
               queue' = [queue EXCEPT ![i] = NewRow(k, a)]
        PROVE  /\ \A j \in Rows : \/ queue'[j] = queue[j]
                                  \/ queue[j].status = "absent" /\ queue'[j] = NewRow(k, a)
               /\ queue'[i].status = "pending" /\ queue'[i].key = k
    BY <1>1, <1>3 DEF NewRow
  <1> QED
    BY <1>2, <1>3 DEF SourceChange

LEMMA ClaimRows ==
  ASSUME TypeOK, FreshPending, NEW r \in Runs, Claim(r)
  PROVE  /\ SameKeys
         /\ \A i \in Rows : \/ queue'[i].status = queue[i].status
                            \/ Unresolved(i) /\ queue'[i].status \in {"processing", "failed"}
  <1>1. queue \in [Rows -> Row] /\ queue' = ClaimedBy(Swept, r)
    BY DEF TypeOK, StoreTypeOK, Claim
  <1>2. ASSUME NEW i \in Rows PROVE queue'[i].key = Swept[i].key
    <2>1. Swept[i] \in Row
      BY <1>1, SweptType
    <2> QED
      BY <1>1, <2>1 DEF ClaimedBy, Row
  <1>3. SameKeys
    BY <1>1, <1>2, SweptType DEF SameKeys
  <1>4. ASSUME NEW i \in Rows
        PROVE  \/ queue'[i].status = queue[i].status
               \/ Unresolved(i) /\ queue'[i].status \in {"processing", "failed"}
    <2>1. Swept \in [Rows -> Row]
          /\ \A j \in Rows : Swept[j].status = "pending" => Swept[j].attempts = 0
      BY <1>1, SweptType, SweptStatus DEF FreshPending, Pending
    <2>2. CASE queue'[i] = Swept[i]
      BY <1>1, <2>2, SweptStatus DEF Unresolved, Processing
    <2>3. CASE i \in Taken(Swept) /\ queue'[i].status = "processing"
      <3>1. Swept[i].status \in {"pending", "failed"}
        BY <2>3, TakenType DEF Eligible
      <3> QED
        BY <1>1, <2>3, <3>1, SweptStatus DEF Unresolved, Processing
    <2> QED
      BY <1>1, <2>1, <2>2, <2>3, ClaimedType
  <1> QED
    BY <1>3, <1>4

LEMMA SettleRows ==
  ASSUME TypeOK, NEW r \in Runs, row[r] \in Rows, Settle(r)
  PROVE  /\ SameKeys
         /\ \A i \in Rows :
              \/ queue'[i].status = queue[i].status
              \/ i = row[r] /\ Processing(i) /\ queue'[i].status = "failed"
              \/ /\ pc[r] = "rpc" /\ ClaimedNow(r, row[r])
                 /\ EntityOfRow(i) = EntityOfRow(row[r])
                 /\ i = row[r] \/ Terminal(i)
                 /\ queue'[i].status \in {"completed", "skipped"}
  <1>1. queue \in [Rows -> Row]
    BY DEF TypeOK, StoreTypeOK
  <1>2. CASE ClaimedNow(r, row[r]) /\ queue' = CompletedIn(row[r]) /\ pc[r] = "rpc"
    <2>1. \A i \in Rows : queue'[i].key = queue[i].key
      BY <1>1, <1>2 DEF CompletedIn, Row
    <2>2. \A i \in Rows : \/ queue'[i].status = queue[i].status
                          \/ i = row[r] /\ queue'[i].status = "completed"
                          \/ /\ Terminal(i) /\ EntityOfRow(i) = EntityOfRow(row[r])
                             /\ queue'[i].status = "skipped"
      BY <1>1, <1>2 DEF CompletedIn, Row
    <2> QED
      BY <1>2, <2>1, <2>2 DEF SameKeys
  <1>3. CASE ClaimedNow(r, row[r]) /\ queue' = [queue EXCEPT ![row[r]] = Failure(row[r])]
    <2>1. Failure(row[r]).key = queue[row[r]].key /\ Failure(row[r]).status = "failed"
      BY <1>1 DEF Failure, Row
    <2>2. \A i \in Rows : queue'[i] = IF i = row[r] THEN Failure(row[r]) ELSE queue[i]
      BY <1>1, <1>3
    <2> QED
      BY <1>3, <2>1, <2>2 DEF SameKeys, ClaimedNow
  <1>4. CASE UNCHANGED queue
    BY <1>4 DEF SameKeys
  <1> QED
    BY <1>2, <1>3, <1>4
       DEF Settle, CompleteRow, CompleteInDatabase, CompletionAbandoned, PersistFailure, store

LEMMA VerifyRows ==
  ASSUME TypeOK, NEW r \in Runs, Verify(r)
  PROVE  /\ SameKeys
         /\ \/ SameStatus
            \/ /\ pc[r] = "certify" /\ MayCertify(r)
               /\ \A i \in Rows : \/ queue'[i].status = queue[i].status
                                  \/ Terminal(i) /\ queue'[i].status = "skipped"
  <1>1. queue \in [Rows -> Row]
    BY DEF TypeOK, StoreTypeOK
  <1>2. CASE UNCHANGED queue
    BY <1>2 DEF SameKeys, SameStatus
  <1>3. CASE queue' = SkippedTerminal /\ MayCertify(r) /\ pc[r] = "certify"
    <2>1. \A i \in Rows : /\ queue'[i].key = queue[i].key
                          /\ \/ queue'[i].status = queue[i].status
                             \/ Terminal(i) /\ queue'[i].status = "skipped"
      BY <1>1, <1>3 DEF SkippedTerminal, Row
    <2> QED
      BY <1>3, <2>1 DEF SameKeys
  <1> QED
    BY <1>2, <1>3 DEF Verify, Check, Reread, Certify, CertifyInDatabase, store

LEMMA FinishRows == ASSUME TypeOK, NEW r \in Runs, Finish(r) PROVE SameKeys /\ SameStatus
  <1>1. CASE UNCHANGED queue
    BY <1>1 DEF SameKeys, SameStatus
  <1>2. CASE Recycle(r)
    BY <1>2 DEF Recycle, SameKeys, SameStatus, TypeOK, StoreTypeOK, Row
  <1> QED
    BY <1>1, <1>2 DEF Finish, Release, Crash

LEMMA OtherRows ==
  ASSUME NEW r \in Runs, Begin(r) \/ (Project(r) /\ ~Claim(r))
  PROVE  UNCHANGED queue
  BY DEF Begin, Reserve, ReserveRejected, NeverStarts, Denied, Start, StartUnanswered,
         Project, Pick, Land, CommandFails, LateLanding, Projected, RowThrows, Abort,
         LoadOne, Issue, store

(* Owed entities stay owed while unresolved rows keep status and key or     *)
(* stay unresolved.                                                        *)
LEMMA StillOwed ==
  ASSUME NEW e \in Owed,
         \A i \in Rows : Unresolved(i) /\ EntityOfRow(i) = e
                           => Unresolved(i)' /\ queue'[i].key = queue[i].key
  PROVE  e \in Owed'
  BY DEF Owed, EntityOfRow

LEMMA StillPending ==
  ASSUME NEW e, PendingFor(e),
         \A i \in Rows : Pending(i) => Pending(i)' /\ queue'[i].key = queue[i].key
  PROVE  PendingFor(e)'
  BY DEF PendingFor, EntityOfRow, Pending

LEMMA PendingOwed == ASSUME NEW e \in Entities, PendingFor(e) PROVE e \in Owed
  BY DEF PendingFor, Owed, Pending, Unresolved

-----------------------------------------------------------------------------
(* A change of the address book. *)

LEMMA EditInv == ASSUME IInv, NEW k \in Keys, NEW a \in Actors, SourceChange(k, a)
                 PROVE  Promise' /\ \A r \in Runs : RunInv(r)'
  <1>a. TypeOK /\ Promise /\ queue \in [Rows -> Row] /\ src \in [Entities -> Versions]
    BY DEF IInv, TypeOK, StoreTypeOK
  <1>b. UNCHANGED <<exch, lock, pc, batch, row, view, seen, todo, cmd>>
    BY DEF SourceChange, progress
  <1>1. /\ \A i \in Rows : \/ queue'[i] = queue[i]
                           \/ queue[i].status = "absent" /\ queue'[i] = NewRow(k, a)
        /\ \E i \in Rows : queue'[i].status = "pending" /\ queue'[i].key = k
    BY <1>a, ChangeRows
  <1>2. /\ EntityOf[k] \in Entities
        /\ \A e \in Entities : e # EntityOf[k] => src'[e] = src[e]
    BY <1>a, QueueAssumption DEF SourceChange
  <1>3. PendingFor(EntityOf[k])' /\ EntityOf[k] \in Owed'
    BY <1>1, <1>2 DEF PendingFor, Pending, EntityOfRow, Owed, Unresolved
  <1>4. ASSUME NEW e \in Owed PROVE e \in Owed'
    BY <1>1, StillOwed DEF Unresolved
  <1>5. ASSUME NEW e \in Entities, PendingFor(e) PROVE PendingFor(e)'
    BY <1>1, <1>5, StillPending DEF Pending
  <1>6. Promise'
    BY <1>a, <1>b, <1>2, <1>3, <1>4 DEF Promise
  <1>7. ASSUME NEW r \in Runs PROVE RunInv(r)'
    <2>1. RunInv(r)
      BY DEF IInv
    <2>2. LeaseHeld(r)' /\ Shape(r)'
      BY <1>b, <2>1 DEF RunInv, LeaseHeld, Shape, Quiet, HoldsLock
    <2>3. RowsAtHand(r)'
      BY <1>b, <1>1, <2>1 DEF RunInv, RowsAtHand
    <2>4. ViewLag(r)'
      BY <1>b, <1>2, <1>3, <1>5, <2>1 DEF RunInv, ViewLag
    <2>5. Checked(r)'
      BY <1>b, <2>1 DEF RunInv, Checked
    <2>6. Written(r)'
      <3>1. CASE row[r] = NoRow
        BY <1>b, <3>1 DEF Written
      <3>2. CASE row[r] # NoRow
        <4>1. row[r] \in Rows /\ queue[row[r]].status # "absent"
          BY <1>a, <2>1, <3>2 DEF TypeOK, RunTypeOK, RunInv, RowsAtHand
        <4>2. EntityOfRow(row[r])' = EntityOfRow(row[r])
          BY <1>b, <1>1, <4>1 DEF EntityOfRow
        <4> QED
          BY <1>b, <2>1, <3>2, <4>2 DEF RunInv, Written
      <3> QED
        BY <3>1, <3>2
    <2> QED
      BY <2>2, <2>3, <2>4, <2>5, <2>6 DEF RunInv
  <1> QED
    BY <1>6, <1>7

-----------------------------------------------------------------------------
(* Deadlines touch neither Exchange nor the runs. *)

LEMMA DeadlineInv == ASSUME IInv, LeaseOutlivesStalls, Deadline
                     PROVE  Promise' /\ \A r \in Runs : RunInv(r)'
  <1>a. TypeOK /\ Promise /\ queue \in [Rows -> Row]
    BY DEF IInv, TypeOK, StoreTypeOK
  <1>b. UNCHANGED <<src, exch, pc, batch, row, view, seen, todo, cmd>>
    BY DEF Deadline, LeaseRunsOut, GoesStale, RetryFallsDue, progress
  <1>1. SameKeys /\ SameStatus
    <2>1. CASE LeaseRunsOut
      BY <2>1 DEF LeaseRunsOut, SameKeys, SameStatus
    <2>2. ASSUME NEW i \in Rows, GoesStale(i) \/ RetryFallsDue(i) PROVE SameKeys /\ SameStatus
      <3>1. /\ [queue[i] EXCEPT !.stale = TRUE].key = queue[i].key
            /\ [queue[i] EXCEPT !.stale = TRUE].status = queue[i].status
            /\ [queue[i] EXCEPT !.next = "due"].key = queue[i].key
            /\ [queue[i] EXCEPT !.next = "due"].status = queue[i].status
        BY <1>a DEF Row
      <3> QED
        BY <1>a, <2>2, <3>1 DEF GoesStale, RetryFallsDue, SameKeys, SameStatus
    <2> QED
      BY <2>1, <2>2 DEF Deadline
  <1>2. ASSUME NEW e \in Owed PROVE e \in Owed'
    BY <1>1, StillOwed DEF SameKeys, SameStatus, Unresolved
  <1>3. ASSUME NEW e \in Entities, PendingFor(e) PROVE PendingFor(e)'
    BY <1>1, <1>3, StillPending DEF SameKeys, SameStatus, Pending
  <1>4. Promise'
    BY <1>a, <1>b, <1>2 DEF Promise
  <1>5. ASSUME NEW r \in Runs PROVE RunInv(r)'
    <2>1. RunInv(r)
      BY DEF IInv
    <2>2. LeaseHeld(r)'
      <3>1. CASE LeaseRunsOut
        BY <1>b, <2>1, <3>1 DEF LeaseRunsOut, RunInv, LeaseHeld, Quiet
      <3>2. CASE UNCHANGED lock
        BY <1>b, <2>1, <3>2 DEF RunInv, LeaseHeld, Quiet, HoldsLock
      <3> QED
        BY <3>1, <3>2 DEF Deadline, GoesStale, RetryFallsDue
    <2>3. Shape(r)'
      BY <1>b, <2>1 DEF RunInv, Shape
    <2>4. RowsAtHand(r)'
      BY <1>b, <1>1, <2>1 DEF RunInv, RowsAtHand, SameStatus
    <2>5. ViewLag(r)' /\ Checked(r)'
      BY <1>b, <1>3, <2>1 DEF RunInv, ViewLag, Checked
    <2>6. Written(r)'
      <3>1. row[r] \in Rows => EntityOfRow(row[r])' = EntityOfRow(row[r])
        BY <1>b, <1>1 DEF EntityOfRow, SameKeys
      <3> QED
        BY <1>a, <1>b, <2>1, <3>1 DEF TypeOK, RunTypeOK, RunInv, Written
    <2> QED
      BY <2>2, <2>3, <2>4, <2>5, <2>6 DEF RunInv
  <1> QED
    BY <1>4, <1>5

-----------------------------------------------------------------------------
(* Steps of a run. *)

LEMMA PromiseKept == ASSUME Promise, UNCHANGED <<src, exch>>, \A e \in Owed : e \in Owed'
                     PROVE  Promise'
  BY DEF Promise

(* A run whose surroundings and state stay as they are stays sound. *)
LEMMA Frame ==
  ASSUME TypeOK, NEW s \in Runs, RunInv(s), RunSame(s), SameKeys, SameStatus,
         UNCHANGED <<src, exch, lock>>
  PROVE  RunInv(s)'
  <1>1. LeaseHeld(s)' /\ Shape(s)' /\ RowsAtHand(s)'
    BY DEF RunInv, RunSame, LeaseHeld, Quiet, HoldsLock, Shape, RowsAtHand, SameStatus
  <1>2. ASSUME NEW e \in Entities, PendingFor(e) PROVE PendingFor(e)'
    BY <1>2, StillPending DEF SameKeys, SameStatus, Pending
  <1>3. ViewLag(s)' /\ Checked(s)'
    BY <1>2 DEF RunInv, RunSame, ViewLag, Checked
  <1>4. row[s] \in Rows => EntityOfRow(row[s])' = EntityOfRow(row[s])
    BY DEF EntityOfRow, RunSame, SameKeys
  <1>5. Written(s)'
    BY <1>4 DEF TypeOK, RunTypeOK, RunInv, RunSame, Written
  <1> QED
    BY <1>1, <1>3, <1>5 DEF RunInv

(* A run that ends forgets everything it would have to account for. *)
LEMMA EndInv ==
  ASSUME TypeOK, NEW r \in Runs, RunInv(r), pc[r] \in Working, cmd[r] = NoEntity,
         RunEnds(r), UNCHANGED lock
  PROVE  RunInv(r)'
  <1>1. /\ pc'[r] = "exit" /\ cmd'[r] = NoEntity /\ seen'[r] = {} /\ row'[r] = NoRow
        /\ batch'[r] = {}
    BY DEF RunEnds, Goes, Cleared, TypeOK, RunTypeOK
  <1>2. LeaseHeld(r)'
    BY DEF RunInv, LeaseHeld, Quiet, HoldsLock
  <1>3. Shape(r)' /\ RowsAtHand(r)'
    BY <1>1, ConstantFacts DEF Shape, RowsAtHand, Working
  <1>4. ViewLag(r)' /\ Written(r)' /\ Checked(r)'
    BY <1>1, QueueAssumption DEF ViewLag, Written, Checked
  <1> QED
    BY <1>2, <1>3, <1>4 DEF RunInv

LEMMA BeginInv == ASSUME IInv, NEW r \in Runs, Begin(r) PROVE Promise' /\ RunInv(r)'
  <1>a. TypeOK /\ RunInv(r)
    BY DEF IInv
  <1>1. pc[r] \in {"idle", "reserved"} /\ UNCHANGED <<src, exch, queue>>
    BY DEF Begin, Reserve, ReserveRejected, NeverStarts, Denied, Start, StartUnanswered,
           MayStart, store
  <1>2. seen[r] = {} /\ row[r] = NoRow /\ cmd[r] = NoEntity
    BY <1>a, <1>1 DEF RunInv, Shape, Working
  <1>3. UNCHANGED <<batch, row, view, seen, todo, cmd>>
    BY DEF Begin, Reserve, ReserveRejected, NeverStarts, Denied, Start, StartUnanswered, progress
  <1>4. \/ pc'[r] \in {"reserved", "over"}
        \/ pc'[r] \in {"claim", "load"} /\ lock'.run = r /\ lock'.live
    BY <1>a DEF Begin, Reserve, ReserveRejected, NeverStarts, Denied, Start, StartUnanswered,
                Goes, Acquired, TypeOK, RunTypeOK
  <1>5. LeaseHeld(r)'
    BY <1>2, <1>3, <1>4 DEF LeaseHeld, Quiet, HoldsLock, Working
  <1>6. Shape(r)' /\ RowsAtHand(r)'
    BY <1>a, <1>1, <1>2, <1>3, <1>4 DEF RunInv, Shape, RowsAtHand
  <1>7. ViewLag(r)' /\ Written(r)' /\ Checked(r)'
    BY <1>2, <1>3, <1>4, QueueAssumption DEF ViewLag, Written, Checked
  <1>8. Promise'
    BY <1>1, PromiseKept DEF IInv, Owed, Unresolved, EntityOfRow
  <1> QED
    BY <1>5, <1>6, <1>7, <1>8 DEF RunInv

LEMMA ClaimInv == ASSUME IInv, NEW r \in Runs, Claim(r) PROVE Promise' /\ RunInv(r)'
  <1>a. TypeOK /\ FreshPending /\ RunInv(r) /\ RunTypeOK
    BY DEF IInv, TypeOK
  <1>1. /\ pc[r] = "claim" /\ UNCHANGED <<src, exch, lock>>
        /\ cmd[r] = NoEntity /\ row[r] = NoRow /\ pc[r] \in Working
    BY <1>a DEF Claim, RunInv, Shape, Working, PC
  <1>2. Promise'
    BY <1>a, <1>1, ClaimRows, StillOwed, PromiseKept DEF IInv, Unresolved, SameKeys
  <1>3. CASE RunEnds(r)
    BY <1>a, <1>1, <1>2, <1>3, EndInv
  <1>4. ASSUME NEW place \in {"pick", "load"}, Goes(r, place), seen' = [seen EXCEPT ![r] = {}],
               UNCHANGED <<row, cmd>>,
               \A i \in batch'[r] : queue'[i].status \notin {"absent", "pending"}
        PROVE  RunInv(r)'
    <2>1. pc'[r] = place /\ seen'[r] = {} /\ row'[r] = NoRow /\ cmd'[r] = NoEntity
      BY <1>a, <1>1, <1>4 DEF Goes, RunTypeOK
    <2>2. LeaseHeld(r)'
      BY <1>a, <1>1 DEF RunInv, LeaseHeld, Quiet, HoldsLock
    <2>3. Shape(r)' /\ RowsAtHand(r)'
      BY <1>4, <2>1, ConstantFacts DEF Shape, RowsAtHand, Working, PC
    <2>4. ViewLag(r)' /\ Written(r)' /\ Checked(r)'
      BY <2>1, QueueAssumption DEF ViewLag, Written, Checked
    <2> QED
      BY <2>2, <2>3, <2>4 DEF RunInv
  <1>5. CASE /\ Goes(r, "pick") /\ batch' = [batch EXCEPT ![r] = Taken(Swept)]
             /\ seen' = [seen EXCEPT ![r] = {}] /\ UNCHANGED <<row, cmd>>
    <2>1. batch'[r] = Taken(Swept) /\ queue' = ClaimedBy(Swept, r)
      BY <1>a, <1>5 DEF RunTypeOK, Claim
    <2>2. Swept \in [Rows -> Row]
      BY <1>a, SweptType DEF TypeOK, StoreTypeOK
    <2>3. \A i \in batch'[r] : queue'[i].status = "processing"
      BY <2>1, <2>2, TakenType DEF ClaimedBy, Row
    <2> QED
      BY <1>2, <1>4, <1>5, <2>3
  <1>6. CASE /\ Goes(r, "load") /\ UNCHANGED <<queue, batch, row, cmd>>
             /\ seen' = [seen EXCEPT ![r] = {}]
    <2>1. \A i \in batch'[r] : queue'[i].status \notin {"absent", "pending"}
      BY <1>a, <1>6 DEF RunInv, RowsAtHand, RunTypeOK
    <2> QED
      BY <1>2, <1>4, <1>6, <2>1
  <1> QED
    BY <1>3, <1>5, <1>6 DEF Claim

(* Steps that leave the queue and the lease alone: what the run owes its    *)
(* invariant is then about its own state and Exchange.                     *)
LEMMA LocalInv ==
  ASSUME TypeOK, NEW r \in Runs, RunInv(r), ~Quiet(r), UNCHANGED <<src, queue, lock>>,
         Shape(r)',
         \A i \in Rows : i \in batch'[r] \/ i = row'[r] => i \in batch[r] \/ i = row[r],
         \A e \in Entities : e \in seen'[r] \/ e = cmd'[r] =>
            \/ view'[r][e] = src[e]
            \/ (e \in seen[r] \/ e = cmd[r]) /\ view'[r][e] = view[r][e],
         Written(r)', Checked(r)'
  PROVE  RunInv(r)'
  <1>1. LeaseHeld(r)' /\ RowsAtHand(r)'
    BY DEF RunInv, LeaseHeld, Quiet, HoldsLock, RowsAtHand
  <1>2. \A e \in Entities : PendingFor(e)' <=> PendingFor(e)
    BY DEF PendingFor, Pending, EntityOfRow
  <1>3. ViewLag(r)'
    BY <1>2 DEF RunInv, ViewLag
  <1> QED
    BY <1>1, <1>3 DEF RunInv

LEMMA PickInv == ASSUME IInv, NEW r \in Runs, Pick(r) PROVE Promise' /\ RunInv(r)'
  <1>a. TypeOK /\ RunTypeOK /\ RunInv(r)
    BY DEF IInv, TypeOK
  <1>1. /\ pc[r] = "pick" /\ UNCHANGED <<src, exch, queue, lock, cmd>>
        /\ cmd[r] = NoEntity /\ row[r] = NoRow /\ ~Quiet(r)
    BY <1>a DEF Pick, store, RunInv, Shape, Working, PC, Quiet
  <1>2. Promise'
    BY <1>1, PromiseKept DEF IInv, Owed, Unresolved, EntityOfRow
  <1>3. CASE /\ Goes(r, "claim") /\ seen' = [seen EXCEPT ![r] = {}] /\ UNCHANGED <<batch, row>>
    <2>1. pc'[r] = "claim" /\ seen'[r] = {} /\ row'[r] = NoRow /\ cmd'[r] = NoEntity
      BY <1>a, <1>1, <1>3 DEF Goes, RunTypeOK
    <2>2. Shape(r)' /\ Written(r)' /\ Checked(r)'
      BY <2>1 DEF Shape, Working, PC, Written, Checked
    <2> QED
      BY <1>a, <1>1, <1>2, <1>3, <2>1, <2>2, LocalInv, QueueAssumption
  <1>4. ASSUME NEW i \in batch[r], Goes(r, IF seen[r] = Entities THEN "write" ELSE "load"),
               batch' = [batch EXCEPT ![r] = @ \ {i}], row' = [row EXCEPT ![r] = i],
               todo' = [todo EXCEPT ![r] = Scope(i)], UNCHANGED <<view, seen>>
        PROVE  RunInv(r)'
    <2>1. /\ i \in Rows /\ row'[r] = i /\ batch'[r] \subseteq batch[r] /\ todo'[r] = Scope(i)
          /\ cmd'[r] = NoEntity
          /\ \/ seen'[r] = Entities /\ pc'[r] = "write"
             \/ pc'[r] = "load"
      BY <1>a, <1>1, <1>4 DEF Goes, RunTypeOK
    <2>2. Shape(r)'
      BY <2>1, ConstantFacts DEF Shape, Working, PC
    <2>3. EntityOfRow(row[r])' \in todo'[r]
      BY <1>1, <2>1 DEF Scope, EntityOfRow
    <2>4. Written(r)' /\ Checked(r)'
      BY <2>1, <2>3 DEF Written, Checked
    <2>5. \A j \in Rows : j \in batch'[r] \/ j = row'[r] => j \in batch[r] \/ j = row[r]
      BY <1>4, <2>1
    <2>6. \A e \in Entities : e \in seen'[r] \/ e = cmd'[r] =>
            (e \in seen[r] \/ e = cmd[r]) /\ view'[r][e] = view[r][e]
      BY <1>1, <1>4
    <2> QED
      BY <1>a, <1>1, <2>2, <2>4, <2>5, <2>6, LocalInv
  <1> QED
    BY <1>2, <1>3, <1>4 DEF Pick

LEMMA LoadInv == ASSUME IInv, NEW r \in Runs, NEW x \in Entities, LoadOne(r, x)
                 PROVE  Promise' /\ RunInv(r)'
  <1>a. TypeOK /\ RunTypeOK /\ RunInv(r)
    BY DEF IInv, TypeOK
  <1>1. /\ pc[r] = "load" /\ UNCHANGED <<src, exch, queue, lock, cmd, batch, row>>
        /\ cmd[r] = NoEntity /\ ~Quiet(r)
    BY <1>a DEF LoadOne, store, RunInv, Shape, Working, PC, Quiet
  <1>2. Promise'
    BY <1>1, PromiseKept DEF IInv, Owed, Unresolved, EntityOfRow
  <1>3. /\ seen'[r] = seen[r] \cup {x}
        /\ view'[r] = [view[r] EXCEPT ![x] = src[x]]
        /\ row[r] = NoRow => todo'[r] = Entities
        /\ row[r] # NoRow => todo'[r] = todo[r]
    BY <1>a DEF LoadOne, RunTypeOK
  <1>4. \/ pc'[r] = "load"
        \/ seen'[r] = Entities /\ pc'[r] = "write"
        \/ seen'[r] = Entities /\ pc'[r] = "check" /\ row[r] = NoRow
    BY <1>a DEF LoadOne, Goes, RunTypeOK
  <1>5. Shape(r)'
    BY <1>1, <1>4 DEF Shape, Working, PC
  <1>6. Written(r)'
    <2>1. row[r] # NoRow => EntityOfRow(row[r])' \in todo'[r]
      BY <1>a, <1>1, <1>3 DEF RunInv, Written, EntityOfRow
    <2> QED
      BY <1>1, <1>4, <2>1 DEF Written
  <1>7. Checked(r)'
    BY <1>3, <1>4 DEF Checked
  <1>8. \A e \in Entities : e \in seen'[r] \/ e = cmd'[r] =>
          \/ view'[r][e] = src[e]
          \/ (e \in seen[r] \/ e = cmd[r]) /\ view'[r][e] = view[r][e]
    <2>1. view[r] \in [Entities -> Versions]
      BY <1>a DEF RunTypeOK
    <2> QED
      BY <1>1, <1>3, <2>1
  <1> QED
    BY <1>a, <1>1, <1>2, <1>5, <1>6, <1>7, <1>8, LocalInv

LEMMA IssueInv == ASSUME IInv, NEW r \in Runs, NEW x \in Entities, Issue(r, x)
                  PROVE  Promise' /\ RunInv(r)'
  <1>a. TypeOK /\ RunTypeOK /\ RunInv(r)
    BY DEF IInv, TypeOK
  <1>1. /\ pc[r] = "write" /\ UNCHANGED <<src, exch, queue, lock, batch, row, view, seen, todo>>
        /\ x \in todo[r] /\ ~Quiet(r) /\ seen[r] = Entities
    BY <1>a DEF Issue, store, RunInv, Shape, Working, PC, Quiet
  <1>2. Promise'
    BY <1>1, PromiseKept DEF IInv, Owed, Unresolved, EntityOfRow
  <1>3. pc'[r] = "inflight" /\ cmd'[r] = x
    BY <1>a DEF Issue, Goes, RunTypeOK
  <1>4. Shape(r)' /\ Checked(r)'
    BY <1>1, <1>3 DEF Shape, Working, PC, Checked
  <1>5. Written(r)'
    BY <1>a, <1>1, <1>3 DEF RunInv, Written, EntityOfRow
  <1> QED
    BY <1>a, <1>1, <1>2, <1>3, <1>4, <1>5, LocalInv

(* What a command writes is what the address book holds, or a newer version *)
(* is pending.                                                             *)
LEMMA EffectPromise ==
  ASSUME TypeOK, Promise, NEW r \in Runs, RunInv(r), cmd[r] # NoEntity,
         TakesEffect(r) \/ exch' = exch, UNCHANGED <<src, queue>>
  PROVE  Promise'
  <1>a. cmd[r] \in Entities /\ exch \in [Entities -> Versions]
    BY DEF TypeOK, StoreTypeOK, RunTypeOK
  <1>1. view[r][cmd[r]] = src[cmd[r]] \/ cmd[r] \in Owed
    BY <1>a, PendingOwed DEF RunInv, ViewLag
  <1>2. \A e \in Entities :
          exch'[e] = exch[e] \/ (e = cmd[r] /\ exch'[e] = view[r][cmd[r]])
    BY <1>a DEF TakesEffect
  <1>3. Owed' = Owed
    BY DEF Owed, Unresolved, EntityOfRow
  <1> QED
    BY <1>1, <1>2, <1>3 DEF Promise

LEMMA LandInv == ASSUME IInv, NEW r \in Runs, Land(r) PROVE Promise' /\ RunInv(r)'
  <1>a. TypeOK /\ RunTypeOK /\ RunInv(r) /\ exch \in [Entities -> Versions]
    BY DEF IInv, TypeOK, StoreTypeOK
  <1>1. /\ pc[r] = "inflight" /\ UNCHANGED <<src, queue, lock, batch, row, view, seen>>
        /\ cmd[r] \in todo[r] /\ ~Quiet(r) /\ seen[r] = Entities
    BY <1>a DEF Land, RunInv, Shape, Working, PC, Quiet
  <1>2. cmd[r] \in Entities /\ cmd[r] # NoEntity
    BY <1>a, <1>1, QueueAssumption DEF RunTypeOK
  <1>3. Promise'
    BY <1>a, <1>1, <1>2, EffectPromise DEF IInv, Land
  <1>4. /\ pc'[r] = "write" /\ cmd'[r] = NoEntity /\ todo'[r] = todo[r] \ {cmd[r]}
        /\ exch' = [exch EXCEPT ![cmd[r]] = view[r][cmd[r]]]
    BY <1>a DEF Land, Goes, TakesEffect, RunTypeOK
  <1>5. Shape(r)' /\ Checked(r)'
    BY <1>1, <1>4 DEF Shape, Working, PC, Checked
  <1>6. Written(r)'
    <2>1. CASE row[r] # NoRow
      <3>1. EntityOfRow(row[r])' = EntityOfRow(row[r]) /\ EntityOfRow(row[r]) \in Entities
        BY <1>a, <1>1, <2>1, EntityType DEF EntityOfRow, TypeOK, StoreTypeOK, RunTypeOK
      <3>2. \/ EntityOfRow(row[r]) \in todo[r]
            \/ exch[EntityOfRow(row[r])] = view[r][EntityOfRow(row[r])]
        BY <1>a, <1>1, <2>1 DEF RunInv, Written
      <3>3. \/ EntityOfRow(row[r]) \in todo'[r]
            \/ exch'[EntityOfRow(row[r])] = view[r][EntityOfRow(row[r])]
        BY <1>a, <1>2, <1>4, <3>1, <3>2
      <3> QED
        BY <1>1, <1>4, <3>1, <3>3 DEF Written
    <2> QED
      BY <1>1, <2>1 DEF Written
  <1> QED
    BY <1>a, <1>1, <1>3, <1>4, <1>5, <1>6, LocalInv, QueueAssumption

LEMMA CommandFailsInv == ASSUME IInv, NEW r \in Runs, CommandFails(r)
                         PROVE  Promise' /\ RunInv(r)'
  <1>a. TypeOK /\ RunTypeOK /\ RunInv(r)
    BY DEF IInv, TypeOK
  <1>1. /\ pc[r] = "inflight" /\ UNCHANGED <<src, queue, lock, batch, row, view, seen>>
        /\ cmd[r] \in todo[r] /\ ~Quiet(r) /\ seen[r] = Entities
    BY <1>a DEF CommandFails, RunInv, Shape, Working, PC, Quiet
  <1>2. cmd[r] \in Entities /\ cmd[r] # NoEntity
    BY <1>a, <1>1, QueueAssumption DEF RunTypeOK
  <1>3. Promise'
    BY <1>a, <1>1, <1>2, EffectPromise DEF IInv, CommandFails
  <1>4. /\ cmd'[r] = NoEntity
        /\ \/ row[r] = NoRow /\ pc'[r] = "write"
           \/ row[r] # NoRow /\ pc'[r] = "failed"
    BY <1>a DEF CommandFails, Goes, RunTypeOK
  <1>5. Shape(r)' /\ Checked(r)' /\ Written(r)'
    BY <1>1, <1>4 DEF Shape, Working, PC, Checked, Written
  <1> QED
    BY <1>a, <1>1, <1>3, <1>4, <1>5, LocalInv, QueueAssumption

LEMMA LateLandingInv == ASSUME IInv, NEW r \in Runs, LateLanding(r)
                        PROVE  Promise' /\ RunInv(r)'
  <1>a. TypeOK /\ RunTypeOK /\ RunInv(r)
    BY DEF IInv, TypeOK
  <1>1. /\ pc[r] = "dead" /\ UNCHANGED <<src, queue, lock, pc, batch, row, seen>>
        /\ cmd[r] # NoEntity /\ ~Quiet(r) /\ seen[r] = {} /\ row[r] = NoRow
    BY <1>a DEF LateLanding, RunInv, Shape, Working, PC, Quiet
  <1>2. Promise'
    BY <1>a, <1>1, EffectPromise DEF IInv, LateLanding
  <1>3. cmd'[r] = NoEntity
    BY <1>a DEF LateLanding, RunTypeOK
  <1>4. Shape(r)' /\ Checked(r)' /\ Written(r)'
    BY <1>1, <1>3 DEF Shape, Working, PC, Checked, Written
  <1> QED
    BY <1>a, <1>1, <1>2, <1>3, <1>4, LocalInv, QueueAssumption

LEMMA ProjectedInv == ASSUME IInv, NEW r \in Runs, Projected(r) PROVE Promise' /\ RunInv(r)'
  <1>a. TypeOK /\ RunTypeOK /\ RunInv(r)
    BY DEF IInv, TypeOK
  <1>1. /\ pc[r] = "write" /\ UNCHANGED <<src, exch, queue, lock, batch, row, view, seen, cmd>>
        /\ cmd[r] = NoEntity /\ ~Quiet(r) /\ seen[r] = Entities /\ todo[r] = {}
    BY <1>a DEF Projected, store, RunInv, Shape, Working, PC, Quiet
  <1>2. Promise'
    BY <1>1, PromiseKept DEF IInv, Owed, Unresolved, EntityOfRow
  <1>3. \/ row[r] # NoRow /\ pc'[r] = "rpc"
        \/ row[r] = NoRow /\ pc'[r] = "check" /\ todo'[r] = Entities
    BY <1>a DEF Projected, Goes, RunTypeOK
  <1>4. Shape(r)' /\ Checked(r)'
    BY <1>1, <1>3 DEF Shape, Working, PC, Checked
  <1>5. Written(r)'
    BY <1>a, <1>1, <1>3 DEF RunInv, Written, EntityOfRow
  <1> QED
    BY <1>a, <1>1, <1>2, <1>4, <1>5, LocalInv

LEMMA RowThrowsInv == ASSUME IInv, NEW r \in Runs, RowThrows(r) PROVE Promise' /\ RunInv(r)'
  <1>a. TypeOK /\ RunTypeOK /\ RunInv(r)
    BY DEF IInv, TypeOK
  <1>1. /\ pc[r] \in {"load", "write"} /\ row[r] # NoRow
        /\ UNCHANGED <<src, exch, queue, lock, batch, row, cmd>>
        /\ cmd[r] = NoEntity /\ ~Quiet(r)
    BY <1>a DEF RowThrows, store, RunInv, Shape, Working, PC, Quiet
  <1>2. Promise'
    BY <1>1, PromiseKept DEF IInv, Owed, Unresolved, EntityOfRow
  <1>3. pc'[r] = "failed" /\ (seen'[r] = {} \/ (seen'[r] = seen[r] /\ view'[r] = view[r]))
    BY <1>a DEF RowThrows, Goes, RunTypeOK
  <1>4. Shape(r)' /\ Checked(r)' /\ Written(r)'
    BY <1>1, <1>3 DEF Shape, Working, PC, Checked, Written
  <1> QED
    BY <1>a, <1>1, <1>2, <1>3, <1>4, LocalInv, QueueAssumption

LEMMA AbortInv == ASSUME IInv, NEW r \in Runs, Abort(r) PROVE Promise' /\ RunInv(r)'
  <1>a. TypeOK /\ RunInv(r)
    BY DEF IInv
  <1>1. /\ pc[r] \in Working /\ cmd[r] = NoEntity /\ RunEnds(r)
        /\ UNCHANGED <<src, exch, queue, lock>>
    BY <1>a DEF Abort, store, RunInv, Shape, Working, PC
  <1> QED
    BY <1>a, <1>1, EndInv, PromiseKept DEF IInv, Owed, Unresolved, EntityOfRow

(* Settling: a completed row's entity is exact in Exchange unless a newer   *)
(* pending row speaks for it, and that row stays pending.                  *)
LEMMA SettleInv == ASSUME IInv, NEW r \in Runs, Settle(r) PROVE Promise' /\ RunInv(r)'
  <1>a. TypeOK /\ RunTypeOK /\ RunInv(r) /\ Promise
    BY DEF IInv, TypeOK
  <1>1. /\ pc[r] \in {"rpc", "failed"} /\ ~Quiet(r) /\ row[r] # NoRow /\ row[r] \in Rows
        /\ UNCHANGED <<src, exch, lock, batch, view, seen, todo, cmd>>
        /\ cmd[r] = NoEntity
    BY <1>a DEF Settle, CompleteRow, CompletionAbandoned, PersistFailure, store,
                RunInv, Shape, Working, PC, Quiet, RunTypeOK
  <1>2. /\ SameKeys
        /\ \A i \in Rows :
             \/ queue'[i].status = queue[i].status
             \/ i = row[r] /\ Processing(i) /\ queue'[i].status = "failed"
             \/ /\ pc[r] = "rpc" /\ ClaimedNow(r, row[r])
                /\ EntityOfRow(i) = EntityOfRow(row[r])
                /\ i = row[r] \/ Terminal(i)
                /\ queue'[i].status \in {"completed", "skipped"}
    BY <1>a, <1>1, SettleRows
  <1>3. ASSUME NEW i \in Rows, Pending(i) PROVE Pending(i)' /\ queue'[i].key = queue[i].key
    BY <1>2, <1>3 DEF SameKeys, Pending, Processing, Terminal, ClaimedNow
  <1>4. ASSUME NEW e \in Entities, PendingFor(e) PROVE PendingFor(e)'
    BY <1>3, <1>4, StillPending
  <1>5. ASSUME NEW e \in Entities, PendingFor(e)' PROVE e \in Owed'
    BY <1>5 DEF PendingFor, Owed, Pending, Unresolved
  <1>6. ASSUME NEW e \in Owed, exch[e] # src[e] PROVE e \in Owed'
    <2>1. CASE e = EntityOfRow(row[r]) /\ pc[r] = "rpc"
      <3>1. exch[e] = view[r][e] /\ seen[r] = Entities /\ e \in Entities
        BY <1>a, <1>1, <2>1 DEF RunInv, Written, Shape, Owed
      <3>2. PendingFor(e)
        BY <1>a, <1>6, <3>1 DEF RunInv, ViewLag
      <3> QED
        BY <1>4, <1>5, <3>1, <3>2
    <2>2. CASE e # EntityOfRow(row[r]) \/ pc[r] # "rpc"
      BY <1>2, <2>2, StillOwed DEF SameKeys, Unresolved, Processing
    <2> QED
      BY <2>1, <2>2
  <1>7. Promise'
    BY <1>a, <1>1, <1>6 DEF Promise
  <1>8. LeaseHeld(r)'
    BY <1>a, <1>1 DEF RunInv, LeaseHeld, Quiet, HoldsLock
  <1>9. \/ pc'[r] = "pick" /\ row'[r] = NoRow
        \/ pc'[r] = "failed" /\ row'[r] = row[r]
        \/ pc'[r] = pc[r] /\ row'[r] = row[r]
    BY <1>a DEF Settle, CompleteRow, CompletionAbandoned, PersistFailure, RowDone, RowFails,
                Goes, RunTypeOK
  <1>10. Shape(r)'
    BY <1>a, <1>1, <1>9 DEF RunInv, Shape, Working, PC
  <1>11. RowsAtHand(r)'
    BY <1>a, <1>1, <1>2, <1>9, ConstantFacts DEF RunInv, RowsAtHand
  <1>12. ViewLag(r)'
    BY <1>a, <1>1, <1>4 DEF RunInv, ViewLag
  <1>13. Written(r)' /\ Checked(r)'
    <2>1. row'[r] = row[r] => EntityOfRow(row[r])' = EntityOfRow(row[r])
      BY <1>1, <1>2 DEF EntityOfRow, SameKeys
    <2> QED
      BY <1>a, <1>1, <1>9, <2>1 DEF RunInv, Written, Checked
  <1> QED
    BY <1>7, <1>8, <1>10, <1>11, <1>12, <1>13 DEF RunInv

(* A run that may certify sees an exact Exchange. *)
LEMMA ExactWhenCertifying ==
  ASSUME IInv, NEW r \in Runs, pc[r] = "certify", MayCertify(r)
  PROVE  \A e \in Entities : exch[e] = src[e]
  <1>1. RunInv(r) /\ seen[r] = Entities
    BY DEF IInv, RunInv, Shape
  <1>2. \A e \in Entities : ~PendingFor(e)
    BY DEF MayCertify, Settled, PendingFor
  <1> QED
    BY <1>1, <1>2 DEF RunInv, Checked, ViewLag

LEMMA VerifyInv == ASSUME IInv, NEW r \in Runs, Verify(r) PROVE Promise' /\ RunInv(r)'
  <1>a. TypeOK /\ RunTypeOK /\ RunInv(r) /\ Promise
    BY DEF IInv, TypeOK
  <1>1. /\ pc[r] \in {"check", "reread", "certify"} /\ ~Quiet(r) /\ cmd[r] = NoEntity
        /\ pc[r] \in Working /\ seen[r] = Entities
        /\ UNCHANGED <<src, exch, lock>>
    BY <1>a DEF Verify, Check, Reread, Certify, store, RunInv, Shape, Working, PC, Quiet
  <1>2. Promise'
    <2>1. CASE SameKeys /\ SameStatus
      BY <1>1, <2>1, StillOwed, PromiseKept DEF IInv, SameKeys, SameStatus, Unresolved
    <2>2. CASE pc[r] = "certify" /\ MayCertify(r)
      BY <1>1, <2>2, ExactWhenCertifying DEF Promise
    <2> QED
      BY <1>a, <2>1, <2>2, VerifyRows
  <1>3. CASE RunEnds(r)
    BY <1>a, <1>1, <1>2, <1>3, EndInv
  <1>4. ASSUME NEW e \in Entities, e \in todo[r], NEW place, NEW rest,
               Compared(r, e, place, rest), UNCHANGED <<store, batch, row, view, seen, cmd>>,
               \/ pc[r] = "check" /\ exch[e] = view[r][e] /\ place = "reread"
               \/ pc[r] = "reread" /\ place = "certify"
        PROVE  RunInv(r)'
    <2>1. \/ pc'[r] = pc[r] /\ todo'[r] = todo[r] \ {e}
          \/ pc'[r] = place /\ todo[r] = {e}
      BY <1>a, <1>4 DEF Compared, Goes, RunTypeOK
    <2>2. Shape(r)' /\ Written(r)'
      BY <1>1, <1>4, <2>1 DEF Shape, Working, PC, Written
    <2>3. UNCHANGED <<src, exch, queue, lock>>
      BY <1>4 DEF store
    <2>4. Checked(r)'
      BY <1>a, <1>4, <2>1, <2>3 DEF RunInv, Checked
    <2> QED
      BY <1>a, <1>1, <1>4, <2>2, <2>3, <2>4, LocalInv
  <1>5. CASE Certify(r) /\ ~RunEnds(r)
    <2>1. UNCHANGED <<pc, batch, row, view, seen, todo, cmd>> /\ pc[r] = "certify"
      BY <1>5 DEF Certify
    <2>2. LeaseHeld(r)' /\ Shape(r)'
      BY <1>a, <1>1, <2>1 DEF RunInv, LeaseHeld, Quiet, HoldsLock, Shape
    <2>3. \A i \in Rows : queue'[i].status \in {"absent", "pending"}
                            => queue'[i].status = queue[i].status
      BY <1>a, VerifyRows DEF SameStatus
    <2>4. RowsAtHand(r)'
      BY <1>a, <2>1, <2>3 DEF RunInv, RowsAtHand
    <2>5. ASSUME NEW e \in Entities, PendingFor(e) PROVE PendingFor(e)'
      <3>1. \A i \in Rows : Pending(i) => Pending(i)' /\ queue'[i].key = queue[i].key
        BY <1>a, VerifyRows DEF SameKeys, SameStatus, Pending, Terminal
      <3> QED
        BY <2>5, <3>1, StillPending
    <2>6. ViewLag(r)' /\ Checked(r)' /\ Written(r)'
      BY <1>a, <1>1, <2>1, <2>5 DEF RunInv, ViewLag, Checked, Written
    <2> QED
      BY <1>2, <2>2, <2>4, <2>6 DEF RunInv
  <1>6. ASSUME NEW e \in Entities, Check(r, e) \/ Reread(r, e), ~RunEnds(r) PROVE RunInv(r)'
    BY <1>1, <1>4, <1>6 DEF Check, Reread
  <1> QED
    BY <1>2, <1>3, <1>5, <1>6 DEF Verify

LEMMA FinishInv == ASSUME IInv, NEW r \in Runs, Finish(r) PROVE Promise' /\ RunInv(r)'
  <1>a. TypeOK /\ RunTypeOK /\ RunInv(r) /\ Promise
    BY DEF IInv, TypeOK
  <1>1. SameKeys /\ SameStatus /\ UNCHANGED <<src, exch>>
    BY <1>a, FinishRows DEF Finish, Release, Crash, Recycle
  <1>2. Promise'
    BY <1>1, StillOwed, PromiseKept DEF IInv, SameKeys, SameStatus, Unresolved
  <1>3. RowsAtHand(r)'
    <2>1. batch'[r] \subseteq batch[r] /\ row'[r] \in {row[r], NoRow}
      BY <1>a DEF Finish, Release, Crash, Recycle, Cleared, progress, RunTypeOK
    <2> QED
      BY <1>a, <1>1, <2>1, ConstantFacts DEF RunInv, RowsAtHand, SameStatus
  <1>4. CASE Release(r) \/ Recycle(r)
    <2>1. /\ pc'[r] \in {"over", "idle"} /\ cmd'[r] = NoEntity /\ seen'[r] = {} /\ row'[r] = NoRow
      BY <1>a, <1>4 DEF Release, Recycle, Goes, progress, RunTypeOK, RunInv, Shape, Working, PC
    <2>2. LeaseHeld(r)' /\ Shape(r)'
      BY <2>1 DEF LeaseHeld, Quiet, Shape, Working
    <2>3. ViewLag(r)' /\ Written(r)' /\ Checked(r)'
      BY <2>1, QueueAssumption DEF ViewLag, Written, Checked
    <2> QED
      BY <1>2, <1>3, <2>2, <2>3 DEF RunInv
  <1>5. CASE Crash(r)
    <2>1. /\ pc'[r] = "dead" /\ cmd'[r] = cmd[r] /\ seen'[r] = {} /\ row'[r] = NoRow
          /\ cmd[r] # NoEntity => view'[r] = view[r]
          /\ UNCHANGED <<queue, lock>> /\ pc[r] \in Working
      BY <1>a, <1>5 DEF Crash, Goes, Cleared, RunTypeOK
    <2>2. LeaseHeld(r)' /\ Shape(r)'
      BY <1>a, <2>1 DEF RunInv, LeaseHeld, Quiet, HoldsLock, Shape, Working
    <2>3. \A e \in Entities : PendingFor(e) => PendingFor(e)'
      BY <2>1 DEF PendingFor, Pending, EntityOfRow
    <2>4. ViewLag(r)'
      BY <1>a, <1>1, <2>1, <2>3, QueueAssumption DEF RunInv, ViewLag
    <2>5. Written(r)' /\ Checked(r)'
      BY <2>1 DEF Written, Checked
    <2> QED
      BY <1>2, <1>3, <2>2, <2>4, <2>5 DEF RunInv
  <1> QED
    BY <1>4, <1>5 DEF Finish

LEMMA ActorInv == ASSUME IInv, NEW r \in Runs, RunAction(r) PROVE Promise' /\ RunInv(r)'
  <1>1. CASE Project(r)
    BY <1>1, ClaimInv, PickInv, LoadInv, IssueInv, LandInv, CommandFailsInv, LateLandingInv,
       ProjectedInv, RowThrowsInv, AbortInv DEF Project
  <1> QED
    BY <1>1, BeginInv, SettleInv, VerifyInv, FinishInv DEF RunAction

(* The runs that do not act. *)
LEMMA OthersInv == ASSUME IInv, NEW r \in Runs, NEW s \in Runs, s # r, RunAction(r)
                   PROVE  RunInv(s)'
  <1>a. TypeOK /\ RunTypeOK /\ FreshPending /\ RunInv(r) /\ RunInv(s)
    BY DEF IInv, TypeOK
  <1>1. RunSame(s)
    BY <1>a, OthersSame
  <1>2. RowsKept
    <2>1. CASE Begin(r) \/ (Project(r) /\ ~Claim(r))
      BY <2>1, OtherRows DEF RowsKept
    <2>2. CASE Claim(r)
      BY <1>a, <2>2, ClaimRows DEF RowsKept, SameKeys
    <2>3. CASE Settle(r)
      <3>1. row[r] \in Rows
        BY <1>a, <2>3 DEF Settle, CompleteRow, CompletionAbandoned, PersistFailure,
                          RunInv, Shape, RunTypeOK
      <3> QED
        BY <1>a, <2>3, <3>1, SettleRows DEF RowsKept, SameKeys
    <2>4. CASE Verify(r)
      BY <1>a, <2>4, VerifyRows DEF RowsKept, SameKeys, SameStatus
    <2>5. CASE Finish(r)
      BY <1>a, <2>5, FinishRows DEF RowsKept, SameKeys, SameStatus
    <2> QED
      BY <2>1, <2>2, <2>3, <2>4, <2>5 DEF RunAction
  <1>3. CASE Quiet(s)
    BY <1>a, <1>1, <1>2, <1>3, QuietKept
  <1>4. CASE ~Quiet(s)
    <2>1. Quiet(r) /\ HoldsLock(s)
      BY <1>a, <1>4, OneBusy
    <2>2. pc[r] \notin Working /\ cmd[r] = NoEntity /\ ~CanAcquire(r)
      BY <2>1 DEF Quiet, CanAcquire, HoldsLock
    <2>3. Begin(r) \/ Recycle(r)
      BY <2>2, ConstantFacts
         DEF RunAction, Project, Claim, Pick, Land, CommandFails, LateLanding, Projected,
             RowThrows, Abort, LoadOne, Issue, Settle, CompleteRow, CompletionAbandoned,
             PersistFailure, Verify, Check, Reread, Certify, Finish, Release, Crash, Working, PC
    <2>4. UNCHANGED <<src, exch, lock>>
      BY <2>1, <2>2, <2>3
         DEF Begin, Reserve, ReserveRejected, NeverStarts, Denied, Start, StartUnanswered,
             Recycle, Released, HoldsLock, store
    <2>5. SameKeys /\ SameStatus
      BY <1>a, <2>3, OtherRows, FinishRows DEF SameKeys, SameStatus, Finish
    <2> QED
      BY <1>a, <1>1, <2>4, <2>5, Frame
  <1> QED
    BY <1>3, <1>4

LEMMA IInvInit == ASSUME Init PROVE IInv
  <1>1. TypeOK /\ FreshPending
    BY TypeInit
  <1>2. Promise
    BY DEF Init, Promise
  <1>3. ASSUME NEW r \in Runs PROVE RunInv(r)
    <2>1. pc[r] = "idle" /\ batch[r] = {} /\ row[r] = NoRow /\ seen[r] = {} /\ cmd[r] = NoEntity
      BY DEF Init
    <2> QED
      BY <2>1, ConstantFacts, QueueAssumption
         DEF RunInv, LeaseHeld, Quiet, Shape, RowsAtHand, ViewLag, Written, Checked, Working
  <1> QED
    BY <1>1, <1>2, <1>3 DEF IInv

LEMMA IInvStep == ASSUME LeaseOutlivesStalls, IInv, [Next]_vars PROVE IInv'
  <1>1. CASE Next
    <2>1. TypeOK' /\ FreshPending'
      BY <1>1, StoreTypeStep, RunTypeStep DEF IInv, TypeOK
    <2>2. CASE Edit
      BY <2>1, <2>2, EditInv DEF Edit, IInv
    <2>3. CASE Deadline
      BY <2>1, <2>3, DeadlineInv DEF IInv
    <2>4. ASSUME NEW r \in Runs, RunAction(r) PROVE IInv'
      BY <2>1, <2>4, ActorInv, OthersInv DEF IInv
    <2> QED
      BY <1>1, <2>2, <2>3, <2>4 DEF Next, RunAction
  <1>2. CASE UNCHANGED vars
    <2> USE <1>2 DEF vars, store, progress
    <2>1. TypeOK' /\ FreshPending'
      BY DEF IInv, TypeOK, StoreTypeOK, RunTypeOK, FreshPending, Pending
    <2>2. Promise'
      BY DEF IInv, Promise, Owed, Unresolved, EntityOfRow
    <2>3. ASSUME NEW r \in Runs PROVE RunInv(r)'
      BY Frame DEF IInv, RunSame, SameKeys, SameStatus
    <2> QED
      BY <2>1, <2>2, <2>3 DEF IInv
  <1> QED
    BY <1>1, <1>2

(* The inductive invariant holds as long as no Exchange command outlasts    *)
(* the mutation lease.                                                     *)
THEOREM Invariance == ASSUME LeaseOutlivesStalls PROVE Spec => []IInv
  BY IInvInit, IInvStep, PTL DEF Spec

(* Nothing Exchange shows out of date is ever forgotten by the queue,       *)
(* whatever is coalesced, expired, retried, superseded or certified.       *)
THEOREM PromiseKeptAlways == ASSUME LeaseOutlivesStalls PROVE Spec => []Promise
  <1>1. IInv => Promise
    BY DEF IInv
  <1> QED
    BY <1>1, Invariance, PTL

(* Exchange commands of two runs never overlap. *)
THEOREM LeaseExclusive == ASSUME LeaseOutlivesStalls PROVE Spec => []MutationLeaseExclusive
  <1>1. IInv => MutationLeaseExclusive
    BY OneBusy DEF IInv, MutationLeaseExclusive, Quiet
  <1> QED
    BY <1>1, Invariance, PTL

(* Every certificate is committed over an exact Exchange, although the      *)
(* address book and Exchange were read at different times before.          *)
THEOREM CertificatesExact == ASSUME LeaseOutlivesStalls PROVE Spec => CertifiedExact
  <1>1. IInv /\ [Next]_vars => [~(certified' \subseteq certified) => exch' = src']_vars
    <2> SUFFICES ASSUME IInv, Next, ~(certified' \subseteq certified) PROVE exch' = src'
      BY DEF vars
    <2>1. PICK r \in Runs : pc[r] = "certify" /\ MayCertify(r) /\ UNCHANGED <<src, exch>>
      BY DEF Next, Edit, SourceChange, Deadline, LeaseRunsOut, GoesStale, RetryFallsDue,
             Begin, Reserve, ReserveRejected, NeverStarts, Denied, Start, StartUnanswered,
             Project, Claim, Pick, Land, CommandFails, LateLanding, Projected, RowThrows,
             Abort, LoadOne, Issue, Settle, CompleteRow, CompletionAbandoned, PersistFailure,
             Verify, Check, Reread, Certify, CertifyInDatabase, Finish, Release, Crash,
             Recycle, store
    <2>2. \A e \in Entities : exch[e] = src[e]
      BY <2>1, ExactWhenCertifying
    <2>3. exch = src
      BY <2>2 DEF IInv, TypeOK, StoreTypeOK
    <2> QED
      BY <2>1, <2>3
  <1> QED
    BY <1>1, Invariance, PTL DEF Spec, CertifiedExact
=============================================================================
