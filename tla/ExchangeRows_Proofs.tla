------------------------ MODULE ExchangeRows_Proofs ------------------------
(***************************************************************************)
(* The life of a queue row, whatever the leases do: rows of a key are      *)
(* processed one at a time, a row out of claims is terminal, and a settled *)
(* row stays as it was settled.  None of it rests on LeaseOutlivesStalls:  *)
(* the claim's own conditions are enough.                                  *)
(***************************************************************************)
EXTENDS ExchangeSyncQueue_Proofs

Spent(i) == queue[i].attempts >= MaxAttempts

(* What any step but a claim may do to a row. *)
Stays(i)     == /\ queue'[i].key = queue[i].key
                /\ queue'[i].attempts = queue[i].attempts
Unchanged(i) == /\ Stays(i) /\ queue'[i].status = queue[i].status
                /\ queue'[i].next = queue[i].next \/ queue[i].next = "later" \/ queue'[i].next = "null"
Appended(i)  == queue[i].status = "absent" /\ queue'[i].status = "pending"
Fails(i)     == /\ Stays(i) /\ Processing(i) /\ queue'[i].status = "failed"
                /\ Spent(i) => queue'[i].next = "null"
Settles(i)   == \/ Processing(i) /\ queue'[i].status = "completed"
                \/ Terminal(i) /\ queue'[i].status = "skipped"

Moves == \A i \in Rows : Unchanged(i) \/ Appended(i) \/ Fails(i) \/ Settles(i)

Final == \A i \in Rows : queue[i].status \in {"completed", "skipped"}
                           => queue'[i].status = queue[i].status

LEMMA MovesKeep ==
  ASSUME TypeOK, ExclusiveKey, RetryBound, Moves, queue' \in [Rows -> Row]
  PROVE  ExclusiveKey' /\ RetryBound' /\ Final
  <1>1. queue \in [Rows -> Row]
    BY DEF TypeOK, StoreTypeOK
  <1>2. \A i \in Rows : Processing(i)' => Processing(i) /\ queue'[i].key = queue[i].key
    BY DEF Moves, Unchanged, Stays, Appended, Fails, Settles, Processing
  <1>3. ExclusiveKey'
    BY <1>2 DEF ExclusiveKey
  <1>4. ASSUME NEW i \in Rows, queue'[i].status = "failed", queue'[i].attempts = MaxAttempts
        PROVE  queue'[i].next = "null"
    <2>1. CASE Unchanged(i)
      BY <1>4, <2>1 DEF Unchanged, Stays, RetryBound, Terminal
    <2>2. CASE Fails(i)
      <3>1. queue[i].attempts = MaxAttempts /\ MaxAttempts \in Nat
        BY <1>4, <2>2, QueueAssumption DEF Fails, Stays
      <3>2. Spent(i)
        BY <3>1 DEF Spent
      <3> QED
        BY <2>2, <3>2 DEF Fails
    <2> QED
      BY <1>4, <2>1, <2>2 DEF Moves, Appended, Settles
  <1>5. RetryBound'
    BY <1>4 DEF RetryBound, Terminal
  <1>6. Final
    BY DEF Final, Moves, Unchanged, Appended, Fails, Settles, Processing, Terminal
  <1> QED
    BY <1>3, <1>5, <1>6

LEMMA StillMoves == ASSUME TypeOK, UNCHANGED queue PROVE Moves
  BY DEF Moves, Unchanged, Stays

LEMMA EditMoves == ASSUME TypeOK, NEW k \in Keys, NEW a \in Actors, SourceChange(k, a) PROVE Moves
  <1>1. \A i \in Rows : \/ queue'[i] = queue[i]
                        \/ queue[i].status = "absent" /\ queue'[i] = NewRow(k, a)
    BY ChangeRows
  <1>2. NewRow(k, a).status = "pending"
    BY DEF NewRow
  <1> QED
    BY <1>1, <1>2 DEF Moves, Unchanged, Stays, Appended

LEMMA DeadlineMoves == ASSUME TypeOK, Deadline PROVE Moves
  <1>a. queue \in [Rows -> Row]
    BY DEF TypeOK, StoreTypeOK
  <1>1. CASE LeaseRunsOut
    BY <1>1, StillMoves DEF LeaseRunsOut
  <1>2. ASSUME NEW i \in Rows, GoesStale(i) \/ RetryFallsDue(i) PROVE Moves
    <2>1. /\ queue[i].next = "later" /\ queue' = [queue EXCEPT ![i].next = "due"]
          \/ queue' = [queue EXCEPT ![i].stale = TRUE]
      BY <1>2 DEF GoesStale, RetryFallsDue
    <2>2. \A j \in Rows : j # i => queue'[j] = queue[j]
      BY <1>a, <2>1
    <2>3. Unchanged(i)
      BY <1>a, <2>1 DEF Unchanged, Stays, Row
    <2> QED
      BY <2>2, <2>3 DEF Moves, Unchanged, Stays
  <1> QED
    BY <1>1, <1>2 DEF Deadline

LEMMA SettleMoves == ASSUME TypeOK, NEW r \in Runs, Settle(r) PROVE Moves
  <1>1. queue \in [Rows -> Row]
    BY DEF TypeOK, StoreTypeOK
  <1>2. CASE ClaimedNow(r, row[r]) /\ queue' = CompletedIn(row[r])
    <2>1. ASSUME NEW i \in Rows PROVE Unchanged(i) \/ Settles(i)
      <3>1. CASE i = row[r]
        BY <1>1, <1>2, <3>1 DEF CompletedIn, Row, ClaimedNow, Settles
      <3>2. CASE i # row[r] /\ Terminal(i) /\ EntityOfRow(i) = EntityOfRow(row[r])
        BY <1>1, <1>2, <3>2 DEF CompletedIn, Row, Settles
      <3>3. CASE i # row[r] /\ ~(Terminal(i) /\ EntityOfRow(i) = EntityOfRow(row[r]))
        BY <1>1, <1>2, <3>3 DEF CompletedIn, Unchanged, Stays
      <3> QED
        BY <3>1, <3>2, <3>3
    <2> QED
      BY <2>1 DEF Moves
  <1>3. CASE ClaimedNow(r, row[r]) /\ queue' = [queue EXCEPT ![row[r]] = Failure(row[r])]
    <2>1. \A i \in Rows : i # row[r] => queue'[i] = queue[i]
      BY <1>1, <1>3
    <2>2. ASSUME row[r] \in Rows PROVE Fails(row[r])
      <3>1. /\ Failure(row[r]).key = queue[row[r]].key
            /\ Failure(row[r]).attempts = queue[row[r]].attempts
            /\ Failure(row[r]).status = "failed"
            /\ Failure(row[r]).next = LaterOrNever(row[r])
        BY <1>1, <2>2 DEF Failure, Row
      <3>2. queue'[row[r]] = Failure(row[r])
        BY <1>1, <1>3, <2>2
      <3>3. Spent(row[r]) => LaterOrNever(row[r]) = "null"
        BY DEF Spent, LaterOrNever
      <3> QED
        BY <1>3, <3>1, <3>2, <3>3 DEF Fails, Stays, ClaimedNow
    <2> QED
      BY <2>1, <2>2 DEF Moves, Unchanged, Stays
  <1>4. CASE UNCHANGED queue
    BY <1>4, StillMoves
  <1> QED
    BY <1>2, <1>3, <1>4
       DEF Settle, CompleteRow, CompleteInDatabase, CompletionAbandoned, PersistFailure, store

LEMMA VerifyMoves == ASSUME TypeOK, NEW r \in Runs, Verify(r) PROVE Moves
  <1>1. queue \in [Rows -> Row]
    BY DEF TypeOK, StoreTypeOK
  <1>2. CASE queue' = SkippedTerminal
    <2>1. ASSUME NEW i \in Rows PROVE Unchanged(i) \/ Settles(i)
      BY <1>1, <1>2 DEF SkippedTerminal, Row, Unchanged, Stays, Settles
    <2> QED
      BY <2>1 DEF Moves
  <1>3. CASE UNCHANGED queue
    BY <1>3, StillMoves
  <1> QED
    BY <1>2, <1>3 DEF Verify, Check, Reread, Certify, CertifyInDatabase, store

LEMMA FinishMoves == ASSUME TypeOK, NEW r \in Runs, Finish(r) PROVE Moves
  <1>1. CASE UNCHANGED queue
    BY <1>1, StillMoves
  <1>2. CASE Recycle(r)
    BY <1>2 DEF Recycle, Moves, Unchanged, Stays, TypeOK, StoreTypeOK, Row
  <1> QED
    BY <1>1, <1>2 DEF Finish, Release, Crash

-----------------------------------------------------------------------------
(* The claim: it expires stale claims, then takes the oldest row of each   *)
(* key that no row is processed of.                                        *)

LEMMA SweptRetries ==
  ASSUME TypeOK, NEW i \in Rows
  PROVE  Swept[i].status = "failed" /\ Swept[i].attempts >= MaxAttempts => Swept[i].next = "null"
  <1>1. queue[i] \in Row
    BY DEF TypeOK, StoreTypeOK
  <1>2. CASE Processing(i) /\ queue[i].stale
    <2>1. Swept[i] = [queue[i] EXCEPT !.status = "failed", !.stale = FALSE, !.next = RetryOrNever(i)]
      BY <1>2 DEF Swept
    <2>2. Swept[i].attempts = queue[i].attempts /\ Swept[i].next = RetryOrNever(i)
      BY <1>1, <2>1 DEF Row
    <2> QED
      BY <2>2 DEF RetryOrNever
  <1>3. CASE ~(Processing(i) /\ queue[i].stale) /\ queue[i].status = "failed"
             /\ queue[i].attempts >= MaxAttempts
    BY <1>1, <1>3 DEF Swept, Row
  <1>4. CASE ~(Processing(i) /\ queue[i].stale)
             /\ ~(queue[i].status = "failed" /\ queue[i].attempts >= MaxAttempts)
    BY <1>4 DEF Swept
  <1> QED
    BY <1>2, <1>3, <1>4

LEMMA ClaimKeeps ==
  ASSUME TypeOK, FreshPending, ExclusiveKey, NEW r \in Runs, Claim(r)
  PROVE  ExclusiveKey' /\ RetryBound' /\ Final
  <1>1. queue \in [Rows -> Row] /\ queue' = ClaimedBy(Swept, r)
    BY DEF TypeOK, StoreTypeOK, Claim
  <1>2. Swept \in [Rows -> Row] /\ \A i \in Rows : Swept[i].key = queue[i].key
    BY <1>1, SweptType
  <1>3. \A i \in Rows : Swept[i].status = "pending" => Swept[i].attempts = 0
    BY <1>1, SweptStatus DEF FreshPending, Pending
  <1>4. \A i \in Rows : \/ queue'[i] = Swept[i]
                        \/ i \in Taken(Swept) /\ queue'[i].status = "processing"
    BY <1>1, <1>2, <1>3, ClaimedType
  <1>5. \A i \in Rows : queue'[i].key = queue[i].key
    BY ClaimRows DEF SameKeys
  <1>6. Final
    BY ClaimRows DEF Final, Unresolved
  <1>7. \A i, j \in Rows :
          (/\ Swept[i].status = "processing" /\ Swept[j].status = "processing"
           /\ queue[i].key = queue[j].key) => i = j
    <2>1. \A i \in Rows : Swept[i].status = "processing" => Processing(i)
      BY <1>1, SweptStatus DEF Processing
    <2> QED
      BY <2>1 DEF ExclusiveKey
  <1>8. \A i \in Taken(Swept), j \in Rows :
          Swept[j].status = "processing" /\ queue[i].key = queue[j].key => FALSE
    <2>1. ASSUME NEW i \in Taken(Swept), NEW j \in Rows, Swept[j].status = "processing",
                 queue[i].key = queue[j].key
          PROVE  FALSE
      <3>1. i \in Eligible(Swept) /\ i \in Rows
        BY TakenType
      <3>2. i # j
        BY <2>1, <3>1 DEF Eligible
      <3> QED
        BY <1>2, <2>1, <3>1, <3>2 DEF Eligible
    <2> QED
      BY <2>1
  <1>9. \A i, j \in Taken(Swept) : queue[i].key = queue[j].key => i = j
    <2>1. ASSUME NEW i \in Taken(Swept), NEW j \in Taken(Swept), queue[i].key = queue[j].key
          PROVE  i = j
      <3>1. /\ i \in Candidates(Swept) /\ j \in Candidates(Swept)
            /\ i \in Eligible(Swept) /\ j \in Eligible(Swept)
            /\ i \in Rows /\ j \in Rows
        BY TakenType DEF Taken
      <3>2. Swept[i].key = Swept[j].key
        BY <1>2, <2>1, <3>1
      <3>3. i <= j /\ j <= i
        BY <3>1, <3>2 DEF Candidates
      <3> QED
        BY <3>1, <3>3 DEF Rows
    <2> QED
      BY <2>1
  <1>10. ExclusiveKey'
    <2>1. ASSUME NEW i \in Rows, NEW j \in Rows, queue'[i].status = "processing",
                 queue'[j].status = "processing", queue'[i].key = queue'[j].key
          PROVE  i = j
      <3>1. queue[i].key = queue[j].key
        BY <1>5, <2>1
      <3>2. i \in Taken(Swept) \/ Swept[i].status = "processing"
        BY <1>4, <2>1
      <3>3. j \in Taken(Swept) \/ Swept[j].status = "processing"
        BY <1>4, <2>1
      <3> QED
        BY <1>7, <1>8, <1>9, <3>1, <3>2, <3>3
    <2> QED
      BY <2>1 DEF ExclusiveKey, Processing
  <1>11. RetryBound'
    <2>1. ASSUME NEW i \in Rows, queue'[i].status = "failed", queue'[i].attempts = MaxAttempts
          PROVE  queue'[i].next = "null"
      <3>1. queue'[i] = Swept[i]
        BY <1>4, <2>1
      <3>2. Swept[i].attempts >= MaxAttempts
        BY <2>1, <3>1, QueueAssumption
      <3> QED
        BY <2>1, <3>1, <3>2, SweptRetries
    <2> QED
      BY <2>1 DEF RetryBound, Terminal
  <1> QED
    BY <1>6, <1>10, <1>11

-----------------------------------------------------------------------------
RowsInv == TypeOK /\ FreshPending /\ ExclusiveKey /\ RetryBound

LEMMA RowsStep == ASSUME RowsInv, [Next]_vars PROVE ExclusiveKey' /\ RetryBound' /\ Final
  <1>a. TypeOK /\ FreshPending /\ ExclusiveKey /\ RetryBound
    BY DEF RowsInv
  <1>1. TypeOK'
    <2>1. CASE Next
      BY <1>a, <2>1, StoreTypeStep, RunTypeStep DEF TypeOK
    <2>2. CASE UNCHANGED vars
      BY <1>a, <2>2 DEF vars, store, progress, TypeOK, StoreTypeOK, RunTypeOK
    <2> QED
      BY <2>1, <2>2
  <1>2. queue' \in [Rows -> Row]
    BY <1>1 DEF TypeOK, StoreTypeOK
  <1>3. CASE Moves
    BY <1>a, <1>2, <1>3, MovesKeep
  <1>4. CASE Edit
    BY <1>a, <1>3, <1>4, EditMoves DEF Edit
  <1>5. CASE Deadline
    BY <1>a, <1>3, <1>5, DeadlineMoves
  <1>6. ASSUME NEW r \in Runs, Begin(r) \/ Project(r) \/ Settle(r) \/ Verify(r) \/ Finish(r)
        PROVE  ExclusiveKey' /\ RetryBound' /\ Final
    <2>1. CASE Claim(r)
      BY <1>a, <2>1, ClaimKeeps
    <2>2. CASE UNCHANGED queue
      BY <1>a, <1>3, <2>2, StillMoves
    <2>3. CASE Settle(r) \/ Verify(r) \/ Finish(r)
      BY <1>a, <1>3, <2>3, SettleMoves, VerifyMoves, FinishMoves
    <2> QED
      BY <1>6, <2>1, <2>2, <2>3, OtherRows
  <1>7. CASE UNCHANGED vars
    BY <1>a, <1>3, <1>7, StillMoves DEF vars, store
  <1> QED
    BY <1>4, <1>5, <1>6, <1>7 DEF Next

LEMMA RowsInit == ASSUME Init PROVE ExclusiveKey /\ RetryBound
  BY DEF Init, ExclusiveKey, RetryBound, Processing

LEMMA RowsInvariance == Spec => []RowsInv
  <1>1. Init => ExclusiveKey /\ RetryBound
    BY RowsInit
  <1>2. RowsInv /\ [Next]_vars => ExclusiveKey' /\ RetryBound'
    BY RowsStep
  <1>3. RowsInv <=> (TypeOK /\ FreshPending) /\ ExclusiveKey /\ RetryBound
    BY DEF RowsInv
  <1> QED
    BY <1>1, <1>2, <1>3, TypeCorrect, PTL DEF Spec

(* Two rows of one entity_key are never processed together, even when a    *)
(* stalled worker outlives its lease and another one claims.               *)
THEOREM ExclusiveKeyAlways == Spec => []ExclusiveKey
  <1>1. RowsInv => ExclusiveKey
    BY DEF RowsInv
  <1> QED
    BY <1>1, RowsInvariance, PTL

(* A failed row that used up its claims never has a retry time, whichever  *)
(* of the sweep, the claim and the worker's PATCH failed it.               *)
THEOREM RetryBoundAlways == Spec => []RetryBound
  <1>1. RowsInv => RetryBound
    BY DEF RowsInv
  <1> QED
    BY <1>1, RowsInvariance, PTL

(* A settled row stays as it was settled: no late PATCH, repeated          *)
(* completion, sweep or certificate of any run changes its status.         *)
THEOREM FinalityAlways == Spec => Finality
  <1>1. RowsInv /\ [Next]_vars => [Final]_vars
    BY RowsStep
  <1>2. [Final]_vars <=> [\A i \in Rows : queue[i].status \in {"completed", "skipped"}
                            => queue'[i].status = queue[i].status]_vars
    BY DEF Final
  <1> QED
    BY <1>1, <1>2, RowsInvariance, PTL DEF Spec, Finality
=============================================================================
