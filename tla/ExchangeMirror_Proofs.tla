----------------------- MODULE ExchangeMirror_Proofs -----------------------
(***************************************************************************)
(* The queue, its workers and its certificates implement TrackedMirror:    *)
(* every step changes the address book and records the debt, writes one    *)
(* entity of Exchange, settles debts of entities that are exact, or is     *)
(* invisible.  And Exchange is written, and rows are settled, under the    *)
(* lease only.                                                             *)
(***************************************************************************)
EXTENDS ExchangeSyncQueue_Proofs

MirrorStep == [Mirror!MirrorNext]_<<src, exch, Owed>>

(* Rows that are unresolved afterwards were unresolved before. *)
NoNewDebt == \A i \in Rows : Unresolved(i)' => Unresolved(i)

(* A step that leaves both sides alone and adds no debt settles what it     *)
(* drops: Promise afterwards says that it was exact.                       *)
LEMMA SettledDebts ==
  ASSUME UNCHANGED <<src, exch>>, SameKeys, NoNewDebt, Promise'
  PROVE  MirrorStep
  <1>1. Owed' \subseteq Owed
    BY DEF Owed, NoNewDebt, EntityOfRow, SameKeys
  <1>2. \A e \in Owed \ Owed' : exch[e] = src[e]
    BY DEF Promise, Owed
  <1>3. Owed' = Owed \ (Owed \ Owed') /\ Owed \ Owed' \in SUBSET Entities
    BY <1>1 DEF Owed
  <1>4. Mirror!Discharge(Owed \ Owed')
    BY <1>2, <1>3 DEF Mirror!Discharge
  <1> QED
    BY <1>3, <1>4 DEF MirrorStep, Mirror!MirrorNext

LEMMA EditStep == ASSUME IInv, NEW k \in Keys, NEW a \in Actors, SourceChange(k, a)
                  PROVE  MirrorStep
  <1>1. /\ \A i \in Rows : \/ queue'[i] = queue[i]
                           \/ queue[i].status = "absent" /\ queue'[i] = NewRow(k, a)
        /\ \E i \in Rows : queue'[i].status = "pending" /\ queue'[i].key = k
    BY ChangeRows DEF IInv
  <1>2. EntityOf[k] \in Entities
    BY QueueAssumption
  <1>3. Owed' = Owed \cup {EntityOf[k]}
    <2>1. Owed' \subseteq Owed \cup {EntityOf[k]}
      BY <1>1 DEF Owed, Unresolved, EntityOfRow, NewRow
    <2>2. Owed \subseteq Owed'
      BY <1>1, StillOwed DEF Unresolved
    <2>3. EntityOf[k] \in Owed'
      BY <1>1, <1>2 DEF Owed, Unresolved, EntityOfRow
    <2> QED
      BY <2>1, <2>2, <2>3
  <1>4. Mirror!Change(EntityOf[k])
    BY <1>3 DEF Mirror!Change, SourceChange
  <1> QED
    BY <1>2, <1>4 DEF MirrorStep, Mirror!MirrorNext

LEMMA CommandStep ==
  ASSUME IInv, NEW r \in Runs, Land(r) \/ CommandFails(r) \/ LateLanding(r)
  PROVE  MirrorStep
  <1>1. RunInv(r) /\ RunTypeOK /\ UNCHANGED <<src, queue>>
    BY DEF IInv, TypeOK, Land, CommandFails, LateLanding
  <1>2. cmd[r] \in Entities
    BY <1>1, QueueAssumption DEF RunInv, Shape, RunTypeOK, Land, CommandFails, LateLanding
  <1>3. Owed' = Owed
    BY <1>1 DEF Owed, Unresolved, EntityOfRow
  <1>4. /\ view[r][cmd[r]] \in 0..MaxVersion
        /\ view[r][cmd[r]] = src[cmd[r]] \/ cmd[r] \in Owed
    BY <1>1, <1>2, PendingOwed DEF RunInv, ViewLag, RunTypeOK, Versions
  <1>5. CASE exch' = exch
    BY <1>1, <1>3, <1>5 DEF MirrorStep
  <1>6. CASE TakesEffect(r)
    <2>1. Mirror!Write(cmd[r])
      BY <1>1, <1>3, <1>4, <1>6 DEF Mirror!Write, TakesEffect
    <2> QED
      BY <1>2, <2>1 DEF MirrorStep, Mirror!MirrorNext
  <1> QED
    BY <1>5, <1>6 DEF Land, CommandFails, LateLanding

LEMMA RunStep == ASSUME IInv, NEW r \in Runs, RunAction(r) PROVE MirrorStep
  <1>a. TypeOK /\ RunTypeOK /\ FreshPending /\ RunInv(r) /\ Promise'
    BY ActorInv DEF IInv, TypeOK
  <1>1. CASE Land(r) \/ CommandFails(r) \/ LateLanding(r)
    BY <1>1, CommandStep
  <1>2. CASE ~(Land(r) \/ CommandFails(r) \/ LateLanding(r))
    <2>1. UNCHANGED <<src, exch>>
      BY <1>2 DEF RunAction, Begin, Reserve, ReserveRejected, NeverStarts, Denied, Start,
           StartUnanswered, Project, Claim, Pick, Projected, RowThrows, Abort, LoadOne, Issue,
           Settle, CompleteRow, CompletionAbandoned, PersistFailure, Verify, Check, Reread,
           Certify, Finish, Release, Crash, Recycle, store
    <2>2. SameKeys /\ NoNewDebt
      <3>1. CASE Begin(r) \/ (Project(r) /\ ~Claim(r))
        BY <3>1, OtherRows DEF SameKeys, NoNewDebt, Unresolved
      <3>2. CASE Claim(r)
        BY <1>a, <3>2, ClaimRows DEF NoNewDebt, Unresolved
      <3>3. CASE Settle(r)
        <4>1. row[r] \in Rows
          BY <1>a, <3>3 DEF Settle, CompleteRow, CompletionAbandoned, PersistFailure,
                            RunInv, Shape, RunTypeOK
        <4> QED
          BY <1>a, <3>3, <4>1, SettleRows DEF NoNewDebt, Unresolved, Processing
      <3>4. CASE Verify(r)
        BY <1>a, <3>4, VerifyRows DEF NoNewDebt, SameStatus, Unresolved
      <3>5. CASE Finish(r)
        BY <1>a, <3>5, FinishRows DEF NoNewDebt, SameStatus, Unresolved
      <3> QED
        BY <3>1, <3>2, <3>3, <3>4, <3>5 DEF RunAction
    <2> QED
      BY <1>a, <2>1, <2>2, SettledDebts
  <1> QED
    BY <1>1, <1>2

LEMMA DeadlineStep == ASSUME IInv, Deadline PROVE MirrorStep
  <1>a. queue \in [Rows -> Row] /\ UNCHANGED <<src, exch>>
    BY DEF IInv, TypeOK, StoreTypeOK, Deadline, LeaseRunsOut, GoesStale, RetryFallsDue
  <1>1. \A i \in Rows : queue'[i].key = queue[i].key /\ queue'[i].status = queue[i].status
    <2>1. CASE LeaseRunsOut
      BY <2>1 DEF LeaseRunsOut
    <2>2. ASSUME NEW i \in Rows, NEW x \in Row, x.key = queue[i].key, x.status = queue[i].status,
                 queue' = [queue EXCEPT ![i] = x]
          PROVE  \A j \in Rows : queue'[j].key = queue[j].key /\ queue'[j].status = queue[j].status
      BY <1>a, <2>2
    <2>3. ASSUME NEW i \in Rows
          PROVE  /\ [queue[i] EXCEPT !.stale = TRUE] \in {x \in Row : x.key = queue[i].key
                                                             /\ x.status = queue[i].status}
                 /\ [queue[i] EXCEPT !.next = "due"] \in {x \in Row : x.key = queue[i].key
                                                             /\ x.status = queue[i].status}
      BY <1>a DEF Row, Retry
    <2> QED
      BY <2>1, <2>2, <2>3 DEF Deadline, GoesStale, RetryFallsDue
  <1>2. Owed' = Owed
    BY <1>1 DEF Owed, Unresolved, EntityOfRow
  <1> QED
    BY <1>a, <1>2 DEF MirrorStep

(* Exchange as the queue and its workers keep it is a tracked mirror of the *)
(* address book: nothing is written or settled that the mirror forbids.    *)
THEOREM QueueImplementsMirror == ASSUME LeaseOutlivesStalls PROVE Spec => ImplementsMirror
  <1>1. Init => Mirror!MirrorInit
    <2> SUFFICES ASSUME Init PROVE Mirror!MirrorInit
      OBVIOUS
    <2>1. \A i \in Rows : queue[i].status = "absent"
      BY DEF Init
    <2>2. Owed = {}
      BY <2>1 DEF Owed, Unresolved
    <2>3. src = [e \in Entities |-> 0] /\ exch = [e \in Entities |-> 0]
      BY DEF Init
    <2> QED
      BY <2>2, <2>3 DEF Mirror!MirrorInit
  <1>2. IInv /\ [Next]_vars => [Mirror!MirrorNext]_<<src, exch, Owed>>
    <2>1. IInv /\ Next => MirrorStep
      BY EditStep, DeadlineStep, RunStep DEF Next, Edit, RunAction
    <2>2. UNCHANGED vars => UNCHANGED <<src, exch, Owed>>
      BY DEF vars, store, Owed, Unresolved, EntityOfRow
    <2> QED
      BY <2>1, <2>2 DEF MirrorStep
  <1> QED
    BY <1>1, <1>2, Invariance, PTL DEF Spec, ImplementsMirror, Mirror!Spec, Mirror!mirrorVars
-----------------------------------------------------------------------------
(* What the lease is for. *)

(* Exchange changes by a command that was issued under the lease. *)
LEMMA WrittenUnderLease ==
  ASSUME IInv, Next, exch' # exch
  PROVE  \E r \in Runs : HoldsLock(r)
  <1>1. ~Edit /\ ~Deadline
    BY DEF Edit, SourceChange, Deadline, LeaseRunsOut, GoesStale, RetryFallsDue
  <1>2. PICK r \in Runs : RunAction(r)
    BY <1>1 DEF Next, RunAction
  <1>3. Land(r) \/ CommandFails(r) \/ LateLanding(r)
    BY <1>2 DEF RunAction, Begin, Reserve, ReserveRejected, NeverStarts, Denied, Start,
         StartUnanswered, Project, Claim, Pick, Projected, RowThrows, Abort, LoadOne, Issue,
         Settle, CompleteRow, CompletionAbandoned, PersistFailure, Verify, Check, Reread,
         Certify, Finish, Release, Crash, Recycle, store
  <1>4. ~Quiet(r)
    BY <1>3 DEF Land, CommandFails, LateLanding, Quiet, Working, PC
  <1> QED
    BY <1>4 DEF IInv, RunInv, LeaseHeld

Owing(e) == exch[e] # src[e] /\ ~PendingFor(e)

(* A row is settled under the lease, when nothing is owed for its entity   *)
(* but what another row is pending for.                                    *)
LEMMA RowSettledTruly ==
  ASSUME IInv, Next, NEW i \in Rows, Unresolved(i), queue'[i].status \in {"completed", "skipped"}
  PROVE  (\E r \in Runs : HoldsLock(r)) /\ ~Owing(EntityOfRow(i))
  <1>1. /\ TypeOK /\ RunTypeOK /\ FreshPending /\ queue \in [Rows -> Row]
        /\ queue'[i].status # queue[i].status /\ queue[i].status # "absent"
        /\ EntityOfRow(i) \in Entities
    BY EntityType DEF IInv, TypeOK, StoreTypeOK, Unresolved
  <1>2. ~Edit
    <2>1. ASSUME NEW k \in Keys, NEW a \in Actors, SourceChange(k, a) PROVE FALSE
      BY <1>1, <2>1, ChangeRows DEF NewRow
    <2> QED
      BY <2>1 DEF Edit
  <1>3. ~Deadline
    <2>1. CASE LeaseRunsOut
      BY <1>1, <2>1 DEF LeaseRunsOut
    <2>2. ASSUME NEW j \in Rows, GoesStale(j) \/ RetryFallsDue(j) PROVE FALSE
      <3>1. \/ queue'[i] = queue[i]
            \/ queue'[i] = [queue[i] EXCEPT !.stale = TRUE]
            \/ queue'[i] = [queue[i] EXCEPT !.next = "due"]
        BY <1>1, <2>2 DEF GoesStale, RetryFallsDue
      <3> QED
        BY <1>1, <3>1 DEF Row
    <2> QED
      BY <2>1, <2>2 DEF Deadline
  <1>4. PICK r \in Runs : RunAction(r)
    BY <1>2, <1>3 DEF Next, RunAction
  <1>5. RunInv(r)
    BY DEF IInv
  <1>6. CASE Begin(r) \/ Project(r)
    BY <1>1, <1>6, ClaimRows, OtherRows
  <1>7. CASE Finish(r)
    BY <1>1, <1>7, FinishRows DEF SameStatus
  <1>8. CASE Settle(r)
    <2>1. row[r] \in Rows
      BY <1>1, <1>5, <1>8 DEF Settle, CompleteRow, CompletionAbandoned, PersistFailure,
                              RunInv, Shape, RunTypeOK
    <2>2. pc[r] = "rpc" /\ EntityOfRow(i) = EntityOfRow(row[r])
      BY <1>1, <1>8, <2>1, SettleRows
    <2>3. HoldsLock(r)
      BY <1>5, <2>2 DEF RunInv, LeaseHeld, Quiet, Working, PC
    <2>4. seen[r] = Entities /\ row[r] # NoRow
      BY <1>5, <2>2 DEF RunInv, Shape
    <2>5. exch[EntityOfRow(i)] = view[r][EntityOfRow(i)]
      BY <1>5, <2>2, <2>4 DEF RunInv, Written
    <2> QED
      BY <1>1, <1>5, <2>3, <2>4, <2>5 DEF RunInv, ViewLag, Owing
  <1>9. CASE Verify(r)
    <2>1. pc[r] = "certify" /\ MayCertify(r)
      BY <1>1, <1>9, VerifyRows DEF SameStatus
    <2> QED
      BY <1>1, <2>1, ExactWhenCertifying DEF MayCertify, OwnsLease, Owing
  <1> QED
    BY <1>4, <1>6, <1>7, <1>8, <1>9 DEF RunAction

(* While no command outlasts the lease: Exchange changes only under the    *)
(* lease, even by the command of a worker that died; and a row is          *)
(* completed or skipped only under the lease, when Exchange shows its      *)
(* entity as the address book has it or a later change of it is pending.   *)
LeaseGuards ==
  [][/\ exch' # exch => \E r \in Runs : HoldsLock(r)
     /\ \A i \in Rows : Unresolved(i) /\ queue'[i].status \in {"completed", "skipped"}
          => (\E r \in Runs : HoldsLock(r)) /\ ~Owing(EntityOfRow(i))]_vars

(* Exchange is written, and rows are settled, under the lease; and nothing *)
(* is settled before Exchange shows it or a later change waits its turn.   *)
THEOREM LeaseGuardsAlways == ASSUME LeaseOutlivesStalls PROVE Spec => LeaseGuards
  <1> DEFINE Guarded ==
        /\ exch' # exch => \E r \in Runs : HoldsLock(r)
        /\ \A i \in Rows : Unresolved(i) /\ queue'[i].status \in {"completed", "skipped"}
             => (\E r \in Runs : HoldsLock(r)) /\ ~Owing(EntityOfRow(i))
  <1>1. IInv /\ [Next]_vars => [Guarded]_vars
    BY WrittenUnderLease, RowSettledTruly
  <1> QED
    BY <1>1, Invariance, PTL DEF Spec, LeaseGuards
=============================================================================
