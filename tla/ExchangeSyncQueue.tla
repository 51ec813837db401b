------------------------- MODULE ExchangeSyncQueue -------------------------
(***************************************************************************)
(* The durable queue that carries changes of the shared address book from  *)
(* the database (the authority) to Microsoft Exchange (a projection of     *)
(* it): the trigger that enqueues every source change, the claim,          *)
(* completion and certification functions of the database, the global      *)
(* mutation lease, the web route that reserves the lease before it starts  *)
(* a worker, and the Azure Automation worker in its incremental and full   *)
(* modes.                                                                  *)
(*                                                                         *)
(* An address-book entity (a contact, or a group with its members) is      *)
(* abstracted to a version number: src[e] is the version the database      *)
(* holds, exch[e] the version Exchange shows.  Time is abstracted to the   *)
(* events that the code's deadlines produce: a claim turns stale, a retry  *)
(* falls due, the lease runs out.                                          *)
(***************************************************************************)
EXTENDS Naturals, FiniteSets

CONSTANTS
  Entities,     \* contacts and groups projected to Exchange
  Keys,         \* entity_key values; a group and each membership have their own
  EntityOf,     \* the entity a key's row reconciles (entity_id)
  Peers,        \* other entities the reconciliation of an entity rewrites
  Actors,       \* audit actors that edit the address book
  Runs,         \* worker run ids
  NoRun,        \* "no run": a free lease, a row never claimed or of a past run
  NoEntity,     \* "no Exchange command in flight"
  MaxVersion,   \* bound: changes per entity
  MaxRows,      \* bound: queue rows
  MaxCrashes,   \* bound: worker deaths
  MaxAttempts,  \* claims a row may have (3 in the code)
  RpcTries,     \* tries of an ambiguous RPC (3 in the code)
  ClaimLimit,   \* rows per claim (200 in the code)
  Modes,        \* worker modes that may start: "incremental", "full"
  WorkerClockSkew,  \* TRUE: the worker's clock may differ from the database's
  LeaseOutlivesStalls  \* TRUE: no Exchange command outlasts the lease

Rows     == 1..MaxRows
NoRow    == 0
Versions == 0..MaxVersion

ASSUME QueueAssumption ==
  /\ EntityOf \in [Keys -> Entities]
  /\ Peers \in [Entities -> SUBSET Entities]
  /\ Keys # {} /\ Actors # {}
  /\ NoRun \notin Runs
  /\ NoEntity \notin Entities
  /\ MaxVersion \in Nat /\ MaxRows \in Nat /\ MaxCrashes \in Nat
  /\ MaxAttempts \in Nat \ {0} /\ RpcTries \in Nat \ {0}
  /\ ClaimLimit \in Nat \ {0}
  /\ Modes \subseteq {"incremental", "full"}
  /\ WorkerClockSkew \in BOOLEAN /\ LeaseOutlivesStalls \in BOOLEAN

VARIABLES
  src,        \* version of each entity in the shared_addressbook tables
  exch,       \* version of each entity in Exchange
  queue,      \* outlook_exchange_sync_queue, indexed by queue_sequence
  lock,       \* the single row of outlook_exchange_sync_lock
  fence,      \* has the queue high-water moved since the run read it?
  ahead,      \* the newest updated_at lies ahead of the database clock
  certified,  \* run ids with a row in outlook_exchange_sync_certifications
  crashes,    \* worker deaths so far
  \* The runbook's state, by run id.
  pc,         \* where the run is
  mode,       \* its sync mode
  batch,      \* claimed rows not yet processed
  row,        \* the row being processed
  view,       \* $script:CanonicalExchangeRows
  seen,       \* entities the view has loaded
  todo,       \* entities left in this phase
  cmd,        \* the Exchange command in flight
  tries,      \* tries of the current RPC
  ok          \* failedQueueRows = 0

store    == <<src, exch, queue, lock, fence, ahead, certified, crashes>>
progress == <<mode, batch, row, view, seen, todo, cmd, tries, ok>>
vars     == <<store, pc, progress>>

-----------------------------------------------------------------------------
(* Rows of the queue. *)

Status == {"absent", "pending", "processing", "completed", "failed", "skipped"}

(* next_attempt_at: null, in the future, or reached. *)
Retry == {"null", "later", "due"}

Row == [key : Keys, actor : Actors, status : Status, attempts : 0..MaxAttempts,
        next : Retry, stale : BOOLEAN, run : Runs \cup {NoRun}]

EntityOfRow(i) == EntityOf[queue[i].key]

Pending(i)    == queue[i].status = "pending"
Processing(i) == queue[i].status = "processing"
Terminal(i)   == queue[i].status = "failed" /\ queue[i].next = "null"
Unresolved(i) == queue[i].status \in {"pending", "processing", "failed"}

(* The entities some unresolved row still speaks for. *)
Owed == {e \in Entities : \E i \in Rows : Unresolved(i) /\ EntityOfRow(i) = e}

-----------------------------------------------------------------------------
(* Workers. *)

PC == {"idle", "reserved", "claim", "pick", "load", "write", "inflight",
       "rpc", "failed", "check", "reread", "certify", "exit", "dead", "over"}

Working == PC \ {"idle", "reserved", "dead", "over"}

(* A row's reconciliation rewrites its entity and the entity's peers. *)
Scope(i) == {EntityOfRow(i)} \cup Peers[EntityOfRow(i)]

FreeLock     == [run |-> NoRun, mode |-> "incremental", live |-> FALSE]
HoldsLock(r) == lock.run = r /\ lock.live

-----------------------------------------------------------------------------
(* The high-water fence is the newest (updated_at, queue_sequence).  A     *)
(* write stamped by the database moves it, unless a worker whose clock ran *)
(* ahead has already stamped a row into the future.                        *)

AllMoved == [r \in Runs |-> "moved"]

StampedByDatabase ==
  \/ fence' = AllMoved /\ ahead' = FALSE
  \/ ahead /\ UNCHANGED <<fence, ahead>>

StampedByWorker ==
  \/ fence' = AllMoved /\ ahead' \in {FALSE, WorkerClockSkew}
  \/ WorkerClockSkew /\ UNCHANGED <<fence, ahead>>

-----------------------------------------------------------------------------
StoreTypeOK ==
  /\ src \in [Entities -> Versions]
  /\ exch \in [Entities -> Versions]
  /\ queue \in [Rows -> Row]
  /\ lock \in [run : Runs \cup {NoRun}, mode : {"incremental", "full"}, live : BOOLEAN]
  /\ fence \in [Runs -> {"held", "moved"}]
  /\ ahead \in BOOLEAN
  /\ certified \subseteq Runs
  /\ crashes \in 0..MaxCrashes

RunTypeOK ==
  /\ pc \in [Runs -> PC]
  /\ mode \in [Runs -> {"incremental", "full"}]
  /\ batch \in [Runs -> SUBSET Rows]
  /\ row \in [Runs -> Rows \cup {NoRow}]
  /\ view \in [Runs -> [Entities -> Versions]]
  /\ seen \in [Runs -> SUBSET Entities]
  /\ todo \in [Runs -> SUBSET Entities]
  /\ cmd \in [Runs -> Entities \cup {NoEntity}]
  /\ tries \in [Runs -> 0..RpcTries]
  /\ ok \in [Runs -> BOOLEAN]

TypeOK == StoreTypeOK /\ RunTypeOK

BlankView == [e \in Entities |-> 0]

Init ==
  /\ src = [e \in Entities |-> 0]
  /\ exch = [e \in Entities |-> 0]
  /\ queue = [i \in Rows |->
                [key |-> CHOOSE k \in Keys : TRUE, actor |-> CHOOSE a \in Actors : TRUE,
                 status |-> "absent", attempts |-> 0, next |-> "null",
                 stale |-> FALSE, run |-> NoRun]]
  /\ lock = FreeLock
  /\ fence = AllMoved
  /\ ahead = FALSE
  /\ certified = {}
  /\ crashes = 0
  /\ pc = [r \in Runs |-> "idle"]
  /\ mode = [r \in Runs |-> "incremental"]
  /\ batch = [r \in Runs |-> {}]
  /\ row = [r \in Runs |-> NoRow]
  /\ view = [r \in Runs |-> BlankView]
  /\ seen = [r \in Runs |-> {}]
  /\ todo = [r \in Runs |-> {}]
  /\ cmd = [r \in Runs |-> NoEntity]
  /\ tries = [r \in Runs |-> 0]
  /\ ok = [r \in Runs |-> TRUE]

-----------------------------------------------------------------------------
(* Editing the address book: the trigger either coalesces the change into  *)
(* a pending row of the same key and actor or appends a row, in the        *)
(* transaction of the change itself.                                       *)

(* Mutant: a change also coalesces into a row already being processed.     *)
CoalescesClaimed(i, k, a) ==
  queue[i].status \in {"pending", "processing"} /\ queue[i].key = k /\ queue[i].actor = a

Coalesces(i, k, a) == Pending(i) /\ queue[i].key = k /\ queue[i].actor = a

NewRow(k, a) == [key |-> k, actor |-> a, status |-> "pending", attempts |-> 0,
                 next |-> "null", stale |-> FALSE, run |-> NoRun]

SourceChange(k, a) ==
  /\ src[EntityOf[k]] < MaxVersion
  /\ src' = [src EXCEPT ![EntityOf[k]] = @ + 1]
  /\ \/ /\ \E i \in Rows : Coalesces(i, k, a)
        /\ queue' = queue
     \/ /\ ~ \E i \in Rows : Coalesces(i, k, a)
        /\ \E i \in Rows :
             /\ queue[i].status = "absent"
             /\ \A j \in 1..(i - 1) : queue[j].status # "absent"
             /\ queue' = [queue EXCEPT ![i] = NewRow(k, a)]
  /\ StampedByDatabase
  /\ UNCHANGED <<exch, lock, certified, crashes, pc, progress>>

-----------------------------------------------------------------------------
(* Deadlines. *)

(* A claim becomes older than 20 minutes. *)
GoesStale(i) ==
  /\ Processing(i) /\ ~queue[i].stale
  /\ queue' = [queue EXCEPT ![i].stale = TRUE]
  /\ UNCHANGED <<src, exch, lock, fence, ahead, certified, crashes, pc, progress>>

(* next_attempt_at is reached. *)
RetryFallsDue(i) ==
  /\ queue[i].next = "later"
  /\ queue' = [queue EXCEPT ![i].next = "due"]
  /\ UNCHANGED <<src, exch, lock, fence, ahead, certified, crashes, pc, progress>>

(* Mutant: a lease without an expiry. *)
LeaseNeverRunsOut == FALSE

(* The lease runs out: 30 minutes at least after the renewal that preceded *)
(* its holder's newest claim, so that claim's rows are stale by then.      *)
LeaseRunsOut ==
  /\ lock.live
  /\ \A i \in Rows : Processing(i) /\ queue[i].run = lock.run => queue[i].stale
  /\ LeaseOutlivesStalls =>
       \A r \in Runs : HoldsLock(r) => pc[r] \notin Working /\ cmd[r] = NoEntity
  /\ lock' = [lock EXCEPT !.live = FALSE]
  /\ UNCHANGED <<src, exch, queue, fence, ahead, certified, crashes, pc, progress>>

-----------------------------------------------------------------------------
(* The web route and the start of a worker. *)

CanAcquire(r) == ~lock.live \/ lock.run = r

Acquired(r, m) == lock' = [run |-> r, mode |-> m, live |-> TRUE]

(* Mutant: a release that does not compare the run id. *)
ReleasedForAnyone(r) == lock' = FreeLock

Released(r) == lock' = IF lock.run = r THEN FreeLock ELSE lock

Goes(r, place) == pc' = [pc EXCEPT ![r] = place]

(* The route reserves the lease under the run id it hands to the webhook. *)
Reserve(r) ==
  /\ pc[r] = "idle" /\ CanAcquire(r)
  /\ Acquired(r, "incremental")
  /\ Goes(r, "reserved")
  /\ UNCHANGED <<src, exch, queue, fence, ahead, certified, crashes, progress>>

(* The webhook is definitely refused (or the reservation cannot be         *)
(* verified): the route releases the lease, unless that call is lost too.  *)
ReserveRejected(r) ==
  /\ pc[r] = "reserved"
  /\ Goes(r, "over")
  /\ Released(r) \/ UNCHANGED lock
  /\ UNCHANGED <<src, exch, queue, fence, ahead, certified, crashes, progress>>

(* An ambiguous dispatch that created no job keeps its reservation. *)
NeverStarts(r) ==
  /\ pc[r] = "reserved"
  /\ Goes(r, "over")
  /\ UNCHANGED <<store, progress>>

(* The schedule starts runs of either mode, the webhook incremental ones. *)
MayStart(r, m) == \/ pc[r] = "idle" /\ m \in Modes
                  \/ pc[r] = "reserved" /\ m = "incremental"

(* A full run reads the high-water fence before anything else. *)
Start(r, m) ==
  /\ MayStart(r, m) /\ CanAcquire(r)
  /\ Acquired(r, m)
  /\ mode' = [mode EXCEPT ![r] = m]
  /\ \/ m = "incremental" /\ Goes(r, "claim") /\ fence' = fence
     \/ m = "full" /\ Goes(r, "load") /\ fence' = [fence EXCEPT ![r] = "held"]
  /\ UNCHANGED <<src, exch, queue, ahead, certified, crashes,
                 batch, row, view, seen, todo, cmd, tries, ok>>

(* The lock was granted but no try of the call brought the answer back: the *)
(* worker stops without ever having owned a lock it would release.          *)
StartUnanswered(r, m) ==
  /\ MayStart(r, m) /\ CanAcquire(r)
  /\ Acquired(r, m)
  /\ Goes(r, "over")
  /\ UNCHANGED <<src, exch, queue, fence, ahead, certified, crashes, progress>>

Denied(r) ==
  /\ pc[r] \in {"idle", "reserved"} /\ ~CanAcquire(r)
  /\ Goes(r, "over")
  /\ UNCHANGED <<store, progress>>

-----------------------------------------------------------------------------
(* Claiming a batch. *)

(* The claim first repairs misleading terminal rows and expires claims     *)
(* older than 20 minutes, in one transaction with the claim itself.        *)
RetryOrNever(i) == IF queue[i].attempts >= MaxAttempts THEN "null" ELSE "due"

(* Mutant: a claim of a dead worker never expires. *)
SweptWithoutExpiry == [i \in Rows |->
  IF queue[i].status = "failed" /\ queue[i].attempts >= MaxAttempts
    THEN [queue[i] EXCEPT !.next = "null"]
    ELSE queue[i]]

(* Mutant: an expired claim counts as done. *)
SweptAsDone == [i \in Rows |->
  IF Processing(i) /\ queue[i].stale
    THEN [queue[i] EXCEPT !.status = "completed", !.stale = FALSE]
    ELSE queue[i]]

Swept == [i \in Rows |->
  IF Processing(i) /\ queue[i].stale
    THEN [queue[i] EXCEPT !.status = "failed", !.stale = FALSE, !.next = RetryOrNever(i)]
  ELSE IF queue[i].status = "failed" /\ queue[i].attempts >= MaxAttempts
    THEN [queue[i] EXCEPT !.next = "null"]
  ELSE queue[i]]

(* Mutant: the claim does not look for a row of the key in processing. *)
EligibleAnyKey(q) ==
  {i \in Rows : \/ q[i].status = "pending"
                \/ q[i].status = "failed" /\ q[i].attempts < MaxAttempts /\ q[i].next = "due"}

Eligible(q) ==
  {i \in Rows :
     /\ \/ q[i].status = "pending"
        \/ q[i].status = "failed" /\ q[i].attempts < MaxAttempts /\ q[i].next = "due"
     /\ ~ \E j \in Rows : j # i /\ q[j].key = q[i].key /\ q[j].status = "processing"}

(* The oldest eligible row of each key, the ClaimLimit oldest of these. *)
Candidates(q) ==
  {i \in Eligible(q) : \A j \in Eligible(q) : q[j].key = q[i].key => i <= j}

Taken(q) == {i \in Candidates(q) :
               Cardinality({j \in Candidates(q) : j < i}) < ClaimLimit}

ClaimedBy(q, r) == [i \in Rows |->
  IF i \in Taken(q)
    THEN [q[i] EXCEPT !.status = "processing", !.attempts = @ + 1,
                      !.next = "null", !.stale = FALSE, !.run = r]
    ELSE q[i]]

(* The run forgets its batch, its cached rows and its counters. *)
Cleared(r) ==
  /\ mode'  = [mode EXCEPT ![r] = "incremental"]
  /\ batch' = [batch EXCEPT ![r] = {}]
  /\ row'   = [row EXCEPT ![r] = NoRow]
  /\ seen'  = [seen EXCEPT ![r] = {}]
  /\ todo'  = [todo EXCEPT ![r] = {}]
  /\ tries' = [tries EXCEPT ![r] = 0]
  /\ ok'    = [ok EXCEPT ![r] = TRUE]

RunEnds(r) ==
  /\ Goes(r, "exit") /\ Cleared(r)
  /\ view' = [view EXCEPT ![r] = BlankView]
  /\ UNCHANGED cmd

(* Every claim is preceded by a forced renewal of the lease.  With nothing *)
(* left to claim the run either ends or, when it failed nothing, nothing   *)
(* is unresolved and the last certificate is out of date, goes on to       *)
(* verify all of Exchange without writing to it.  When the answer of the   *)
(* call is lost the run ends too, with its rows claimed.                   *)
Claim(r) ==
  /\ pc[r] = "claim" /\ HoldsLock(r)
  /\ queue' = ClaimedBy(Swept, r)
  /\ \/ /\ Taken(Swept) # {}
        /\ Goes(r, "pick")
        /\ batch' = [batch EXCEPT ![r] = Taken(Swept)]
        /\ seen' = [seen EXCEPT ![r] = {}]
        /\ StampedByDatabase
        /\ UNCHANGED <<mode, row, view, todo, cmd, tries, ok>>
     \/ /\ RunEnds(r)
        /\ IF queue' = queue THEN UNCHANGED <<fence, ahead>> ELSE StampedByDatabase
     \/ /\ queue' = queue /\ ok[r] /\ ~ \E i \in Rows : Unresolved(i)
        /\ Goes(r, "load")
        /\ seen' = [seen EXCEPT ![r] = {}]
        /\ fence' = [fence EXCEPT ![r] = "held"]
        /\ UNCHANGED <<ahead, mode, batch, row, view, todo, cmd, tries, ok>>
  /\ UNCHANGED <<src, exch, lock, certified, crashes>>

(* A lost lease, a lost Exchange connection, a failed claim: the run ends. *)
Abort(r) ==
  /\ pc[r] \in {"claim", "load", "write", "check", "reread", "certify"}
  /\ row[r] = NoRow
  /\ RunEnds(r)
  /\ UNCHANGED store

(* The order within a batch is free here: the code sorts creations before  *)
(* groups before deletions.                                                *)
Pick(r) ==
  /\ pc[r] = "pick"
  /\ \/ /\ batch[r] = {}
        /\ Goes(r, "claim")
        /\ seen' = [seen EXCEPT ![r] = {}]
        /\ view' = [view EXCEPT ![r] = BlankView]
        /\ UNCHANGED <<batch, row, todo, tries>>
     \/ \E i \in batch[r] :
        /\ Goes(r, IF seen[r] = Entities THEN "write" ELSE "load")
        /\ batch' = [batch EXCEPT ![r] = @ \ {i}]
        /\ row'   = [row EXCEPT ![r] = i]
        /\ todo'  = [todo EXCEPT ![r] = Scope(i)]
        /\ tries' = [tries EXCEPT ![r] = 0]
        /\ UNCHANGED <<view, seen>>
  /\ UNCHANGED <<store, mode, cmd, ok>>

-----------------------------------------------------------------------------
(* Projecting to Exchange. *)

(* The canonical rows come from three tables read one after another, while *)
(* the address book may change in between.                                 *)
LoadOne(r, e) ==
  /\ pc[r] = "load" /\ e \notin seen[r]
  /\ view' = [view EXCEPT ![r][e] = src[e]]
  /\ seen' = [seen EXCEPT ![r] = @ \cup {e}]
  /\ todo' = [todo EXCEPT ![r] = IF row[r] = NoRow THEN Entities ELSE @]
  /\ \/ seen'[r] # Entities /\ pc' = pc
     \/ /\ seen'[r] = Entities
        /\ Goes(r, IF row[r] = NoRow /\ mode[r] = "incremental" THEN "check" ELSE "write")
  /\ UNCHANGED <<store, mode, batch, row, cmd, tries, ok>>

(* An Exchange command is issued; the lease has been renewed if due. *)
Issue(r, e) ==
  /\ pc[r] = "write" /\ e \in todo[r] /\ HoldsLock(r)
  /\ Goes(r, "inflight")
  /\ cmd' = [cmd EXCEPT ![r] = e]
  /\ UNCHANGED <<store, mode, batch, row, view, seen, todo, tries, ok>>

TakesEffect(r) == exch' = [exch EXCEPT ![cmd[r]] = view[r][cmd[r]]]

(* The command takes effect and is confirmed. *)
Land(r) ==
  /\ pc[r] = "inflight"
  /\ TakesEffect(r)
  /\ Goes(r, "write")
  /\ cmd'  = [cmd EXCEPT ![r] = NoEntity]
  /\ todo' = [todo EXCEPT ![r] = @ \ {cmd[r]}]
  /\ UNCHANGED <<src, queue, lock, fence, ahead, certified, crashes,
                 mode, batch, row, view, seen, tries, ok>>

(* The command fails, with or without effect.  A row's reconciliation ends *)
(* there; a full run notes the failure and goes on with the next entity.   *)
CommandFails(r) ==
  /\ pc[r] = "inflight"
  /\ TakesEffect(r) \/ exch' = exch
  /\ Goes(r, IF row[r] = NoRow THEN "write" ELSE "failed")
  /\ cmd'  = [cmd EXCEPT ![r] = NoEntity]
  /\ todo' = [todo EXCEPT ![r] = IF row[r] = NoRow THEN @ \ {cmd[r]} ELSE {}]
  /\ ok'   = [ok EXCEPT ![r] = FALSE]
  /\ UNCHANGED <<src, queue, lock, fence, ahead, certified, crashes,
                 mode, batch, row, view, seen, tries>>

(* The command of a worker that died takes effect after all, or never. *)
LateLanding(r) ==
  /\ pc[r] = "dead" /\ cmd[r] # NoEntity
  /\ TakesEffect(r) \/ exch' = exch
  /\ cmd' = [cmd EXCEPT ![r] = NoEntity]
  /\ view' = [view EXCEPT ![r] = BlankView]
  /\ UNCHANGED <<src, queue, lock, fence, ahead, certified, crashes, pc,
                 mode, batch, row, seen, todo, tries, ok>>

(* A row's reconciliation throws elsewhere: a read fails, the lease is     *)
(* lost.  A load that failed leaves no cached rows behind.                 *)
RowThrows(r) ==
  /\ row[r] # NoRow /\ pc[r] \in {"load", "write"}
  /\ Goes(r, "failed")
  /\ ok'   = [ok EXCEPT ![r] = FALSE]
  /\ todo' = [todo EXCEPT ![r] = {}]
  /\ seen' = [seen EXCEPT ![r] = IF pc[r] = "load" THEN {} ELSE @]
  /\ view' = [view EXCEPT ![r] = IF pc[r] = "load" THEN BlankView ELSE @]
  /\ UNCHANGED <<store, mode, batch, row, cmd, tries>>

(* Every command of the row, or of the full run, was confirmed. *)
Projected(r) ==
  /\ pc[r] = "write" /\ todo[r] = {}
  /\ \/ row[r] # NoRow /\ Goes(r, "rpc") /\ todo' = todo
     \/ row[r] = NoRow /\ Goes(r, "check") /\ todo' = [todo EXCEPT ![r] = Entities]
  /\ UNCHANGED <<store, mode, batch, row, view, seen, cmd, tries, ok>>

-----------------------------------------------------------------------------
(* Settling a row. *)

RowDone(r) == /\ Goes(r, "pick")
              /\ row'   = [row EXCEPT ![r] = NoRow]
              /\ tries' = [tries EXCEPT ![r] = 0]
              /\ UNCHANGED ok

RowFails(r) == /\ Goes(r, "failed")
               /\ ok' = [ok EXCEPT ![r] = FALSE]
               /\ UNCHANGED <<row, tries>>

(* Mutant: one try too many. *)
TryAgainOff(r) == /\ tries[r] <= RpcTries
                  /\ tries' = [tries EXCEPT ![r] = @ + 1]

TryAgain(r) == /\ tries[r] + 1 < RpcTries
               /\ tries' = [tries EXCEPT ![r] = @ + 1]

LastTry(r) == tries[r] + 1 >= RpcTries

(* The row is completed and terminal failures of its entity, which the     *)
(* current state supersedes, are skipped.                                  *)
CompletedIn(i) == [j \in Rows |->
  IF j = i
    THEN [queue[j] EXCEPT !.status = "completed", !.next = "null", !.stale = FALSE]
  ELSE IF Terminal(j) /\ EntityOfRow(j) = EntityOfRow(i)
    THEN [queue[j] EXCEPT !.status = "skipped", !.stale = FALSE]
  ELSE queue[j]]

(* Mutant: ownership without the status. *)
OnceClaimed(r, i) == queue[i].run = r

ClaimedNow(r, i) == Processing(i) /\ queue[i].run = r

(* The completion RPC runs in the database: an owned row in processing is  *)
(* completed, a row this run completed before is confirmed again, anything *)
(* else is refused.                                                        *)
CompleteInDatabase(r) ==
  \/ /\ ClaimedNow(r, row[r])
     /\ queue' = CompletedIn(row[r])
     /\ StampedByDatabase
  \/ ~ClaimedNow(r, row[r]) /\ UNCHANGED <<queue, fence, ahead>>

Confirmed(r) == \/ ClaimedNow(r, row[r])
                \/ queue[row[r]].status = "completed" /\ queue[row[r]].run = r

(* Each try is answered, or its answer or the request itself is lost. *)
CompleteRow(r) ==
  /\ pc[r] = "rpc" /\ HoldsLock(r)
  /\ \/ /\ CompleteInDatabase(r)
        /\ IF Confirmed(r) THEN RowDone(r) ELSE RowFails(r)
     \/ /\ CompleteInDatabase(r) \/ UNCHANGED <<queue, fence, ahead>>
        /\ \/ TryAgain(r) /\ UNCHANGED <<pc, row, ok>>
           \/ LastTry(r) /\ RowFails(r)
  /\ UNCHANGED <<src, exch, lock, certified, crashes,
                 mode, batch, view, seen, todo, cmd>>

(* The lease is found lost before a try of the RPC. *)
CompletionAbandoned(r) ==
  /\ pc[r] = "rpc" /\ ~HoldsLock(r)
  /\ RowFails(r)
  /\ UNCHANGED <<store, mode, batch, view, seen, todo, cmd>>

(* Mutant: a retry time for every failure. *)
AlwaysLater(i) == "later"

LaterOrNever(i) == IF queue[i].attempts >= MaxAttempts THEN "null" ELSE "later"

Failure(i) == [queue[i] EXCEPT !.status = "failed", !.stale = FALSE, !.next = LaterOrNever(i)]

(* The failed row is PATCHed, if it is still this run's; the PATCH may be  *)
(* lost, which leaves the row in processing until its claim expires.       *)
PersistFailure(r) ==
  LET i == row[r] IN
  /\ pc[r] = "failed"
  /\ \/ /\ ClaimedNow(r, i)
        /\ queue' = [queue EXCEPT ![i] = Failure(i)]
        /\ StampedByWorker
     \/ UNCHANGED <<queue, fence, ahead>>
  /\ RowDone(r)
  /\ UNCHANGED <<src, exch, lock, certified, crashes,
                 mode, batch, view, seen, todo, cmd>>

-----------------------------------------------------------------------------
(* Verifying and certifying. *)

(* One entity fewer to go in this phase, or on to the next phase. *)
Compared(r, e, place, rest) ==
  \/ todo[r] # {e} /\ todo' = [todo EXCEPT ![r] = @ \ {e}] /\ pc' = pc
  \/ todo[r] = {e} /\ todo' = [todo EXCEPT ![r] = rest] /\ Goes(r, place)

(* The final snapshot of Exchange, compared with the cached rows.  A       *)
(* mismatch rules out a certificate, so the run ends.                      *)
Check(r, e) ==
  /\ pc[r] = "check" /\ e \in todo[r]
  /\ \/ /\ exch[e] = view[r][e]
        /\ Compared(r, e, "reread", Entities)
        /\ UNCHANGED <<mode, batch, row, view, seen, cmd, tries, ok>>
     \/ exch[e] # view[r][e] /\ RunEnds(r)
  /\ UNCHANGED store

(* The address book is read again and compared, then the fence. *)
Reread(r, e) ==
  /\ pc[r] = "reread" /\ e \in todo[r]
  /\ \/ /\ src[e] = view[r][e]
        /\ todo[r] = {e} => ok[r] /\ fence[r] = "held"
        /\ Compared(r, e, "certify", {})
        /\ UNCHANGED <<mode, batch, row, view, seen, cmd, tries, ok>>
     \/ /\ \/ src[e] # view[r][e]
           \/ todo[r] = {e} /\ ~(ok[r] /\ fence[r] = "held")
        /\ RunEnds(r)
  /\ UNCHANGED store

(* Mutant: rows that nobody claimed yet do not count. *)
SettledSoFar == \A i \in Rows :
  /\ ~Processing(i)
  /\ queue[i].status = "failed" => Terminal(i)

Settled == \A i \in Rows :
  /\ ~Pending(i) /\ ~Processing(i)
  /\ queue[i].status = "failed" => Terminal(i)

NothingFailed == \A i \in Rows : queue[i].status # "failed"

(* The certificate goes to a run with a live lease of its own mode. *)
OwnsLease(r) == HoldsLock(r) /\ lock.mode = mode[r]

(* Under locks on the source tables and the queue: besides, the fence has  *)
(* not moved and the queue is settled.                                     *)
MayCertify(r) ==
  /\ OwnsLease(r)
  /\ mode[r] # "full" => NothingFailed
  /\ fence[r] = "held" /\ Settled

SkippedTerminal == [i \in Rows |->
  IF Terminal(i) THEN [queue[i] EXCEPT !.status = "skipped"] ELSE queue[i]]

CertifyInDatabase(r) ==
  \/ /\ r \notin certified /\ MayCertify(r)
     /\ certified' = certified \cup {r}
     /\ queue' = SkippedTerminal
     /\ IF queue' = queue THEN UNCHANGED <<fence, ahead>> ELSE StampedByDatabase
  \/ /\ r \in certified \/ ~MayCertify(r)
     /\ UNCHANGED <<queue, fence, ahead, certified>>

Certify(r) ==
  /\ pc[r] = "certify"
  /\ \/ CertifyInDatabase(r) /\ RunEnds(r)
     \/ /\ CertifyInDatabase(r) \/ UNCHANGED <<queue, fence, ahead, certified>>
        /\ \/ /\ TryAgain(r)
              /\ UNCHANGED <<pc, mode, batch, row, view, seen, todo, cmd, ok>>
           \/ LastTry(r) /\ RunEnds(r)
  /\ UNCHANGED <<src, exch, lock, crashes>>

-----------------------------------------------------------------------------
(* The end of a run. *)

(* The finally block releases the lease, unless the call is lost. *)
Release(r) ==
  /\ pc[r] = "exit"
  /\ Goes(r, "over")
  /\ Released(r) \/ UNCHANGED lock
  /\ UNCHANGED <<src, exch, queue, fence, ahead, certified, crashes, progress>>

(* The sandbox dies; a command it issued may still take effect. *)
Crash(r) ==
  /\ pc[r] \in Working /\ crashes < MaxCrashes
  /\ crashes' = crashes + 1
  /\ Goes(r, "dead") /\ Cleared(r)
  /\ view' = [view EXCEPT ![r] = IF cmd[r] = NoEntity THEN BlankView ELSE @]
  /\ UNCHANGED <<src, exch, queue, lock, fence, ahead, certified, cmd>>

(* Run ids are fresh for every run.  The id of a run that ended for good   *)
(* is forgotten and stands for the next fresh one; rows it leaves behind   *)
(* are those of no run that lives.                                         *)
Recycle(r) ==
  /\ pc[r] \in {"dead", "over"} /\ cmd[r] = NoEntity /\ ~HoldsLock(r)
  /\ Goes(r, "idle")
  /\ Released(r)
  /\ queue' = [i \in Rows |-> IF queue[i].run = r THEN [queue[i] EXCEPT !.run = NoRun]
                                                  ELSE queue[i]]
  /\ certified' = certified \ {r}
  /\ UNCHANGED <<src, exch, fence, ahead, crashes, progress>>

-----------------------------------------------------------------------------
Edit     == \E k \in Keys, a \in Actors : SourceChange(k, a)
Deadline == LeaseRunsOut \/ \E i \in Rows : GoesStale(i) \/ RetryFallsDue(i)

Begin(r) == \/ Reserve(r) \/ ReserveRejected(r) \/ NeverStarts(r) \/ Denied(r)
            \/ \E m \in {"incremental", "full"} : Start(r, m) \/ StartUnanswered(r, m)

Project(r) == \/ Claim(r) \/ Pick(r) \/ Land(r) \/ CommandFails(r) \/ LateLanding(r)
              \/ Projected(r) \/ RowThrows(r) \/ Abort(r)
              \/ \E e \in Entities : LoadOne(r, e) \/ Issue(r, e)

Settle(r) == CompleteRow(r) \/ CompletionAbandoned(r) \/ PersistFailure(r)

Verify(r) == Certify(r) \/ \E e \in Entities : Check(r, e) \/ Reread(r, e)

Finish(r) == Release(r) \/ Crash(r) \/ Recycle(r)

Next == \/ Edit \/ Deadline
        \/ \E r \in Runs : Begin(r) \/ Project(r) \/ Settle(r) \/ Verify(r) \/ Finish(r)

Spec == Init /\ [][Next]_vars

-----------------------------------------------------------------------------
(* Safety. *)

(* Whatever Exchange shows out of date is still spoken for by an           *)
(* unresolved queue row: no coalescing, retry, expiry, supersession or     *)
(* certificate drops an obligation (complete_verified..., certify_full...).*)
Promise == \A e \in Entities : exch[e] # src[e] => e \in Owed

(* Two rows of one entity_key are never processed together, although rows  *)
(* of one key pile up, one per actor and claim.                            *)
ExclusiveKey == \A i, j \in Rows :
  Processing(i) /\ Processing(j) /\ queue[i].key = queue[j].key => i = j

(* A row that used up its claims is terminal: no retry time survives. *)
RetryBound == \A i \in Rows :
  queue[i].status = "failed" /\ queue[i].attempts = MaxAttempts => Terminal(i)

(* Commands of two runs are never in flight together. *)
MutationLeaseExclusive == \A r, s \in Runs :
  cmd[r] # NoEntity /\ cmd[s] # NoEntity => r = s

(* A settled row is never reopened or settled differently by a late PATCH, *)
(* a replayed completion or the sweep of a later claim.                    *)
Finality == [][\A i \in Rows : queue[i].status \in {"completed", "skipped"}
                 => queue'[i].status = queue[i].status]_vars

(* At the moment a certificate is committed Exchange equals the address    *)
(* book, entity by entity.                                                 *)
CertifiedExact == [][~(certified' \subseteq certified) => exch' = src']_vars

-----------------------------------------------------------------------------
(* The inductive invariant behind Promise and CertifiedExact, under the    *)
(* assumption LeaseOutlivesStalls.                                         *)

PendingFor(e) == \E i \in Rows : Pending(i) /\ EntityOfRow(i) = e

(* A row is pending only before its first claim. *)
FreshPending == \A i \in Rows : Pending(i) => queue[i].attempts = 0

(* A run that works, or left a command behind, holds the lease. *)
Quiet(r)     == pc[r] \notin Working /\ cmd[r] = NoEntity
LeaseHeld(r) == ~Quiet(r) => HoldsLock(r)

(* How a run's bookkeeping goes with the place it has reached. *)
Shape(r) ==
  /\ cmd[r] # NoEntity => pc[r] \in {"inflight", "dead"}
  /\ pc[r] = "inflight" => cmd[r] \in todo[r]
  /\ pc[r] \notin Working \ {"exit"} => seen[r] = {} /\ row[r] = NoRow
  /\ pc[r] \in {"claim", "pick"} => row[r] = NoRow
  /\ pc[r] \in {"rpc", "failed"} => row[r] # NoRow
  /\ pc[r] \in {"write", "inflight", "rpc", "check", "reread", "certify"}
       => seen[r] = Entities

(* The rows a run has at hand exist and have been claimed before. *)
RowsAtHand(r) == \A i \in Rows :
  i \in batch[r] \/ i = row[r] => queue[i].status \notin {"absent", "pending"}

(* What a run read and the address book has moved past is pending again:   *)
(* only the lease's holder, by claiming, could take it off the queue.      *)
ViewLag(r) == \A e \in Entities :
  e \in seen[r] \/ e = cmd[r] => view[r][e] = src[e] \/ PendingFor(e)

(* Exchange shows what the run read of the row's entity, once written. *)
Written(r) == row[r] # NoRow =>
  LET e == EntityOfRow(row[r]) IN
  /\ pc[r] = "load" => e \in todo[r]
  /\ pc[r] \in {"write", "inflight"} => e \in todo[r] \/ exch[e] = view[r][e]
  /\ pc[r] = "rpc" => exch[e] = view[r][e]

(* Exchange shows what the run read of every entity it has checked. *)
Checked(r) == \A e \in Entities :
  pc[r] \in {"reread", "certify"} \/ (pc[r] = "check" /\ e \notin todo[r])
    => exch[e] = view[r][e]

RunInv(r) == /\ LeaseHeld(r) /\ Shape(r) /\ RowsAtHand(r)
             /\ ViewLag(r) /\ Written(r) /\ Checked(r)

IInv == TypeOK /\ FreshPending /\ Promise /\ \A r \in Runs : RunInv(r)

-----------------------------------------------------------------------------
(* Implementation of the abstract mirror: Exchange trails the address book,*)
(* and what is owed is what unresolved rows speak for.                     *)
Mirror == INSTANCE TrackedMirror WITH owed <- Owed

(* Every step of the queue, its workers and its certificates is a step of  *)
(* the abstract mirror or leaves it alone.                                 *)
ImplementsMirror == Mirror!Spec

-----------------------------------------------------------------------------
(* Liveness. *)

(* Azure Automation starts scheduled runs, under fresh ids, and gets        *)
(* through to the database now and again; a run that is alive takes its    *)
(* next step; clocks advance.                                              *)
WorkerStep(r) == \/ Project(r) \/ Settle(r) \/ Verify(r) \/ Release(r)

Fairness ==
  /\ \A r \in Runs : WF_vars(WorkerStep(r)) /\ WF_vars(Recycle(r))
                     /\ WF_vars(ReserveRejected(r) \/ NeverStarts(r) \/ Denied(r)
                                \/ Start(r, "incremental"))
  /\ SF_vars(\E r \in Runs : Start(r, "incremental"))
  /\ SF_vars(\E r \in Runs : Claim(r))
  /\ WF_vars(LeaseRunsOut)
  /\ \A i \in Rows : WF_vars(GoesStale(i)) /\ WF_vars(RetryFallsDue(i))

FairSpec == Spec /\ Fairness

(* Every queued change is eventually reconciled, superseded or reported as *)
(* terminally failed, although claims expire, answers are lost and workers *)
(* die (claim_outlook_exchange_sync_queue: "Always expire abandoned        *)
(* leases").                                                               *)
BacklogDrains ==
  \A i \in Rows : Unresolved(i) ~> (~Unresolved(i) \/ Terminal(i))

(* The mutation lease never stays taken: a dead worker, a lost release or  *)
(* a reservation without a job only delays the next run.                   *)
LeaseComesFree == []<>(~lock.live)
=============================================================================
