-------------------------- MODULE EventCalendarSync --------------------------
(***************************************************************************)
(* The outbox that carries meetings of the event calendar to Google: the   *)
(* trigger that queues a job for every changed meeting, the claim, and the *)
(* route (called by the page and by a schedule every minute) that rewrites *)
(* the Google records of an event until they match the calendar.           *)
(*                                                                         *)
(* An event is abstracted to the content its Google record must have, or   *)
(* Absent; Google to the records that carry the event's id.                *)
(***************************************************************************)
EXTENDS Naturals, FiniteSets

CONSTANTS
  Events,      \* event ids
  Contents,    \* what a meeting's record can say
  Absent,      \* not in the calendar, or not a meeting; no Google record
  Workers,     \* calls of the route
  NoWorker,    \* an unlocked job
  MaxRecords,  \* bound: Google records of an event
  MaxEdits,    \* bound: edits of an event
  MaxKills,    \* bound: killed workers
  MaxTries,    \* passes of reconcileUntilCanonical (8 in the code)
  ClaimLimit,  \* jobs per claim (12 in the code)
  WorkersEndFirst  \* TRUE: a worker is over before its five-minute lock is

Records  == 1..MaxRecords   \* Google's ids, as the code sorts them
Calendar == Contents \cup {Absent}

ASSUME SyncAssumption ==
  /\ Absent \notin Contents /\ NoWorker \notin Workers
  /\ MaxRecords \in Nat /\ MaxEdits \in Nat /\ MaxKills \in Nat
  /\ MaxTries \in Nat \ {0} /\ ClaimLimit \in Nat \ {0}
  /\ WorkersEndFirst \in BOOLEAN

VARIABLES
  cal,     \* the event in office_calendar_store
  edits,   \* edits so far; the newest requested_at is the one after them
  job,     \* event_calendar_google_sync_jobs
  google,  \* content of each Google record of the event, Absent for none
  kills,   \* killed workers so far
  \* The route's state, by worker.
  pc,      \* where it is
  took,    \* requested_at of the claimed jobs not yet settled, 0 for none
  at,      \* the event it reconciles (an element of Events, kept when idle)
  before,  \* the calendar as it read it at the start of the pass
  listed,  \* records it found and has not dealt with
  tries,   \* passes so far
  late     \* the Google request a killed worker left under way

stored  == <<cal, edits, job, kills>>
reading == <<before, listed>>
local   == <<took, at, before, listed, tries, late>>
vars    == <<stored, google, pc, local>>

-----------------------------------------------------------------------------
Generations == 0..(MaxEdits + 1)

Job == [queued : BOOLEAN, requested : Generations, owner : Workers \cup {NoWorker},
        live : BOOLEAN, due : BOOLEAN]

GooglePhase == {"clear", "write", "dedupe", "refresh"}

PC == GooglePhase \cup {"idle", "read", "list", "relist", "reread", "acknowledge", "fail", "dead"}

TypeOK ==
  /\ cal \in [Events -> Calendar]
  /\ edits \in [Events -> 0..MaxEdits]
  /\ job \in [Events -> Job]
  /\ google \in [Events -> [Records -> Calendar]]
  /\ kills \in 0..MaxKills
  /\ pc \in [Workers -> PC]
  /\ took \in [Workers -> [Events -> Generations]]
  /\ at \in [Workers -> Events]
  /\ before \in [Workers -> Calendar]
  /\ listed \in [Workers -> SUBSET Records]
  /\ tries \in [Workers -> 0..(MaxTries - 1)]
  /\ late \in [Workers -> GooglePhase \cup {"none"}]

NothingTaken == [e \in Events |-> 0]

(* The migration queues every meeting and every event known to be deleted, *)
(* whatever earlier versions of the sync have left in Google.              *)
Init ==
  /\ cal \in [Events -> Calendar]
  /\ edits = [e \in Events |-> 0]
  /\ job = [e \in Events |-> [queued |-> TRUE, requested |-> 1, owner |-> NoWorker,
                              live |-> FALSE, due |-> TRUE]]
  /\ google \in [Events -> [Records -> Calendar]]
  /\ kills = 0
  /\ pc = [w \in Workers |-> "idle"]
  /\ took = [w \in Workers |-> NothingTaken]
  /\ at \in [Workers -> Events]
  /\ before = [w \in Workers |-> Absent]
  /\ listed = [w \in Workers |-> {}]
  /\ tries = [w \in Workers |-> 0]
  /\ late = [w \in Workers |-> "none"]

Found(e) == {i \in Records : google[e][i] # Absent}

Goes(w, place) == pc' = [pc EXCEPT ![w] = place]

(* A worker is at work on the jobs it has claimed, and a killed one on the *)
(* request it left under way.                                              *)
AtWork(w, e) == took[w][e] # 0 \/ (late[w] # "none" /\ at[w] = e)

-----------------------------------------------------------------------------
(* Editing. *)

(* Mutant: a newer generation drops the lock of the older one. *)
RequeuedUnlocked(e) ==
  [queued |-> TRUE, requested |-> edits[e] + 2, owner |-> NoWorker, live |-> FALSE, due |-> TRUE]

(* The trigger queues the new generation and leaves a live lock alone. *)
Requeued(e) ==
  [queued |-> TRUE, requested |-> edits[e] + 2,
   owner |-> IF job[e].live THEN job[e].owner ELSE NoWorker, live |-> job[e].live, due |-> TRUE]

Edit(e, v) ==
  /\ v # cal[e] /\ edits[e] < MaxEdits
  /\ cal' = [cal EXCEPT ![e] = v]
  /\ edits' = [edits EXCEPT ![e] = @ + 1]
  /\ job' = [job EXCEPT ![e] = Requeued(e)]
  /\ UNCHANGED <<google, kills, pc, local>>

-----------------------------------------------------------------------------
(* Deadlines. *)

RetryFallsDue(e) ==
  /\ ~job[e].due
  /\ job' = [job EXCEPT ![e].due = TRUE]
  /\ UNCHANGED <<cal, edits, google, kills, pc, local>>

(* locked_until is reached: five minutes after a claim by a route that is  *)
(* killed after one (maxDuration).                                         *)
LockExpires(e) ==
  /\ job[e].live
  /\ WorkersEndFirst => ~AtWork(job[e].owner, e)
  /\ job' = [job EXCEPT ![e].live = FALSE]
  /\ UNCHANGED <<cal, edits, google, kills, pc, local>>

-----------------------------------------------------------------------------
(* Claiming. *)

(* Mutant: a lock that has run out still bars the claim. *)
EligibleUnowned == {e \in Events : job[e].queued /\ job[e].due /\ job[e].owner = NoWorker}

Eligible == {e \in Events : job[e].queued /\ job[e].due /\ ~job[e].live}

(* The page names the events, the schedule takes what there is; rows locked *)
(* by another transaction are skipped.  The answer may be lost, or no       *)
(* Google client be had: the jobs stay locked.                             *)
Claim(w, S) ==
  /\ pc[w] = "idle"
  /\ S # {} /\ S \subseteq Eligible /\ Cardinality(S) <= ClaimLimit
  /\ job' = [e \in Events |-> IF e \in S THEN [job[e] EXCEPT !.owner = w, !.live = TRUE]
                                         ELSE job[e]]
  /\ \/ /\ took' = [took EXCEPT ![w] = [e \in Events |-> IF e \in S THEN job[e].requested ELSE 0]]
        /\ at' \in {[at EXCEPT ![w] = e] : e \in S}
        /\ Goes(w, "read")
     \/ UNCHANGED <<took, at, pc>>
  /\ UNCHANGED <<cal, edits, google, kills, before, listed, tries, late>>

-----------------------------------------------------------------------------
(* One pass: read the calendar, rewrite Google, read the calendar again.   *)

(* Mutant: as many passes as errors. *)
TryAgainAlways(w) == tries' = [tries EXCEPT ![w] = @ + 1] /\ Goes(w, "read")

TryAgain(w) ==
  \/ /\ tries[w] + 1 < MaxTries
     /\ tries' = [tries EXCEPT ![w] = @ + 1]
     /\ Goes(w, "read")
  \/ /\ tries[w] + 1 = MaxTries
     /\ Goes(w, "fail")
     /\ UNCHANGED tries

Read(w) ==
  /\ pc[w] = "read"
  /\ before' = [before EXCEPT ![w] = cal[at[w]]]
  /\ Goes(w, "list")
  /\ UNCHANGED <<stored, google, took, at, listed, tries, late>>

(* An event that is no meeting loses its records, a meeting gets one. *)
List(w) ==
  /\ pc[w] = "list"
  /\ listed' = [listed EXCEPT ![w] = Found(at[w])]
  /\ Goes(w, IF before[w] # Absent THEN "write"
             ELSE IF Found(at[w]) = {} THEN "reread" ELSE "clear")
  /\ UNCHANGED <<stored, google, took, at, before, tries, late>>

(* Mutant: the other records stay. *)
AfterWriteKeepsAll(S) == IF S = {} THEN "reread" ELSE "refresh"

(* List again after the write, keep the first record, remove the others.   *)
AfterWrite(S) == IF S = {} THEN "reread" ELSE IF Cardinality(S) = 1 THEN "refresh" ELSE "dedupe"

Relist(w) ==
  /\ pc[w] = "relist"
  /\ listed' = [listed EXCEPT ![w] = Found(at[w])]
  /\ Goes(w, AfterWrite(Found(at[w])))
  /\ UNCHANGED <<stored, google, took, at, before, tries, late>>

First(S) == {i \in S : \A j \in S : i <= j}

(* Records the request of a phase is about. *)
Targets(w, phase) ==
  CASE phase = "clear"   -> First(listed[w])
    [] phase = "dedupe"  -> First(listed[w] \ First(listed[w]))
    [] phase = "refresh" -> First(listed[w])
    [] phase = "write"   -> IF listed[w] # {} THEN First(listed[w])
                                              ELSE Records \ Found(at[w])

Inserts(w, phase) == phase = "write" /\ listed[w] = {}

(* The request takes effect; Google refuses one about a record that is gone.*)
TakesEffect(w, phase, i) ==
  /\ i \in Targets(w, phase)
  /\ i \in Found(at[w]) \/ Inserts(w, phase)
  /\ google' = [google EXCEPT ![at[w]][i] = IF phase \in {"clear", "dedupe"} THEN Absent
                                                                            ELSE before[w]]

(* Where a confirmed request leads. *)
Onward(w, i) ==
  CASE pc[w] = "clear"   -> IF listed[w] = {i} THEN "reread" ELSE "clear"
    [] pc[w] = "write"   -> "relist"
    [] pc[w] = "dedupe"  -> AfterWrite(listed[w] \ {i})
    [] pc[w] = "refresh" -> "reread"

Rewrite(w) ==
  /\ pc[w] \in GooglePhase
  /\ \E i \in Records :
       /\ TakesEffect(w, pc[w], i)
       /\ Goes(w, Onward(w, i))
       /\ listed' = [listed EXCEPT ![w] = @ \ {i}]
  /\ UNCHANGED <<stored, took, at, before, tries, late>>

(* A read or a request fails; a request may have had its effect. *)
PassFails(w) ==
  /\ pc[w] \in GooglePhase \cup {"read", "list", "relist", "reread"}
  /\ \/ pc[w] \in GooglePhase /\ \E i \in Records : TakesEffect(w, pc[w], i)
     \/ google' = google
  /\ TryAgain(w)
  /\ UNCHANGED <<stored, took, at, before, listed, late>>

(* Mutant: the calendar is not read again. *)
NoSecondLook(w) == TRUE

Unchanged(w) == cal[at[w]] = before[w]

(* The pass counts only if the calendar still says what it said. *)
Reread(w) ==
  /\ pc[w] = "reread"
  /\ \/ Unchanged(w) /\ Goes(w, "acknowledge") /\ UNCHANGED tries
     \/ ~Unchanged(w) /\ TryAgain(w)
  /\ UNCHANGED <<stored, google, took, at, before, listed, late>>

-----------------------------------------------------------------------------
(* Settling a job. *)

(* On to the next claimed job, if there is one. *)
NextJob(w) ==
  LET rest == {e \in Events : took[w][e] # 0 /\ e # at[w]} IN
  /\ took' = [took EXCEPT ![w][at[w]] = 0]
  /\ tries' = [tries EXCEPT ![w] = 0]
  /\ before' = [before EXCEPT ![w] = Absent]
  /\ listed' = [listed EXCEPT ![w] = {}]
  /\ \/ rest = {} /\ Goes(w, "idle") /\ at' = at
     \/ Goes(w, "read") /\ at' \in {[at EXCEPT ![w] = e] : e \in rest}
  /\ UNCHANGED late

(* Mutant: the job is removed whatever has been queued meanwhile. *)
AnyGeneration(w, e) == job[e].queued

SameGeneration(w, e) == job[e].queued /\ job[e].requested = took[w][e]

Removed(e) == job' = [job EXCEPT ![e] = [queued |-> FALSE, requested |-> 0, owner |-> NoWorker,
                                         live |-> FALSE, due |-> TRUE]]

(* releaseSupersededGeneration; its call may be lost. *)
ReleasedOrNot(w, e) ==
  \/ /\ job[e].owner = w
     /\ job' = [job EXCEPT ![e].owner = NoWorker, ![e].live = FALSE]
  \/ job' = job

(* The job is removed if it is still the generation that was claimed; a    *)
(* newer one is released.  An error counts as a failure of the job.        *)
Acknowledge(w) ==
  /\ pc[w] = "acknowledge"
  /\ \/ /\ \/ SameGeneration(w, at[w]) /\ Removed(at[w])
           \/ ~SameGeneration(w, at[w]) /\ ReleasedOrNot(w, at[w])
        /\ NextJob(w)
     \/ /\ \/ SameGeneration(w, at[w]) /\ Removed(at[w])
           \/ job' = job
        /\ Goes(w, "fail")
        /\ UNCHANGED local
  /\ UNCHANGED <<cal, edits, google, kills>>

(* A failed job is put off, or released if that cannot be confirmed. *)
Fail(w) ==
  /\ pc[w] = "fail"
  /\ \/ /\ SameGeneration(w, at[w])
        /\ job' = [job EXCEPT ![at[w]].due = FALSE, ![at[w]].owner = NoWorker,
                              ![at[w]].live = FALSE]
     \/ ReleasedOrNot(w, at[w])
  /\ NextJob(w)
  /\ UNCHANGED <<cal, edits, google, kills>>

-----------------------------------------------------------------------------
(* A worker that reaches its time limit is killed; the Google request it   *)
(* has under way may still take effect.                                    *)
Kill(w) ==
  /\ pc[w] \notin {"idle", "dead"} /\ kills < MaxKills
  /\ kills' = kills + 1
  /\ Goes(w, "dead")
  /\ took' = [took EXCEPT ![w] = NothingTaken]
  /\ tries' = [tries EXCEPT ![w] = 0]
  /\ late' = [late EXCEPT ![w] = IF pc[w] \in GooglePhase THEN pc[w] ELSE "none"]
  /\ UNCHANGED <<cal, edits, job, google, at, before, listed>>

(* The request takes effect or not, and the worker is forgotten. *)
Buried(w) ==
  /\ pc[w] = "dead"
  /\ \/ late[w] # "none" /\ \E i \in Records : TakesEffect(w, late[w], i)
     \/ google' = google
  /\ Goes(w, "idle")
  /\ late' = [late EXCEPT ![w] = "none"]
  /\ before' = [before EXCEPT ![w] = Absent]
  /\ listed' = [listed EXCEPT ![w] = {}]
  /\ UNCHANGED <<stored, took, at, tries>>

-----------------------------------------------------------------------------
Deadline(e) == RetryFallsDue(e) \/ LockExpires(e)

Pass(w) == Read(w) \/ List(w) \/ Relist(w) \/ Rewrite(w) \/ PassFails(w) \/ Reread(w)

Settle(w) == Acknowledge(w) \/ Fail(w)

Next ==
  \/ \E e \in Events : Deadline(e) \/ \E v \in Calendar : Edit(e, v)
  \/ \E w \in Workers : \/ \E S \in SUBSET Events : Claim(w, S)
                        \/ Pass(w) \/ Settle(w) \/ Kill(w) \/ Buried(w)

Spec == Init /\ [][Next]_vars

-----------------------------------------------------------------------------
(* Safety. *)

(* One record that says what the calendar says, none for an absent event. *)
Shows(e) == IF cal[e] = Absent THEN Found(e) = {}
            ELSE \E i \in Records : Found(e) = {i} /\ google[e][i] = cal[e]

(* An event without a job is shown right: no acknowledgement, failure,     *)
(* kill or late request leaves Google behind, doubled or resurrected with  *)
(* nothing queued to repair it.                                            *)
Converged == \A e \in Events : ~job[e].queued => Shows(e)

(* w rewrites, or has still to rewrite, the Google records of e. *)
Rewrites(w, e) == AtWork(w, e) /\ ~(at[w] = e /\ pc[w] \in {"acknowledge", "fail"})

(* "A second worker cannot overlap it before the lease is released" (the   *)
(* migration that serialised the jobs), though edits queue the event anew. *)
OneWorker == \A e \in Events : \A w, x \in Workers :
  Rewrites(w, e) /\ Rewrites(x, e) => w = x

-----------------------------------------------------------------------------
(* Liveness. *)

(* The schedule calls the route every minute and takes every job that is   *)
(* due now and again; of each kind of request one that is tried for ever   *)
(* succeeds now and again; a route runs on or is killed; a killed worker's *)
(* request is over at some time; clocks advance.                           *)
Fairness ==
  /\ \A e \in Events :
       /\ WF_vars(Deadline(e))
       /\ SF_vars(\E w \in Workers, S \in SUBSET Events :
                    e \in S /\ Claim(w, S) /\ pc'[w] = "read")
  /\ \A w \in Workers : WF_vars(Pass(w) \/ Settle(w)) /\ WF_vars(Buried(w))
  /\ SF_vars(\E w \in Workers : Read(w)) /\ SF_vars(\E w \in Workers : List(w))
  /\ SF_vars(\E w \in Workers : Relist(w)) /\ SF_vars(\E w \in Workers : Reread(w))
  /\ \A phase \in GooglePhase : SF_vars(\E w \in Workers : pc[w] = phase /\ Rewrite(w))
  /\ SF_vars(\E w \in Workers : Acknowledge(w) /\ pc'[w] # "fail")

FairSpec == Spec /\ Fairness

(* Once nobody edits an event any more, Google comes to show it, and its   *)
(* job is gone.                                                            *)
ComesToShow == \A e \in Events : <>[](~job[e].queued /\ Shows(e))
=============================================================================
