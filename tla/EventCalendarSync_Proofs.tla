----------------------- MODULE EventCalendarSync_Proofs -----------------------
(***************************************************************************)
(* Proofs about EventCalendarSync for any number of events, contents,      *)
(* workers, Google records and bounds: its types and, if a worker is over  *)
(* before its lock is, that no two of them rewrite one event, that an      *)
(* event without a job is shown right, and that Google is rewritten under  *)
(* a lock only.                                                            *)
(***************************************************************************)
EXTENDS EventCalendarSync, FiniteSetTheorems, TLAPS

-----------------------------------------------------------------------------
(* The strengthening. *)

Shape(w) ==
  /\ pc[w] \in {"idle", "dead"} => \A e \in Events : took[w][e] = 0
  /\ pc[w] \notin {"idle", "dead"} => took[w][at[w]] # 0
  /\ late[w] # "none" => pc[w] = "dead"

(* The newest generation is the one that is queued. *)
Dated(e) ==
  /\ job[e].queued => job[e].requested = edits[e] + 1
  /\ \A w \in Workers : took[w][e] <= edits[e] + 1

Holds(w, e) == job[e].queued /\ job[e].live /\ job[e].owner = w

(* w has nothing left to do about e but to say so. *)
Settled(w, e) == at[w] = e /\ pc[w] = "fail" /\ ~SameGeneration(w, e)

Held(w, e) == AtWork(w, e) => Holds(w, e) \/ Settled(w, e)

ShownAs(e, v) == IF v = Absent THEN Found(e) = {}
                 ELSE \E i \in Records : Found(e) = {i} /\ google[e][i] = v

(* How far a pass has brought Google towards what it read. *)
Along(w) ==
  /\ pc[w] = "clear" => before[w] = Absent /\ listed[w] = Found(at[w]) /\ listed[w] # {}
  /\ pc[w] \in {"write", "relist", "dedupe", "refresh"} => before[w] # Absent
  /\ pc[w] \in {"write", "dedupe"} => listed[w] = Found(at[w])
  /\ pc[w] = "relist" => Found(at[w]) # {}
  /\ pc[w] = "refresh" => \E i \in Records : listed[w] = {i} /\ Found(at[w]) = {i}
  /\ pc[w] \in {"reread", "acknowledge"} => ShownAs(at[w], before[w])
  /\ pc[w] = "acknowledge" /\ took[w][at[w]] = edits[at[w]] + 1 => before[w] = cal[at[w]]

IInv ==
  /\ TypeOK
  /\ \A w \in Workers : Shape(w) /\ Along(w)
  /\ \A e \in Events : Dated(e)
  /\ \A w \in Workers, e \in Events : Held(w, e)
  /\ Converged

-----------------------------------------------------------------------------
(* Types. *)

StoreOK == /\ cal \in [Events -> Calendar]
           /\ edits \in [Events -> 0..MaxEdits]
           /\ job \in [Events -> Job]
           /\ google \in [Events -> [Records -> Calendar]]
           /\ kills \in 0..MaxKills

WorkerOK == /\ pc \in [Workers -> PC]
            /\ took \in [Workers -> [Events -> Generations]]
            /\ at \in [Workers -> Events]
            /\ before \in [Workers -> Calendar]
            /\ listed \in [Workers -> SUBSET Records]
            /\ tries \in [Workers -> 0..(MaxTries - 1)]
            /\ late \in [Workers -> GooglePhase \cup {"none"}]

LEMMA TypeSplit == /\ TypeOK <=> StoreOK /\ WorkerOK
                   /\ TypeOK' <=> StoreOK' /\ WorkerOK'
  BY DEF TypeOK, StoreOK, WorkerOK

LEMMA PCIs == {"idle", "read", "list", "relist", "reread", "acknowledge", "fail", "dead",
               "clear", "write", "dedupe", "refresh"} = PC
              /\ GooglePhase = {"clear", "write", "dedupe", "refresh"}
  BY DEF PC, GooglePhase

LEMMA JobType ==
  ASSUME NEW j \in Job, NEW o \in Workers \cup {NoWorker}, NEW b \in BOOLEAN
  PROVE  /\ j.queued \in BOOLEAN /\ j.requested \in Generations
         /\ j.owner \in Workers \cup {NoWorker} /\ j.live \in BOOLEAN /\ j.due \in BOOLEAN
         /\ [j EXCEPT !.due = b] \in Job /\ [j EXCEPT !.live = b] \in Job
         /\ [j EXCEPT !.owner = o, !.live = b] \in Job
         /\ [j EXCEPT !.due = b, !.owner = o, !.live = b] \in Job
<1>1. /\ j.queued \in BOOLEAN /\ j.requested \in Generations
      /\ j.owner \in Workers \cup {NoWorker} /\ j.live \in BOOLEAN /\ j.due \in BOOLEAN
  BY DEF Job
<1>2. [j EXCEPT !.due = b] \in Job /\ [j EXCEPT !.live = b] \in Job
  BY DEF Job
<1>3. [j EXCEPT !.owner = o, !.live = b] \in Job
  BY DEF Job
<1>4. [j EXCEPT !.due = b, !.owner = o, !.live = b] \in Job
  BY DEF Job
<1>5. QED
  BY <1>1, <1>2, <1>3, <1>4

LEMMA GenerationsAre == /\ 0 \in Generations /\ 1 \in Generations
                        /\ \A n \in 0..MaxEdits : n + 1 \in Generations
                        /\ NothingTaken \in [Events -> Generations]
  BY SyncAssumption DEF Generations, NothingTaken

LEMMA InitType == Init => TypeOK
<1> SUFFICES ASSUME Init PROVE TypeOK
  OBVIOUS
<1>1. [queued |-> TRUE, requested |-> 1, owner |-> NoWorker, live |-> FALSE, due |-> TRUE] \in Job
  BY GenerationsAre DEF Job
<1>2. StoreOK
  BY <1>1, SyncAssumption DEF Init, StoreOK
<1>3. WorkerOK
  BY GenerationsAre, PCIs, SyncAssumption DEF Init, WorkerOK, Calendar
<1>4. QED
  BY <1>2, <1>3, TypeSplit

(* The clock and the editors. *)
Outer == \E e \in Events : Deadline(e) \/ \E v \in Calendar : Edit(e, v)

LEMMA OuterType == ASSUME TypeOK, Outer PROVE TypeOK'
<1>1. StoreOK /\ WorkerOK
  BY TypeSplit
<1>2. ASSUME NEW e \in Events, Deadline(e) PROVE TypeOK'
  <2>1. /\ [job[e] EXCEPT !.due = TRUE] \in Job
        /\ [job[e] EXCEPT !.live = FALSE] \in Job
    BY <1>1, JobType DEF StoreOK
  <2>2. job' \in {[job EXCEPT ![e] = [job[e] EXCEPT !.due = TRUE]],
                  [job EXCEPT ![e] = [job[e] EXCEPT !.live = FALSE]]}
    BY <1>2 DEF Deadline, RetryFallsDue, LockExpires
  <2>3. job' \in [Events -> Job]
    BY <1>1, <2>1, <2>2 DEF StoreOK
  <2>4. QED
    BY <1>1, <1>2, <2>3, TypeSplit
       DEF Deadline, RetryFallsDue, LockExpires, StoreOK, WorkerOK, local
<1>3. ASSUME NEW e \in Events, NEW v \in Calendar, Edit(e, v) PROVE TypeOK'
  <2>1. edits[e] \in 0..MaxEdits /\ edits[e] < MaxEdits /\ job[e] \in Job
    BY <1>1, <1>3 DEF Edit, StoreOK
  <2>2. edits[e] + 1 \in 0..MaxEdits /\ edits[e] + 2 \in Generations
    BY <2>1, SyncAssumption DEF Generations
  <2>3. Requeued(e) \in Job
    BY <2>1, <2>2, JobType DEF Requeued, Job
  <2>4. StoreOK'
    BY <1>1, <1>3, <2>2, <2>3 DEF Edit, StoreOK
  <2>5. QED
    BY <1>1, <1>3, <2>4, TypeSplit DEF Edit, WorkerOK, local
<1>4. QED
  BY <1>2, <1>3 DEF Outer

LEMMA TryAgainType ==
  ASSUME WorkerOK, NEW w \in Workers, TryAgain(w)
  PROVE  pc' \in [Workers -> PC] /\ tries' \in [Workers -> 0..(MaxTries - 1)]
<1>1. tries[w] \in 0..(MaxTries - 1)
  BY DEF WorkerOK
<1>2. tries[w] + 1 < MaxTries => tries[w] + 1 \in 0..(MaxTries - 1)
  BY <1>1, SyncAssumption
<1>3. QED
  BY <1>2, PCIs DEF TryAgain, Goes, WorkerOK

LEMMA EffectType ==
  ASSUME TypeOK, NEW w \in Workers, NEW phase, NEW i \in Records, TakesEffect(w, phase, i)
  PROVE  google' \in [Events -> [Records -> Calendar]]
<1>1. before[w] \in Calendar /\ Absent \in Calendar
  BY DEF TypeOK, Calendar
<1>2. QED
  BY <1>1 DEF TypeOK, TakesEffect

LEMMA OnwardType == ASSUME NEW w, pc[w] \in GooglePhase, NEW i PROVE Onward(w, i) \in PC
  BY PCIs DEF Onward, AfterWrite

LEMMA PassType == ASSUME TypeOK, NEW w \in Workers, Pass(w) PROVE TypeOK'
<1>1. StoreOK /\ WorkerOK
  BY TypeSplit
<1>2. CASE Read(w)
  BY <1>1, <1>2, PCIs, TypeSplit DEF Read, Goes, StoreOK, WorkerOK, stored
<1>3. CASE List(w)
  BY <1>1, <1>3, PCIs, TypeSplit DEF List, Goes, StoreOK, WorkerOK, stored, Found
<1>4. CASE Relist(w)
  BY <1>1, <1>4, PCIs, TypeSplit DEF Relist, Goes, StoreOK, WorkerOK, stored, Found, AfterWrite
<1>5. CASE Rewrite(w)
  <2>1. PICK i \in Records : /\ TakesEffect(w, pc[w], i) /\ Goes(w, Onward(w, i))
                             /\ listed' = [listed EXCEPT ![w] = @ \ {i}]
    BY <1>5 DEF Rewrite
  <2>2. google' \in [Events -> [Records -> Calendar]]
    BY <2>1, EffectType
  <2>3. pc' \in [Workers -> PC] /\ listed' \in [Workers -> SUBSET Records]
    BY <1>1, <1>5, <2>1, OnwardType DEF Rewrite, Goes, WorkerOK
  <2>4. QED
    BY <1>1, <1>5, <2>2, <2>3, TypeSplit DEF Rewrite, StoreOK, WorkerOK, stored
<1>6. CASE PassFails(w)
  <2>1. google' \in [Events -> [Records -> Calendar]]
    BY <1>1, <1>6, EffectType DEF PassFails, StoreOK
  <2>2. QED
    BY <1>1, <1>6, <2>1, TryAgainType, TypeSplit DEF PassFails, StoreOK, WorkerOK, stored
<1>7. CASE Reread(w)
  <2>1. pc' \in [Workers -> PC] /\ tries' \in [Workers -> 0..(MaxTries - 1)]
    BY <1>1, <1>7, TryAgainType, PCIs DEF Reread, Goes, WorkerOK
  <2>2. QED
    BY <1>1, <1>7, <2>1, TypeSplit DEF Reread, StoreOK, WorkerOK, stored
<1>8. QED
  BY <1>2, <1>3, <1>4, <1>5, <1>6, <1>7 DEF Pass

LEMMA NextJobType == ASSUME WorkerOK, NEW w \in Workers, NextJob(w) PROVE WorkerOK'
<1>1. took' \in [Workers -> [Events -> Generations]]
  <2>1. [took[w] EXCEPT ![at[w]] = 0] \in [Events -> Generations]
    BY GenerationsAre DEF WorkerOK
  <2>2. took' = [took EXCEPT ![w] = [took[w] EXCEPT ![at[w]] = 0]]
    BY DEF NextJob, WorkerOK
  <2>3. QED
    BY <2>1, <2>2 DEF WorkerOK
<1>2. pc' \in [Workers -> PC] /\ at' \in [Workers -> Events]
  BY PCIs DEF NextJob, Goes, WorkerOK
<1>3. /\ tries' \in [Workers -> 0..(MaxTries - 1)]
      /\ before' \in [Workers -> Calendar] /\ listed' \in [Workers -> SUBSET Records]
  BY SyncAssumption DEF NextJob, WorkerOK, Calendar
<1>4. QED
  BY <1>1, <1>2, <1>3 DEF NextJob, WorkerOK

(* Claiming, settling and dying. *)
Turn(w) == \/ \E S \in SUBSET Events : Claim(w, S)
           \/ Settle(w) \/ Kill(w) \/ Buried(w)

LEMMA TurnType == ASSUME TypeOK, NEW w \in Workers, Turn(w) PROVE TypeOK'
<1>1. StoreOK /\ WorkerOK /\ \A e \in Events : job[e] \in Job
  BY TypeSplit DEF StoreOK
<1>2. ASSUME NEW S \in SUBSET Events, Claim(w, S) PROVE TypeOK'
  <2>1. job' \in [Events -> Job]
    BY <1>1, <1>2, JobType DEF Claim
  <2>2. took' \in [Workers -> [Events -> Generations]]
    <3>1. [e \in Events |-> IF e \in S THEN job[e].requested ELSE 0] \in [Events -> Generations]
      BY <1>1, JobType, GenerationsAre
    <3>2. QED
      BY <1>1, <1>2, <3>1 DEF Claim, WorkerOK
  <2>3. at' \in [Workers -> Events] /\ pc' \in [Workers -> PC]
    <3>1. UNCHANGED at \/ \E e \in Events : at' = [at EXCEPT ![w] = e]
      BY <1>2 DEF Claim
    <3>2. UNCHANGED pc \/ Goes(w, "read")
      BY <1>2 DEF Claim
    <3>3. QED
      BY <1>1, <3>1, <3>2, PCIs DEF Goes, WorkerOK
  <2>4. QED
    BY <1>1, <1>2, <2>1, <2>2, <2>3, TypeSplit DEF Claim, StoreOK, WorkerOK
<1>3. ASSUME NEW e \in Events, Removed(e) \/ ReleasedOrNot(w, e) PROVE job' \in [Events -> Job]
  <2>1. CASE Removed(e)
    <3>1. [queued |-> FALSE, requested |-> 0, owner |-> NoWorker, live |-> FALSE, due |-> TRUE]
            \in Job
      BY GenerationsAre DEF Job
    <3>2. QED
      BY <1>1, <2>1, <3>1 DEF Removed, StoreOK
  <2>2. CASE ReleasedOrNot(w, e)
    <3>1. [job[e] EXCEPT !.owner = NoWorker, !.live = FALSE] \in Job
      BY <1>1, JobType
    <3>2. job' \in {job, [job EXCEPT ![e] = [job[e] EXCEPT !.owner = NoWorker, !.live = FALSE]]}
      BY <1>1, <2>2 DEF ReleasedOrNot, StoreOK
    <3>3. QED
      BY <1>1, <3>1, <3>2 DEF StoreOK
  <2>3. QED
    BY <1>3, <2>1, <2>2
<1>4. at[w] \in Events
  BY <1>1 DEF WorkerOK
<1>5. CASE Acknowledge(w)
  <2>1. job' \in [Events -> Job]
    BY <1>1, <1>3, <1>4, <1>5 DEF Acknowledge, StoreOK
  <2>2. WorkerOK'
    BY <1>1, <1>5, NextJobType, PCIs DEF Acknowledge, Goes, WorkerOK, local
  <2>3. QED
    BY <1>1, <1>5, <2>1, <2>2, TypeSplit DEF Acknowledge, StoreOK
<1>6. CASE Fail(w)
  <2>1. job' \in [Events -> Job]
    <3>1. CASE ReleasedOrNot(w, at[w])
      BY <1>3, <1>4, <3>1
    <3>2. CASE job' = [job EXCEPT ![at[w]].due = FALSE, ![at[w]].owner = NoWorker,
                                  ![at[w]].live = FALSE]
      <4>1. [job[at[w]] EXCEPT !.due = FALSE, !.owner = NoWorker, !.live = FALSE] \in Job
        BY <1>1, <1>4, JobType
      <4>2. job' = [job EXCEPT ![at[w]] =
                      [job[at[w]] EXCEPT !.due = FALSE, !.owner = NoWorker, !.live = FALSE]]
        BY <1>1, <1>4, <3>2 DEF StoreOK
      <4>3. QED
        BY <1>1, <4>1, <4>2 DEF StoreOK
    <3>3. QED
      BY <1>6, <3>1, <3>2 DEF Fail
  <2>2. QED
    BY <1>1, <1>6, <2>1, NextJobType, TypeSplit DEF Fail, StoreOK
<1>7. CASE Kill(w)
  <2>1. kills' \in 0..MaxKills
    BY <1>1, <1>7, SyncAssumption DEF Kill, StoreOK
  <2>2. WorkerOK'
    BY <1>1, <1>7, GenerationsAre, PCIs, SyncAssumption DEF Kill, Goes, WorkerOK
  <2>3. QED
    BY <1>1, <1>7, <2>1, <2>2, TypeSplit DEF Kill, StoreOK
<1>8. CASE Buried(w)
  <2>1. google' \in [Events -> [Records -> Calendar]]
    BY <1>1, <1>8, EffectType DEF Buried, StoreOK
  <2>2. WorkerOK'
    BY <1>1, <1>8, PCIs DEF Buried, Goes, WorkerOK, Calendar
  <2>3. QED
    BY <1>1, <1>8, <2>1, <2>2, TypeSplit DEF Buried, StoreOK, stored
<1>9. QED
  BY <1>2, <1>5, <1>6, <1>7, <1>8 DEF Turn, Settle

LEMMA StepType == TypeOK /\ [Next]_vars => TypeOK'
<1>1. ASSUME TypeOK, Next PROVE TypeOK'
  BY <1>1, OuterType, PassType, TurnType DEF Next, Outer, Turn
<1>2. ASSUME TypeOK, UNCHANGED vars PROVE TypeOK'
  BY <1>2 DEF vars, stored, local, TypeOK
<1>3. QED
  BY <1>1, <1>2

(* The variables of EventCalendarSync have their types in every reachable  *)
(* state, whether or not a worker is over before its lock is.              *)
THEOREM TypeCorrect == Spec => []TypeOK
  BY InitType, StepType, PTL DEF Spec
-----------------------------------------------------------------------------
(* What the steps of one worker leave alone. *)

Others(w) == \A x \in Workers : x # w =>
  /\ pc'[x] = pc[x] /\ took'[x] = took[x] /\ at'[x] = at[x]
  /\ before'[x] = before[x] /\ listed'[x] = listed[x] /\ late'[x] = late[x]

LEMMA PassOthers == ASSUME TypeOK, NEW w \in Workers, Pass(w) PROVE Others(w)
  BY DEF Pass, Read, List, Relist, Rewrite, PassFails, Reread, TryAgain, Goes, TypeOK, Others

LEMMA TurnOthers == ASSUME TypeOK, NEW w \in Workers, Turn(w) PROVE Others(w)
<1>1. ASSUME NextJob(w) PROVE Others(w)
  BY <1>1 DEF NextJob, Goes, TypeOK, Others
<1>2. ASSUME NEW S \in SUBSET Events, Claim(w, S) PROVE Others(w)
  <2>1. UNCHANGED at \/ \E e \in Events : at' = [at EXCEPT ![w] = e]
    BY <1>2 DEF Claim
  <2>2. UNCHANGED took \/ \E f : took' = [took EXCEPT ![w] = f]
    BY <1>2 DEF Claim
  <2>3. UNCHANGED pc \/ Goes(w, "read")
    BY <1>2 DEF Claim
  <2>4. QED
    BY <1>2, <2>1, <2>2, <2>3 DEF Claim, Goes, TypeOK, Others
<1>3. CASE Acknowledge(w) \/ Fail(w)
  BY <1>1, <1>3 DEF Acknowledge, Fail, Goes, TypeOK, Others, local
<1>4. CASE Kill(w) \/ Buried(w)
  BY <1>4 DEF Kill, Buried, Goes, TypeOK, Others
<1>5. QED
  BY <1>2, <1>3, <1>4 DEF Turn, Settle

(* A request touches the records of the event its worker is at. *)
LEMMA EffectIs ==
  ASSUME TypeOK, NEW w \in Workers, NEW phase, NEW i \in Records, TakesEffect(w, phase, i)
  PROVE  /\ \A e \in Events : e # at[w] => google'[e] = google[e]
         /\ \A k \in Records : k # i => google'[at[w]][k] = google[at[w]][k]
         /\ google'[at[w]][i] = IF phase \in {"clear", "dedupe"} THEN Absent ELSE before[w]
  BY DEF TypeOK, TakesEffect

(* One who is at work on an event and not settled holds its job. *)
LEMMA Exclusive ==
  ASSUME IInv, NEW e \in Events, NEW w \in Workers, NEW x \in Workers, AtWork(w, e), AtWork(x, e),
         ~(at[w] = e /\ pc[w] = "fail"), ~(at[x] = e /\ pc[x] = "fail")
  PROVE  w = x
  BY DEF IInv, Held, Holds, Settled

LEMMA BusyAtWork ==
  ASSUME IInv, NEW w \in Workers, pc[w] \notin {"idle", "dead"} \/ late[w] # "none"
  PROVE  at[w] \in Events /\ AtWork(w, at[w])
  BY DEF IInv, TypeOK, Shape, AtWork

LEMMA BusyHolds ==
  ASSUME IInv, NEW w \in Workers, pc[w] \notin {"idle", "dead", "fail"} \/ late[w] # "none"
  PROVE  Holds(w, at[w])
<1>1. at[w] \in Events /\ AtWork(w, at[w])
  BY BusyAtWork
<1>2. pc[w] # "fail"
  BY DEF IInv, Shape
<1>3. QED
  BY <1>1, <1>2 DEF IInv, Held, Settled

(* The worker of a pass keeps its place among the others, who see nothing  *)
(* of what it does.                                                        *)
LEMMA AlongOthers ==
  ASSUME IInv, NEW w \in Workers, Others(w),
         \A e \in Events : e # at[w] => google'[e] = google[e],
         google' = google \/ pc[w] \notin {"idle", "dead", "fail"} \/ late[w] # "none",
         UNCHANGED <<cal, edits>>,
         NEW x \in Workers, x # w
  PROVE  Along(x)'
<1>1. Along(x) /\ at[x] \in Events
  BY DEF IInv, TypeOK
<1>2. CASE google'[at[x]] = google[at[x]]
  <2>1. /\ pc'[x] = pc[x] /\ took'[x] = took[x] /\ at'[x] = at[x]
        /\ before'[x] = before[x] /\ listed'[x] = listed[x]
    BY DEF Others
  <2>2. QED
    BY <1>1, <1>2, <2>1 DEF Along, ShownAs, Found
<1>3. CASE google'[at[x]] # google[at[x]]
  <2>1. at[x] = at[w] /\ Holds(w, at[w])
    BY <1>1, <1>3, BusyHolds
  <2>2. pc[x] \in {"idle", "dead", "fail"}
    BY <2>1, BusyHolds DEF Holds
  <2>3. pc'[x] \in {"idle", "dead", "fail"}
    BY <2>2 DEF Others
  <2>4. QED
    BY <2>3 DEF Along
<1>4. QED
  BY <1>2, <1>3

(* Google's records of an event without a job are left alone. *)
LEMMA ConvergedKept ==
  ASSUME IInv, NEW w \in Workers,
         \A e \in Events : e # at[w] => google'[e] = google[e],
         google' = google \/ pc[w] \notin {"idle", "dead", "fail"} \/ late[w] # "none",
         UNCHANGED cal, NEW e \in Events, ~job[e].queued
  PROVE  Shows(e)'
<1>1. google'[e] = google[e]
  BY BusyHolds DEF Holds
<1>2. Shows(e)
  BY DEF IInv, Converged
<1>3. QED
  BY <1>1, <1>2 DEF Shows, Found
-----------------------------------------------------------------------------
(* A pass. *)

LEMMA CardOne == ASSUME NEW S \in SUBSET Records, Cardinality(S) = 1 PROVE \E i \in Records : S = {i}
<1>1. IsFiniteSet(S)
  <2>1. IsFiniteSet(Records)
    BY SyncAssumption, FS_Interval DEF Records
  <2>2. QED
    BY <2>1, FS_Subset
<1>2. PICK i : S = {i}
  BY <1>1, FS_Singleton
<1>3. QED
  BY <1>2

LEMMA AfterWriteIs ==
  ASSUME NEW S \in SUBSET Records, S # {}
  PROVE  \/ AfterWrite(S) = "dedupe"
         \/ AfterWrite(S) = "refresh" /\ \E i \in Records : S = {i}
  BY CardOne DEF AfterWrite

LEMMA FoundAfter ==
  ASSUME TypeOK, NEW w \in Workers, NEW i \in Records, TakesEffect(w, pc[w], i),
         pc[w] \in GooglePhase, NEW e \in Events, at[w] = e
  PROVE  /\ pc[w] \in {"clear", "dedupe"} => Found(e)' = Found(e) \ {i}
         /\ pc[w] \in {"write", "refresh"} /\ before[w] # Absent =>
              Found(e)' = Found(e) \cup {i} /\ google'[e][i] = before[w]
<1>1. /\ \A k \in Records : k # i => google'[e][k] = google[e][k]
      /\ google'[e][i] = IF pc[w] \in {"clear", "dedupe"} THEN Absent ELSE before[w]
  BY EffectIs
<1>2. QED
  BY <1>1 DEF Found, GooglePhase

LEMMA RewriteAlong == ASSUME IInv, NEW w \in Workers, Rewrite(w) PROVE Along(w)'
<1> DEFINE e == at[w]
<1>1. TypeOK /\ Along(w) /\ e \in Events /\ pc[w] \in GooglePhase
  BY DEF IInv, TypeOK, Rewrite
<1>2. PICK i \in Records : /\ TakesEffect(w, pc[w], i) /\ Goes(w, Onward(w, i))
                           /\ listed' = [listed EXCEPT ![w] = @ \ {i}]
  BY DEF Rewrite
<1>3. /\ pc'[w] = Onward(w, i) /\ listed'[w] = listed[w] \ {i}
      /\ at'[w] = e /\ before'[w] = before[w]
      /\ listed[w] \in SUBSET Records /\ i \in Targets(w, pc[w])
      /\ i \in Found(e) \/ Inserts(w, pc[w])
  BY <1>1, <1>2 DEF Rewrite, Goes, TypeOK, TakesEffect
<1>4. CASE pc[w] = "clear"
  <2>1. /\ before[w] = Absent /\ listed[w] = Found(e) /\ Found(e)' = Found(e) \ {i}
        /\ i \in listed[w]
    BY <1>1, <1>2, <1>3, <1>4, FoundAfter DEF Along, Targets, First
  <2>2. CASE listed[w] = {i}
    <3>1. pc'[w] = "reread" /\ Found(e)' = {}
      BY <1>3, <1>4, <2>1, <2>2 DEF Onward
    <3>2. QED
      BY <1>3, <2>1, <3>1 DEF Along, ShownAs
  <2>3. CASE listed[w] # {i}
    <3>1. pc'[w] = "clear" /\ listed'[w] = Found(e)' /\ listed'[w] # {}
      BY <1>3, <1>4, <2>1, <2>3 DEF Onward
    <3>2. QED
      BY <1>3, <2>1, <3>1 DEF Along
  <2>4. QED
    BY <2>2, <2>3
<1>5. CASE pc[w] = "write"
  <2>1. before[w] # Absent
    BY <1>1, <1>5 DEF Along
  <2>2. Found(e)' # {} /\ pc'[w] = "relist"
    BY <1>1, <1>2, <1>3, <1>5, <2>1, FoundAfter DEF Onward
  <2>3. QED
    BY <1>3, <2>1, <2>2 DEF Along
<1>6. CASE pc[w] = "dedupe"
  <2>1. before[w] # Absent /\ listed[w] = Found(e)
    BY <1>1, <1>6 DEF Along
  <2>2. Found(e)' = Found(e) \ {i}
    BY <1>1, <1>2, <1>3, <1>6, FoundAfter
  <2>3. i \in listed[w] \ First(listed[w])
    BY <1>3, <1>6 DEF Targets, First
  <2>4. listed'[w] = Found(e)' /\ listed'[w] # {} /\ listed'[w] \in SUBSET Records
    BY <1>3, <2>1, <2>2, <2>3, SyncAssumption DEF First, Records
  <2>5. pc'[w] = AfterWrite(listed'[w])
    BY <1>3, <1>6 DEF Onward
  <2>6. \/ pc'[w] = "dedupe"
        \/ pc'[w] = "refresh" /\ \E k \in Records : listed'[w] = {k}
    BY <2>4, <2>5, AfterWriteIs
  <2>7. QED
    BY <1>3, <2>1, <2>4, <2>6 DEF Along
<1>7. CASE pc[w] = "refresh"
  <2>1. PICK k \in Records : listed[w] = {k} /\ Found(e) = {k}
    BY <1>1, <1>7 DEF Along
  <2>2. before[w] # Absent /\ i = k
    BY <1>1, <1>3, <1>7, <2>1 DEF Along, Targets, First
  <2>3. Found(e)' = {i} /\ google'[e][i] = before[w] /\ pc'[w] = "reread"
    BY <1>1, <1>2, <1>3, <1>7, <2>1, <2>2, FoundAfter DEF Onward
  <2>4. QED
    BY <1>3, <2>2, <2>3 DEF Along, ShownAs
<1>8. QED
  BY <1>1, <1>4, <1>5, <1>6, <1>7 DEF GooglePhase

LEMMA PassAlong == ASSUME IInv, NEW w \in Workers, Pass(w) PROVE Along(w)'
<1>1. TypeOK /\ Along(w) /\ at[w] \in Events
  BY DEF IInv, TypeOK
<1>2. CASE Read(w) \/ PassFails(w)
  <2>1. pc'[w] \in {"list", "read", "fail"}
    BY <1>1, <1>2 DEF Read, PassFails, TryAgain, Goes, TypeOK
  <2>2. QED
    BY <2>1 DEF Along
<1>3. CASE List(w)
  <2>1. /\ at'[w] = at[w] /\ before'[w] = before[w] /\ google' = google
        /\ listed'[w] = Found(at[w])
    BY <1>1, <1>3 DEF List, TypeOK
  <2>2. pc'[w] = IF before[w] # Absent THEN "write"
                 ELSE IF Found(at[w]) = {} THEN "reread" ELSE "clear"
    BY <1>1, <1>3 DEF List, Goes, TypeOK
  <2>3. QED
    BY <2>1, <2>2 DEF Along, ShownAs, Found
<1>4. CASE Relist(w)
  <2>1. /\ at'[w] = at[w] /\ before'[w] = before[w] /\ google' = google
        /\ listed'[w] = Found(at[w]) /\ pc'[w] = AfterWrite(Found(at[w]))
    BY <1>1, <1>4 DEF Relist, Goes, TypeOK
  <2>2. before[w] # Absent /\ Found(at[w]) # {} /\ Found(at[w]) \in SUBSET Records
    BY <1>1, <1>4 DEF Relist, Along, Found
  <2>3. \/ pc'[w] = "dedupe"
        \/ pc'[w] = "refresh" /\ \E k \in Records : Found(at[w]) = {k}
    BY <2>1, <2>2, AfterWriteIs
  <2>4. QED
    BY <2>1, <2>2, <2>3 DEF Along, Found
<1>5. CASE Rewrite(w)
  BY <1>5, RewriteAlong
<1>6. CASE Reread(w)
  <2>1. /\ at'[w] = at[w] /\ before'[w] = before[w] /\ google' = google /\ cal' = cal
        /\ ShownAs(at[w], before[w])
    BY <1>1, <1>6 DEF Reread, Along, TypeOK, stored
  <2>2. \/ pc'[w] = "acknowledge" /\ cal[at[w]] = before[w]
        \/ pc'[w] \in {"read", "fail"}
    BY <1>1, <1>6 DEF Reread, Unchanged, TryAgain, Goes, TypeOK
  <2>3. QED
    BY <2>1, <2>2 DEF Along, ShownAs, Found
<1>7. QED
  BY <1>2, <1>3, <1>4, <1>5, <1>6 DEF Pass

LEMMA PassKeeps == ASSUME IInv, NEW w \in Workers, Pass(w) PROVE IInv'
<1>1. TypeOK /\ Others(w) /\ TypeOK'
  BY PassOthers, StepType DEF IInv, Next
<1>2. pc[w] \notin {"idle", "dead", "fail"}
  BY DEF Pass, Read, List, Relist, Rewrite, PassFails, Reread, GooglePhase
<1>3. /\ UNCHANGED <<cal, edits, job, took, at, late>>
      /\ pc'[w] \notin {"idle", "dead"}
  <2>1. UNCHANGED <<cal, edits, job, took, at, late>>
    BY DEF Pass, Read, List, Relist, Rewrite, PassFails, Reread, stored
  <2>2. CASE Rewrite(w)
    <3>1. PICK i \in Records : pc'[w] = Onward(w, i) /\ pc[w] \in GooglePhase
      BY <1>1, <2>2 DEF Rewrite, Goes, TypeOK
    <3>2. Onward(w, i) \notin {"idle", "dead"}
      BY <3>1 DEF Onward, AfterWrite, GooglePhase
    <3>3. QED
      BY <2>1, <3>1, <3>2
  <2>3. CASE ~Rewrite(w)
    BY <1>1, <2>1, <2>3
       DEF Pass, Read, List, Relist, PassFails, Reread, Goes, TryAgain, TypeOK, AfterWrite
  <2>4. QED
    BY <2>2, <2>3
<1>4. \A e \in Events : e # at[w] => google'[e] = google[e]
  BY <1>1, EffectIs DEF Pass, Read, List, Relist, Rewrite, PassFails, Reread
<1>5. \A x \in Workers : Along(x)'
  BY <1>1, <1>2, <1>3, <1>4, PassAlong, AlongOthers
<1>6. \A x \in Workers : Shape(x)'
  <2>1. Shape(w)'
    BY <1>2, <1>3 DEF IInv, Shape
  <2>2. ASSUME NEW x \in Workers, x # w PROVE Shape(x)'
    BY <1>1, <1>3, <2>2 DEF IInv, Shape, Others
  <2>3. QED
    BY <2>1, <2>2
<1>7. \A e \in Events : Dated(e)'
  BY <1>3 DEF IInv, Dated
<1>8. ASSUME NEW x \in Workers, NEW e \in Events PROVE Held(x, e)'
  <2>1. Held(x, e)
    BY DEF IInv
  <2>2. CASE x = w
    BY <1>2, <1>3, <2>1, <2>2 DEF Held, AtWork, Holds, Settled
  <2>3. CASE x # w
    BY <1>1, <1>3, <2>1, <2>3 DEF Held, AtWork, Holds, Settled, SameGeneration, Others
  <2>4. QED
    BY <2>2, <2>3
<1>9. Converged'
  BY <1>2, <1>3, <1>4, ConvergedKept DEF Converged
<1>10. QED
  BY <1>1, <1>5, <1>6, <1>7, <1>8, <1>9 DEF IInv
-----------------------------------------------------------------------------
(* The clock and the editors. *)

LEMMA DeadlineKeeps == ASSUME IInv, WorkersEndFirst, NEW e \in Events, Deadline(e) PROVE IInv'
<1>1. TypeOK /\ TypeOK' /\ job[e] \in Job
  BY StepType DEF IInv, TypeOK, Next
<1>2. UNCHANGED <<cal, edits, google, kills, pc, took, at, before, listed, tries, late>>
  BY DEF Deadline, RetryFallsDue, LockExpires, local
<1>3. \A f \in Events : /\ job'[f].queued = job[f].queued
                        /\ job'[f].requested = job[f].requested
                        /\ job'[f].owner = job[f].owner
                        /\ job'[f].live = job[f].live \/ (f = e /\ ~AtWork(job[e].owner, e))
  <2>1. CASE RetryFallsDue(e)
    BY <1>1, <2>1 DEF RetryFallsDue, TypeOK, Job
  <2>2. CASE LockExpires(e)
    BY <1>1, <2>2 DEF LockExpires, TypeOK, Job
  <2>3. QED
    BY <2>1, <2>2 DEF Deadline
<1>4. \A x \in Workers : Shape(x)' /\ Along(x)'
  BY <1>2 DEF IInv, Shape, Along, ShownAs, Found
<1>5. \A f \in Events : Dated(f)'
  BY <1>2, <1>3 DEF IInv, Dated
<1>6. ASSUME NEW x \in Workers, NEW f \in Events PROVE Held(x, f)'
  <2>1. Held(x, f)
    BY DEF IInv
  <2>2. AtWork(x, f)' <=> AtWork(x, f)
    BY <1>2 DEF AtWork
  <2>3. Settled(x, f) => Settled(x, f)'
    BY <1>2, <1>3 DEF Settled, SameGeneration
  <2>4. AtWork(x, f) /\ Holds(x, f) => Holds(x, f)'
    BY <1>3 DEF Holds
  <2>5. QED
    BY <2>1, <2>2, <2>3, <2>4 DEF Held
<1>7. Converged'
  BY <1>2, <1>3 DEF IInv, Converged, Shows, Found
<1>8. QED
  BY <1>1, <1>4, <1>5, <1>6, <1>7 DEF IInv

LEMMA EditKeeps == ASSUME IInv, NEW e \in Events, NEW v \in Calendar, Edit(e, v) PROVE IInv'
<1>1. TypeOK /\ TypeOK' /\ job[e] \in Job /\ edits[e] \in Nat
  BY StepType, SyncAssumption DEF IInv, TypeOK, Next
<1>2. UNCHANGED <<google, kills, pc, took, at, before, listed, tries, late>>
  BY DEF Edit, local
<1>3. /\ \A f \in Events : f # e => cal'[f] = cal[f] /\ edits'[f] = edits[f] /\ job'[f] = job[f]
      /\ edits'[e] = edits[e] + 1
      /\ job'[e] = Requeued(e)
  BY <1>1 DEF Edit, TypeOK
<1>4. /\ job'[e].queued /\ job'[e].requested = edits[e] + 2
      /\ job[e].live => job'[e].live /\ job'[e].owner = job[e].owner
  BY <1>1, <1>3 DEF Requeued, Job
<1>5. \A x \in Workers : took[x][e] \in Nat /\ took[x][e] <= edits[e] + 1
  BY <1>1, SyncAssumption DEF IInv, Dated, TypeOK, Generations
<1>6. ASSUME NEW x \in Workers PROVE Shape(x)' /\ Along(x)'
  <2>1. Shape(x) /\ Along(x) /\ at[x] \in Events
    BY <1>1 DEF IInv, TypeOK
  <2>2. Shape(x)'
    BY <1>2, <2>1 DEF Shape
  <2>3. took'[x][at[x]] = edits'[at[x]] + 1 => at[x] # e
    BY <1>1, <1>2, <1>3, <1>5
  <2>4. ShownAs(at[x], before[x]) => ShownAs(at[x], before[x])'
    BY <1>2 DEF ShownAs, Found
  <2>5. Along(x)'
    BY <1>2, <1>3, <2>1, <2>3, <2>4 DEF Along, Found
  <2>6. QED
    BY <2>2, <2>5
<1>7. ASSUME NEW f \in Events PROVE Dated(f)'
  <2>1. CASE f = e
    BY <1>1, <1>2, <1>3, <1>4, <1>5, <2>1 DEF Dated
  <2>2. CASE f # e
    BY <1>2, <1>3, <2>2 DEF IInv, Dated
  <2>3. QED
    BY <2>1, <2>2
<1>8. ASSUME NEW x \in Workers, NEW f \in Events PROVE Held(x, f)'
  <2>1. Held(x, f) /\ (AtWork(x, f)' <=> AtWork(x, f))
    BY <1>2 DEF IInv, AtWork
  <2>2. Holds(x, f) => Holds(x, f)'
    BY <1>3, <1>4 DEF Holds
  <2>3. CASE f = e
    <3>1. ~SameGeneration(x, e)'
      BY <1>1, <1>2, <1>4, <1>5 DEF SameGeneration
    <3>2. QED
      BY <1>2, <2>1, <2>2, <2>3, <3>1 DEF Held, Settled
  <2>4. CASE f # e
    BY <1>2, <1>3, <2>1, <2>2, <2>4 DEF Held, Settled, SameGeneration
  <2>5. QED
    BY <2>3, <2>4
<1>9. Converged'
  BY <1>2, <1>3, <1>4 DEF IInv, Converged, Shows, Found
<1>10. QED
  BY <1>1, <1>6, <1>7, <1>8, <1>9 DEF IInv
-----------------------------------------------------------------------------
(* Claiming. *)

LEMMA ClaimKeeps ==
  ASSUME IInv, NEW w \in Workers, NEW S \in SUBSET Events, Claim(w, S) PROVE IInv'
<1>1. /\ TypeOK /\ TypeOK' /\ Others(w)
  BY StepType, TurnOthers DEF IInv, Next, Turn
<1>2. /\ UNCHANGED <<cal, edits, google, kills, before, listed, tries, late>>
      /\ pc[w] = "idle" /\ S \subseteq Eligible
  BY DEF Claim
<1>3. late[w] = "none" /\ \A f \in Events : took[w][f] = 0 /\ ~AtWork(w, f)
  BY <1>2 DEF IInv, Shape, AtWork
<1>4. \A f \in Events : /\ job'[f].queued = job[f].queued
                        /\ job'[f].requested = job[f].requested
                        /\ f \notin S => job'[f] = job[f]
                        /\ f \in S => /\ job[f].queued /\ ~job[f].live
                                      /\ job'[f].live /\ job'[f].owner = w
  <2>1. \A f \in Events : job[f] \in Job
    BY <1>1 DEF TypeOK
  <2>2. \A f \in Events : job'[f] = IF f \in S THEN [job[f] EXCEPT !.owner = w, !.live = TRUE]
                                               ELSE job[f]
    BY DEF Claim
  <2>3. ASSUME NEW f \in Events, f \in S
        PROVE  /\ job'[f].queued = job[f].queued /\ job'[f].requested = job[f].requested
               /\ job'[f].live /\ job'[f].owner = w
    BY <2>1, <2>2, <2>3 DEF Job
  <2>4. \A f \in S : job[f].queued /\ ~job[f].live
    BY <1>2 DEF Eligible
  <2>5. QED
    BY <2>2, <2>3, <2>4
<1>5. \/ /\ \A f \in Events : took'[w][f] = IF f \in S THEN job[f].requested ELSE 0
         /\ at'[w] \in S /\ pc'[w] = "read"
      \/ UNCHANGED <<took, at, pc>>
  <2>1. CASE UNCHANGED <<took, at, pc>>
    BY <2>1
  <2>2. CASE ~UNCHANGED <<took, at, pc>>
    <3>1. /\ took' = [took EXCEPT ![w] = [f \in Events |-> IF f \in S THEN job[f].requested ELSE 0]]
          /\ \E f \in S : at' = [at EXCEPT ![w] = f]
          /\ Goes(w, "read")
      BY <2>2 DEF Claim
    <3>2. QED
      BY <1>1, <3>1 DEF Goes, TypeOK
  <2>3. QED
    BY <2>1, <2>2
<1>6. \A f \in S : job[f].requested = edits[f] + 1 /\ edits[f] \in Nat
  BY <1>1, <1>4, SyncAssumption DEF IInv, Dated, TypeOK
<1>7. \A x \in Workers : Shape(x)'
  <2>1. Shape(w)'
    BY <1>1, <1>2, <1>3, <1>5, <1>6 DEF IInv, Shape
  <2>2. \A x \in Workers : x # w => Shape(x)'
    BY <1>1 DEF IInv, Shape, Others
  <2>3. QED
    BY <2>1, <2>2
<1>8. \A x \in Workers : Along(x)'
  <2>1. pc'[w] \in {"idle", "read"}
    BY <1>2, <1>5
  <2>2. Along(w)'
    BY <2>1 DEF Along
  <2>3. \A x \in Workers : x # w => Along(x)'
    BY <1>1, <1>2, AlongOthers
  <2>4. QED
    BY <2>2, <2>3
<1>9. ASSUME NEW f \in Events PROVE Dated(f)'
  <2>1. took'[w][f] <= edits[f] + 1
    <3>1. edits[f] \in Nat
      BY <1>1, SyncAssumption DEF TypeOK
    <3>2. took'[w][f] = 0 \/ took'[w][f] = edits[f] + 1
      BY <1>3, <1>5, <1>6
    <3>3. QED
      BY <3>1, <3>2
  <2>2. \A x \in Workers : x # w => took'[x][f] <= edits[f] + 1
    BY <1>1 DEF IInv, Dated, Others
  <2>3. QED
    BY <1>2, <1>4, <2>1, <2>2 DEF IInv, Dated
<1>10. ASSUME NEW x \in Workers, NEW f \in Events PROVE Held(x, f)'
  <2>1. CASE x = w
    <3>1. AtWork(w, f)' => f \in S
      BY <1>2, <1>3, <1>5 DEF AtWork
    <3>2. QED
      BY <1>4, <2>1, <3>1 DEF Held, Holds
  <2>2. CASE x # w
    <3>1. Held(x, f) /\ (AtWork(x, f)' <=> AtWork(x, f))
      BY <1>1, <2>2 DEF IInv, AtWork, Others
    <3>2. Settled(x, f) => Settled(x, f)'
      BY <1>1, <1>4, <2>2 DEF Settled, SameGeneration, Others
    <3>3. Holds(x, f) => Holds(x, f)'
      BY <1>4 DEF Holds
    <3>4. QED
      BY <3>1, <3>2, <3>3 DEF Held
  <2>3. QED
    BY <2>1, <2>2
<1>11. Converged'
  BY <1>2, <1>4 DEF IInv, Converged, Shows, Found
<1>12. QED
  BY <1>1, <1>7, <1>8, <1>9, <1>10, <1>11 DEF IInv
-----------------------------------------------------------------------------
(* Settling. *)

(* A worker that goes on to its next job is done with the last one, and    *)
(* still holds the others.                                                 *)
LEMMA NextJobLeaves ==
  ASSUME IInv, NEW w \in Workers, NextJob(w), pc[w] \in {"acknowledge", "fail"}
  PROVE  /\ pc'[w] \in {"idle", "read"} /\ late' = late
         /\ Shape(w)' /\ Along(w)'
         /\ \A f \in Events : took'[w][f] = took[w][f] \/ took'[w][f] = 0
         /\ \A f \in Events : AtWork(w, f)' => f # at[w] /\ Holds(w, f)
<1>1. TypeOK /\ at[w] \in Events /\ late[w] = "none" /\ late' = late
  BY DEF IInv, TypeOK, Shape, NextJob
<1>2. \A f \in Events : took'[w][f] = IF f = at[w] THEN 0 ELSE took[w][f]
  BY <1>1 DEF NextJob, TypeOK
<1>3. \/ /\ pc'[w] = "idle"
         /\ \A f \in Events : took'[w][f] = 0
      \/ /\ pc'[w] = "read"
         /\ at'[w] \in Events /\ took'[w][at'[w]] # 0
  <2>1. CASE Goes(w, "idle") /\ \A f \in Events : ~(took[w][f] # 0 /\ f # at[w])
    BY <1>1, <1>2, <2>1 DEF Goes, TypeOK
  <2>2. CASE Goes(w, "read") /\ \E f \in Events : /\ took[w][f] # 0 /\ f # at[w]
                                                  /\ at' = [at EXCEPT ![w] = f]
    BY <1>1, <1>2, <2>2 DEF Goes, TypeOK
  <2>3. QED
    BY <2>1, <2>2 DEF NextJob
<1>4. Shape(w)' /\ Along(w)'
  BY <1>1, <1>3 DEF Shape, Along
<1>5. ASSUME NEW f \in Events, AtWork(w, f)' PROVE f # at[w] /\ Holds(w, f)
  <2>1. f # at[w] /\ took[w][f] # 0
    BY <1>1, <1>2, <1>5 DEF AtWork
  <2>2. AtWork(w, f) /\ ~Settled(w, f)
    BY <2>1 DEF AtWork, Settled
  <2>3. QED
    BY <2>1, <2>2 DEF IInv, Held
<1>6. QED
  BY <1>1, <1>2, <1>3, <1>4, <1>5

(* Only the owner of a job lets go of it, and what is taken from the queue *)
(* is not put back: the others stand as they did.                          *)
LEMMA HeldByOthers ==
  ASSUME IInv, NEW w \in Workers, Others(w), NEW e \in Events,
         \A f \in Events : f # e => job'[f] = job[f],
         job' = job \/ Holds(w, e) \/ job[e].owner = w,
         job'[e].queued => job[e].queued /\ job'[e].requested = job[e].requested,
         NEW x \in Workers, x # w, NEW f \in Events
  PROVE  Held(x, f)'
<1>1. Held(x, f) /\ (AtWork(x, f)' <=> AtWork(x, f))
  BY DEF IInv, AtWork, Others
<1>2. Settled(x, f) => Settled(x, f)'
  BY DEF Settled, SameGeneration, Others
<1>3. Holds(x, f) => Holds(x, f)'
  BY DEF Holds
<1>4. QED
  BY <1>1, <1>2, <1>3 DEF Held

LEMMA RemovedIs ==
  ASSUME TypeOK, NEW e \in Events, Removed(e)
  PROVE  /\ \A f \in Events : f # e => job'[f] = job[f]
         /\ ~job'[e].queued
  BY DEF Removed, TypeOK

LEMMA ReleasedIs ==
  ASSUME TypeOK, NEW w \in Workers, NEW e \in Events, ReleasedOrNot(w, e)
  PROVE  /\ \A f \in Events : f # e => job'[f] = job[f]
         /\ job'[e].queued = job[e].queued /\ job'[e].requested = job[e].requested
         /\ job' = job \/ job[e].owner = w
  BY DEF ReleasedOrNot, TypeOK, Job

(* What a settled worker has acknowledged is what the calendar says.       *)
LEMMA AcknowledgedShows ==
  ASSUME IInv, NEW w \in Workers, pc[w] = "acknowledge", SameGeneration(w, at[w])
  PROVE  Shows(at[w])
<1>1. at[w] \in Events
  BY DEF IInv, TypeOK
<1>2. took[w][at[w]] = edits[at[w]] + 1
  BY <1>1 DEF IInv, Dated, SameGeneration
<1>3. ShownAs(at[w], before[w]) /\ before[w] = cal[at[w]]
  BY <1>2 DEF IInv, Along
<1>4. QED
  BY <1>3 DEF ShownAs, Shows

(* What settling does to the job at hand. *)
LEMMA SettleJob ==
  ASSUME IInv, NEW w \in Workers, Settle(w), NEW e, e = at[w]
  PROVE  /\ e \in Events /\ pc[w] \in {"acknowledge", "fail"}
         /\ \A f \in Events : f # e => job'[f] = job[f]
         /\ job' = job \/ Holds(w, e) \/ job[e].owner = w
         /\ job'[e].queued => job[e].queued /\ job'[e].requested = job[e].requested
         /\ ~job'[e].queued => ~job[e].queued \/ Shows(e)
<1>1. TypeOK /\ e \in Events /\ pc[w] \in {"acknowledge", "fail"} /\ AtWork(w, e)
  BY BusyAtWork DEF IInv, TypeOK, Settle, Acknowledge, Fail
<1>2. CASE job' = job
  BY <1>1, <1>2
<1>3. CASE ReleasedOrNot(w, e)
  BY <1>1, <1>3, ReleasedIs
<1>4. CASE pc[w] = "acknowledge" /\ SameGeneration(w, e) /\ Removed(e)
  <2>1. Holds(w, e) /\ Shows(e)
    BY <1>4, BusyHolds, AcknowledgedShows
  <2>2. QED
    BY <1>1, <1>4, <2>1, RemovedIs
<1>5. CASE /\ SameGeneration(w, e)
           /\ job' = [job EXCEPT ![e].due = FALSE, ![e].owner = NoWorker, ![e].live = FALSE]
  <2>1. Holds(w, e)
    BY <1>1, <1>5 DEF IInv, Held, Settled
  <2>2. job[e] \in Job /\ job'[e] = [job[e] EXCEPT !.due = FALSE, !.owner = NoWorker, !.live = FALSE]
    BY <1>1, <1>5 DEF TypeOK
  <2>3. job'[e].queued = job[e].queued /\ job'[e].requested = job[e].requested
    BY <2>2 DEF Job
  <2>4. \A f \in Events : f # e => job'[f] = job[f]
    BY <1>1, <1>5 DEF TypeOK
  <2>5. QED
    BY <1>1, <2>1, <2>3, <2>4
<1>6. QED
  BY <1>2, <1>3, <1>4, <1>5 DEF Settle, Acknowledge, Fail

LEMMA SettleKeeps == ASSUME IInv, NEW w \in Workers, Settle(w) PROVE IInv'
<1>1. /\ TypeOK /\ TypeOK' /\ Others(w)
      /\ UNCHANGED <<cal, edits, google, kills, late>>
  <2>1. late' = late
    BY DEF Settle, Acknowledge, Fail, NextJob, local
  <2>2. QED
    BY <2>1, StepType, TurnOthers DEF IInv, Next, Turn, Settle, Acknowledge, Fail
<1>2. PICK e \in Events : e = at[w]
  BY <1>1 DEF TypeOK
<1>3. /\ pc[w] \in {"acknowledge", "fail"}
      /\ \A f \in Events : f # e => job'[f] = job[f]
      /\ job' = job \/ Holds(w, e) \/ job[e].owner = w
      /\ job'[e].queued => job[e].queued /\ job'[e].requested = job[e].requested
      /\ ~job'[e].queued => ~job[e].queued \/ Shows(e)
  BY <1>2, SettleJob
<1>4. \A x \in Workers, f \in Events : x # w => Held(x, f)'
  BY <1>1, <1>3, HeldByOthers
<1>5. \A x \in Workers : x # w => Shape(x)' /\ Along(x)'
  BY <1>1, AlongOthers DEF IInv, Shape, Others
<1>6. \/ NextJob(w)
      \/ /\ pc[w] = "acknowledge" /\ Goes(w, "fail") /\ UNCHANGED local
         /\ job' = job \/ Removed(e)
  BY <1>2 DEF Settle, Acknowledge, Fail
<1>7. /\ Shape(w)' /\ Along(w)'
      /\ \A f \in Events : took'[w][f] = took[w][f] \/ took'[w][f] = 0
      /\ \A f \in Events : Held(w, f)'
  <2>1. CASE NextJob(w)
    <3>1. /\ Shape(w)' /\ Along(w)'
          /\ \A f \in Events : took'[w][f] = took[w][f] \/ took'[w][f] = 0
          /\ \A f \in Events : AtWork(w, f)' => f # e /\ Holds(w, f)
      BY <1>2, <1>3, <2>1, NextJobLeaves
    <3>2. \A f \in Events : AtWork(w, f)' => Holds(w, f)'
      BY <1>3, <3>1 DEF Holds
    <3>3. QED
      BY <3>1, <3>2 DEF Held
  <2>2. CASE /\ pc[w] = "acknowledge" /\ Goes(w, "fail") /\ UNCHANGED local
             /\ job' = job \/ Removed(e)
    <3>1. UNCHANGED <<took, at, before, listed, late>> /\ pc'[w] = "fail"
      BY <1>1, <2>2 DEF local, Goes, TypeOK
    <3>2. Shape(w)' /\ Along(w)'
      BY <2>2, <3>1 DEF IInv, Shape, Along
    <3>3. ASSUME NEW f \in Events PROVE Held(w, f)'
      <4>1. AtWork(w, f)' => Holds(w, f)
        BY <2>2, <3>1 DEF IInv, Held, AtWork, Settled
      <4>2. CASE job'[f] = job[f]
        BY <4>1, <4>2 DEF Held, Holds
      <4>3. CASE job'[f] # job[f]
        <5>1. f = e /\ ~job'[f].queued
          BY <1>1, <1>3, <2>2, <4>3, RemovedIs
        <5>2. Settled(w, f)'
          BY <1>2, <3>1, <5>1 DEF Settled, SameGeneration
        <5>3. QED
          BY <5>2 DEF Held
      <4>4. QED
        BY <4>2, <4>3
    <3>4. QED
      BY <3>1, <3>2, <3>3
  <2>3. QED
    BY <1>6, <2>1, <2>2
<1>8. ASSUME NEW f \in Events PROVE Dated(f)'
  <2>1. edits[f] \in Nat /\ edits' = edits /\ Dated(f)
    BY <1>1, SyncAssumption DEF IInv, TypeOK
  <2>2. \A x \in Workers : took'[x][f] = took[x][f] \/ took'[x][f] = 0
    BY <1>1, <1>7 DEF Others
  <2>3. \A x \in Workers : took'[x][f] <= edits[f] + 1
    BY <2>1, <2>2 DEF Dated
  <2>4. job'[f].queued => job[f].queued /\ job'[f].requested = job[f].requested
    BY <1>3
  <2>5. QED
    BY <2>1, <2>3, <2>4 DEF Dated
<1>9. ASSUME NEW f \in Events, ~job'[f].queued PROVE Shows(f)'
  <2>1. Shows(f)
    BY <1>3, <1>9 DEF IInv, Converged
  <2>2. QED
    BY <1>1, <2>1 DEF Shows, Found
<1>10. QED
  BY <1>1, <1>4, <1>5, <1>7, <1>8, <1>9 DEF IInv, Converged
-----------------------------------------------------------------------------
(* Dying. *)

LEMMA KillKeeps == ASSUME IInv, NEW w \in Workers, Kill(w) PROVE IInv'
<1>1. /\ TypeOK /\ TypeOK' /\ Others(w)
      /\ UNCHANGED <<cal, edits, job, google, at, before, listed>>
  BY StepType, TurnOthers DEF IInv, Next, Turn, Kill
<1>2. /\ pc'[w] = "dead" /\ \A f \in Events : took'[w][f] = 0
      /\ late'[w] # "none" => pc[w] \in GooglePhase
  BY <1>1 DEF Kill, Goes, NothingTaken, TypeOK
<1>3. \A x \in Workers : Shape(x)' /\ Along(x)'
  <2>1. Shape(w)' /\ Along(w)'
    BY <1>2 DEF Shape, Along
  <2>2. \A x \in Workers : x # w => Shape(x)' /\ Along(x)'
    BY <1>1, AlongOthers DEF IInv, Shape, Others
  <2>3. QED
    BY <2>1, <2>2
<1>4. ASSUME NEW f \in Events PROVE Dated(f)'
  <2>1. edits[f] \in Nat
    BY <1>1, SyncAssumption DEF TypeOK
  <2>2. \A x \in Workers : took'[x][f] = took[x][f] \/ took'[x][f] = 0
    BY <1>1, <1>2 DEF Others
  <2>3. \A x \in Workers : took'[x][f] <= edits[f] + 1
    BY <2>1, <2>2 DEF IInv, Dated
  <2>4. QED
    BY <1>1, <2>3 DEF IInv, Dated
<1>5. ASSUME NEW x \in Workers, NEW f \in Events PROVE Held(x, f)'
  <2>1. CASE x = w
    <3>1. AtWork(w, f)' => f = at[w] /\ pc[w] \in GooglePhase
      BY <1>1, <1>2 DEF AtWork
    <3>2. AtWork(w, f)' => Holds(w, f)
      BY <3>1, BusyHolds DEF GooglePhase
    <3>3. QED
      BY <1>1, <2>1, <3>2 DEF Held, Holds
  <2>2. CASE x # w
    BY <1>1, <2>2 DEF IInv, Held, AtWork, Holds, Settled, SameGeneration, Others
  <2>3. QED
    BY <2>1, <2>2
<1>6. Converged'
  BY <1>1 DEF IInv, Converged, Shows, Found
<1>7. QED
  BY <1>1, <1>3, <1>4, <1>5, <1>6 DEF IInv

LEMMA BuriedKeeps == ASSUME IInv, NEW w \in Workers, Buried(w) PROVE IInv'
<1>1. /\ TypeOK /\ TypeOK' /\ Others(w)
      /\ UNCHANGED <<cal, edits, job, took, at>>
  BY StepType, TurnOthers DEF IInv, Next, Turn, Buried, stored
<1>2. /\ pc[w] = "dead" /\ pc'[w] = "idle" /\ late'[w] = "none"
      /\ \A f \in Events : took'[w][f] = 0
  BY <1>1 DEF IInv, Shape, Buried, Goes, TypeOK
<1>3. /\ \A f \in Events : f # at[w] => google'[f] = google[f]
      /\ google' = google \/ late[w] # "none"
  BY <1>1, EffectIs DEF Buried
<1>4. \A x \in Workers : Shape(x)' /\ Along(x)'
  <2>1. Shape(w)' /\ Along(w)'
    BY <1>2 DEF Shape, Along
  <2>2. \A x \in Workers : x # w => Shape(x)' /\ Along(x)'
    BY <1>1, <1>3, AlongOthers DEF IInv, Shape, Others
  <2>3. QED
    BY <2>1, <2>2
<1>5. \A f \in Events : Dated(f)'
  BY <1>1 DEF IInv, Dated
<1>6. ASSUME NEW x \in Workers, NEW f \in Events PROVE Held(x, f)'
  <2>1. CASE x = w
    BY <1>2, <2>1 DEF Held, AtWork
  <2>2. CASE x # w
    BY <1>1, <2>2 DEF IInv, Held, AtWork, Holds, Settled, SameGeneration, Others
  <2>3. QED
    BY <2>1, <2>2
<1>7. Converged'
  BY <1>1, <1>3, ConvergedKept DEF Converged
<1>8. QED
  BY <1>1, <1>4, <1>5, <1>6, <1>7 DEF IInv
-----------------------------------------------------------------------------
(* The invariant. *)

LEMMA InitIInv == Init => IInv
<1> SUFFICES ASSUME Init PROVE IInv
  OBVIOUS
<1>1. TypeOK
  BY InitType
<1>2. \A w \in Workers : /\ pc[w] = "idle" /\ late[w] = "none"
                         /\ \A e \in Events : took[w][e] = 0
  BY DEF Init, NothingTaken
<1>3. \A w \in Workers : Shape(w) /\ Along(w) /\ \A e \in Events : Held(w, e)
  BY <1>2 DEF Shape, Along, Held, AtWork
<1>4. \A e \in Events : job[e].queued /\ Dated(e)
  BY <1>2 DEF Init, Dated
<1>5. QED
  BY <1>1, <1>3, <1>4 DEF IInv, Converged

LEMMA StepIInv == ASSUME WorkersEndFirst PROVE IInv /\ [Next]_vars => IInv'
<1>1. ASSUME IInv, Next PROVE IInv'
  BY <1>1, DeadlineKeeps, EditKeeps, ClaimKeeps, PassKeeps, SettleKeeps, KillKeeps, BuriedKeeps
     DEF Next
<1>2. ASSUME IInv, UNCHANGED vars PROVE IInv'
  <2>1. TypeOK'
    BY <1>2, StepType DEF IInv
  <2>2. \A w \in Workers : Shape(w)' /\ Along(w)'
    BY <1>2 DEF IInv, vars, stored, local, Shape, Along, ShownAs, Found
  <2>3. \A e \in Events : Dated(e)' /\ \A w \in Workers : Held(w, e)'
    BY <1>2 DEF IInv, vars, stored, local, Dated, Held, AtWork, Holds, Settled, SameGeneration
  <2>4. Converged'
    BY <1>2 DEF IInv, vars, stored, Converged, Shows, Found
  <2>5. QED
    BY <2>1, <2>2, <2>3, <2>4 DEF IInv
<1>3. QED
  BY <1>1, <1>2

(* If a worker is over before its lock is, one who is at work on an event  *)
(* holds its job or has nothing left to do about it, and what Google shows *)
(* has come as far as the worker's place in its pass says.                 *)
THEOREM Invariance == ASSUME WorkersEndFirst PROVE Spec => []IInv
  BY InitIInv, StepIInv, PTL DEF Spec

(* Under the same condition two workers never rewrite one event at once,   *)
(* although edits queue it anew while it is being rewritten.               *)
THEOREM OneWorkerAlways == ASSUME WorkersEndFirst PROVE Spec => []OneWorker
<1>1. IInv => OneWorker
  BY Exclusive DEF OneWorker, Rewrites
<1>2. QED
  BY <1>1, Invariance, PTL

(* Under the same condition an event without a job is shown right.         *)
THEOREM ConvergedAlways == ASSUME WorkersEndFirst PROVE Spec => []Converged
<1>1. IInv => Converged
  BY DEF IInv
<1>2. QED
  BY <1>1, Invariance, PTL
-----------------------------------------------------------------------------
(* What a lock is for. *)

(* A request that takes effect is one of the worker that holds the lock.   *)
LEMMA EffectUnderLock ==
  ASSUME IInv, NEW w \in Workers, NEW i \in Records, NEW e \in Events, google'[e] # google[e],
         \/ pc[w] \in GooglePhase /\ TakesEffect(w, pc[w], i)
         \/ late[w] # "none" /\ TakesEffect(w, late[w], i)
  PROVE  Holds(w, e)
<1>1. TypeOK /\ e = at[w]
  BY EffectIs DEF IInv
<1>2. pc[w] \notin {"idle", "dead", "fail"} \/ late[w] # "none"
  BY DEF GooglePhase
<1>3. QED
  BY <1>1, <1>2, BusyHolds

LEMMA StepUnderLock ==
  ASSUME IInv, Next, NEW e \in Events, google'[e] # google[e]
  PROVE  \E w \in Workers : Holds(w, e)
<1>1. PICK w \in Workers : \/ Pass(w) \/ Settle(w) \/ Kill(w) \/ Buried(w)
                           \/ \E S \in SUBSET Events : Claim(w, S)
  BY DEF Next, Deadline, RetryFallsDue, LockExpires, Edit
<1>2. \/ \E i \in Records : pc[w] \in GooglePhase /\ TakesEffect(w, pc[w], i)
      \/ \E i \in Records : late[w] # "none" /\ TakesEffect(w, late[w], i)
  BY <1>1 DEF Pass, Read, List, Relist, Rewrite, PassFails, Reread, Settle, Acknowledge, Fail,
     Kill, Buried, Claim
<1>3. QED
  BY <1>2, EffectUnderLock

(* A job is removed only by a worker that acknowledges the newest edit.    *)
LEMMA StepRemovesNewest ==
  ASSUME IInv, Next, NEW e \in Events, job[e].queued, ~job'[e].queued
  PROVE  /\ \E w \in Workers : Holds(w, e) /\ took[w][e] = edits[e] + 1
         /\ Shows(e)'
<1>1. TypeOK /\ Dated(e) /\ job[e] \in Job
  BY DEF IInv, TypeOK
<1>2. ~Outer
  <2>1. ASSUME NEW f \in Events, Deadline(f) PROVE FALSE
    <3>1. \/ job' = [job EXCEPT ![f].due = TRUE]
          \/ job' = [job EXCEPT ![f].live = FALSE]
      BY <2>1 DEF Deadline, RetryFallsDue, LockExpires
    <3>2. \/ job'[e] = job[e]
          \/ job'[e] = [job[e] EXCEPT !.due = TRUE]
          \/ job'[e] = [job[e] EXCEPT !.live = FALSE]
      BY <1>1, <3>1 DEF TypeOK
    <3>3. QED
      BY <1>1, <3>2 DEF Job
  <2>2. ASSUME NEW f \in Events, NEW v \in Calendar, Edit(f, v) PROVE FALSE
    BY <1>1, <2>2 DEF Edit, Requeued, TypeOK
  <2>3. QED
    BY <2>1, <2>2 DEF Outer
<1>3. PICK w \in Workers : \/ Pass(w) \/ Settle(w) \/ Kill(w) \/ Buried(w)
                           \/ \E S \in SUBSET Events : Claim(w, S)
  BY <1>2 DEF Next, Outer
<1>4. ASSUME NEW S \in SUBSET Events, Claim(w, S) PROVE FALSE
  <2>1. job'[e] = IF e \in S THEN [job[e] EXCEPT !.owner = w, !.live = TRUE] ELSE job[e]
    BY <1>4 DEF Claim
  <2>2. QED
    BY <1>1, <2>1 DEF Job
<1>5. Settle(w)
  BY <1>3, <1>4 DEF Pass, Read, List, Relist, Rewrite, PassFails, Reread, Kill, Buried, stored
<1>6. e = at[w] /\ Shows(e)
  BY <1>1, <1>5, SettleJob DEF IInv, TypeOK
<1>7. pc[w] = "acknowledge" /\ SameGeneration(w, e)
  <2>1. ~ReleasedOrNot(w, e)
    BY <1>1, ReleasedIs
  <2>2. job' # [job EXCEPT ![e].due = FALSE, ![e].owner = NoWorker, ![e].live = FALSE]
    BY <1>1 DEF TypeOK, Job
  <2>3. job' # job
    OBVIOUS
  <2>4. QED
    BY <1>5, <1>6, <2>1, <2>2, <2>3 DEF Settle, Acknowledge, Fail
<1>8. Holds(w, e)
  BY <1>6, <1>7, BusyHolds
<1>9. took[w][e] = edits[e] + 1
  BY <1>1, <1>7 DEF Dated, SameGeneration
<1>10. Shows(e)'
  <2>1. UNCHANGED <<cal, google>>
    BY <1>5 DEF Settle, Acknowledge, Fail
  <2>2. QED
    BY <1>6, <2>1 DEF Shows, Found
<1>11. QED
  BY <1>8, <1>9, <1>10

(* What Google shows of an event changes only by a request of the worker   *)
(* that holds the live lock on its job, even the request of a worker that  *)
(* was killed, so an event without a job is not touched; and a job is      *)
(* removed only by the worker that holds it, with the newest edit, and     *)
(* when Google shows the event.                                            *)
LockedRewrites ==
  [][\A e \in Events :
       /\ google'[e] # google[e] => \E w \in Workers : Holds(w, e)
       /\ job[e].queued /\ ~job'[e].queued =>
            /\ \E w \in Workers : Holds(w, e) /\ took[w][e] = edits[e] + 1
            /\ Shows(e)']_vars

(* If a worker is over before its lock is, Google is rewritten under a     *)
(* lock, and no job is removed before its newest edit is shown.            *)
THEOREM LockedRewritesAlways == ASSUME WorkersEndFirst PROVE Spec => LockedRewrites
<1> DEFINE Locked == \A e \in Events :
      /\ google'[e] # google[e] => \E w \in Workers : Holds(w, e)
      /\ job[e].queued /\ ~job'[e].queued =>
           /\ \E w \in Workers : Holds(w, e) /\ took[w][e] = edits[e] + 1
           /\ Shows(e)'
<1>1. IInv /\ [Next]_vars => [Locked]_vars
  BY StepUnderLock, StepRemovesNewest
<1>2. QED
  BY <1>1, Invariance, PTL DEF Spec, LockedRewrites
=============================================================================
