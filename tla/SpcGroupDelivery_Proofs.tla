------------------------ MODULE SpcGroupDelivery_Proofs ------------------------
(***************************************************************************)
(* Proofs about SpcGroupDelivery for any number of jobs, devices, tabs and *)
(* attempts.  Whatever the clocks do: its types, that no job is submitted  *)
(* twice, and that what is recorded as sent was submitted.  If a permit    *)
(* expires before the lease of its claim: that one tab can submit at a     *)
(* time, that nothing is submitted behind the back of a person, and that   *)
(* the queue implements OneSubmission.                                     *)
(***************************************************************************)
EXTENDS SpcGroupDelivery, TLAPS

-----------------------------------------------------------------------------
(* Types. *)

(* Every change of the jobs the actions make stays within Job. *)
LEMMA SweptType == ASSUME TypeOK PROVE Swept \in [Jobs -> Job]
<1>1. ASSUME NEW j \in Jobs PROVE Swept[j] \in Job
  <2>1. job[j] \in Job
    BY DEF TypeOK
  <2>2. [job[j] EXCEPT !.status = "manual_review", !.live = FALSE] \in Job
    BY <2>1 DEF Job, Status
  <2>3. QED
    BY <2>1, <2>2 DEF Swept
<1>2. QED
  BY <1>1 DEF Swept

LEMMA TakenType ==
  ASSUME DeliveryAssumption, NEW q \in [Jobs -> Job], NEW j \in Eligible(q)
  PROVE  /\ Taken(q, j) \in [Jobs -> Job]
         /\ Taken(q, j)[j].attempts \in 1..MaxAttempts
         /\ \A i \in Jobs : Taken(q, j)[i].prepared = q[i].prepared
<1>1. /\ j \in Jobs /\ q[j] \in Job
      /\ q[j].attempts \in 0..MaxAttempts /\ q[j].attempts < MaxAttempts
      /\ MaxAttempts \in Nat
  BY DEF Eligible, DeliveryAssumption, Job
<1>2. q[j].attempts + 1 \in 1..MaxAttempts
  BY <1>1
<1>3. Taken(q, j)[j] \in Job
  <2>1. Taken(q, j)[j] = [q[j] EXCEPT !.status = "claimed", !.live = TRUE, !.attempts = @ + 1]
    BY <1>1 DEF Taken
  <2>2. \A r \in Job, n \in 0..MaxAttempts :
          [r EXCEPT !.status = "claimed", !.live = TRUE, !.attempts = n] \in Job
    BY DEF Job, Status
  <2>3. q[j].attempts + 1 \in 0..MaxAttempts
    BY <1>1, <1>2
  <2>4. QED
    BY <1>1, <2>1, <2>2, <2>3
<1>4. QED
  BY <1>1, <1>2, <1>3 DEF Taken, Job

LEMMA OutcomeType ==
  ASSUME NEW j \in Jobs, NEW res \in Results, job[j] \in Job
  PROVE  Settled(j, res) \in Job
<1>1. Outcome(j, res) \in Results
  BY DEF Outcome, Results
<1>2. QED
  BY <1>1 DEF Settled, Job, Status, Results

(* The conjuncts of TypeOK for each group of variables.  A content script  *)
(* at work has a claim, and one that reports has a result.                 *)
DatabaseTypeOK == /\ job \in [Jobs -> Job]
                  /\ active \in Devices \cup {NoDevice}
                  /\ pairing \subseteq Devices /\ paired \subseteq Devices

ContentTypeOK == /\ pc \in [Tabs -> PC]
                 /\ work \in [Tabs -> Claims \cup {NoClaim}]
                 /\ result \in [Tabs -> Results \cup {"none"}]
                 /\ \A t \in Tabs : pc[t] # "idle" => work[t] \in Claims
                 /\ \A t \in Tabs : pc[t] \in {"done", "reporting"} => result[t] \in Results

BackgroundTypeOK == /\ asking \in [Tabs -> SUBSET Claims]
                    /\ permit \in [Tabs -> Claims \cup {NoClaim}]
                    /\ fresh \in [Tabs -> BOOLEAN]
                    /\ clicks \in [Tabs -> SUBSET Claims]

NetworkTypeOK == /\ asks \subseteq [tab : Tabs, claim : Claims]
                 /\ reports \subseteq [tab : Tabs, claim : Claims, result : Results]

TypeInv == /\ DatabaseTypeOK /\ ContentTypeOK /\ BackgroundTypeOK /\ NetworkTypeOK
           /\ posted \in [Jobs -> Nat]

LEMMA TypeInvTypes == TypeInv => TypeOK
  BY DEF TypeInv, TypeOK, DatabaseTypeOK, ContentTypeOK, BackgroundTypeOK, NetworkTypeOK

LEMMA InitType == ASSUME Init PROVE TypeInv
  BY DeliveryAssumption
  DEF Init, TypeInv, DatabaseTypeOK, ContentTypeOK, BackgroundTypeOK, NetworkTypeOK,
      Job, Status, PC, Jobs

(* Groups of variables that a step leaves alone keep their types. *)
LEMMA TypeKept ==
  /\ DatabaseTypeOK /\ UNCHANGED database => DatabaseTypeOK'
  /\ ContentTypeOK /\ UNCHANGED content => ContentTypeOK'
  /\ BackgroundTypeOK /\ UNCHANGED background => BackgroundTypeOK'
  /\ NetworkTypeOK /\ UNCHANGED network => NetworkTypeOK'
<1>1. DatabaseTypeOK /\ UNCHANGED database => DatabaseTypeOK'
  BY DEF DatabaseTypeOK, database
<1>2. ContentTypeOK /\ UNCHANGED content => ContentTypeOK'
  BY DEF ContentTypeOK, content
<1>3. BackgroundTypeOK /\ UNCHANGED background => BackgroundTypeOK'
  BY DEF BackgroundTypeOK, background
<1>4. NetworkTypeOK /\ UNCHANGED network => NetworkTypeOK'
  BY DEF NetworkTypeOK, network
<1>5. QED
  BY <1>1, <1>2, <1>3, <1>4

(* What a content script does to its own variables keeps their types. *)
LEMMA ContentMoves ==
  ASSUME ContentTypeOK, NEW t \in Tabs, NEW p \in PC \ {"idle", "done"},
         p = "reporting" => result[t] \in Results,
         pc[t] # "idle", Goes(t, p), UNCHANGED <<work, result>>
  PROVE  ContentTypeOK'
  BY DEF ContentTypeOK, Goes

LEMMA ContentReports ==
  ASSUME ContentTypeOK, NEW t \in Tabs, NEW r \in Results,
         pc[t] # "idle", Reports(t, r), UNCHANGED work
  PROVE  ContentTypeOK'
  BY DEF ContentTypeOK, Goes, Reports, PC

LEMMA ContentEnds ==
  ASSUME ContentTypeOK, NEW t \in Tabs, BackToIdle(t)
  PROVE  ContentTypeOK'
  BY DEF ContentTypeOK, BackToIdle, Goes, PC

LEMMA ContentGivesUp ==
  ASSUME ContentTypeOK, NEW t \in Tabs, pc[t] = "reporting", GivenUp(t)
  PROVE  ContentTypeOK'
<1>1. CASE result[t] = "sent"
  BY <1>1, ContentReports DEF GivenUp, Results
<1>2. CASE result[t] # "sent"
  BY <1>2, ContentEnds DEF GivenUp
<1>3. QED
  BY <1>1, <1>2

LEMMA ContentAnswered ==
  ASSUME ContentTypeOK, NEW t \in Tabs, NEW c, NEW good \in BOOLEAN,
         Answers(t, c, good), UNCHANGED work
  PROVE  ContentTypeOK'
<1>1. CASE pc[t] = "clicked" /\ work[t] = c /\ good
  <2>1. Goes(t, "verifying") /\ UNCHANGED <<work, result>>
    BY <1>1 DEF Answers
  <2>2. QED
    BY <1>1, <2>1, ContentMoves DEF PC
<1>2. CASE pc[t] = "clicked" /\ work[t] = c /\ ~good
  <2>1. Reports(t, "manual_review")
    BY <1>2 DEF Answers
  <2>2. QED
    BY <1>2, <2>1, ContentReports DEF Results
<1>3. CASE ~(pc[t] = "clicked" /\ work[t] = c)
  BY <1>3, TypeKept DEF Answers, content
<1>4. QED
  BY <1>1, <1>2, <1>3

(* A changed job is still a job. *)
LEMMA JobEdits ==
  ASSUME NEW r \in Job
  PROVE  /\ [r EXCEPT !.status = "queued"] \in Job
         /\ [r EXCEPT !.status = "withdrawn", !.live = FALSE] \in Job
         /\ [r EXCEPT !.live = FALSE] \in Job
         /\ [r EXCEPT !.due = TRUE] \in Job
         /\ [r EXCEPT !.prepared = TRUE] \in Job
  BY DEF Job, Status

LEMMA BuyerType == ASSUME TypeInv, Buyer PROVE TypeInv'
<1>1. PICK j \in Jobs : Enqueue(j) \/ Withdraw(j)
  BY DEF Buyer
<1>2. job[j] \in Job /\ job \in [Jobs -> Job]
  BY DEF TypeInv, DatabaseTypeOK
<1>3. job' \in [Jobs -> Job]
  BY <1>1, <1>2, JobEdits DEF Enqueue, Withdraw
<1>4. UNCHANGED <<active, pairing, paired, content, background, network, posted>>
  BY <1>1 DEF Enqueue, Withdraw
<1>5. QED
  BY <1>3, <1>4, TypeKept DEF TypeInv, DatabaseTypeOK

LEMMA PairingType == ASSUME TypeInv, Pairing PROVE TypeInv'
<1>1. UNCHANGED <<job, content, background, network, posted>>
  BY DEF Pairing, Revoke, PairDeactivates, PairActivates, PairFails
<1>2. DatabaseTypeOK'
  BY DEF TypeInv, Pairing, Revoke, PairDeactivates, PairActivates, PairFails, DatabaseTypeOK
<1>3. QED
  BY <1>1, <1>2, TypeKept DEF TypeInv

LEMMA DeadlineType == ASSUME TypeInv, Deadline PROVE TypeInv'
<1>1. CASE \E j \in Jobs : LeaseExpires(j) \/ RetryFallsDue(j)
  <2>1. PICK j \in Jobs : LeaseExpires(j) \/ RetryFallsDue(j)
    BY <1>1
  <2>2. job[j] \in Job /\ job \in [Jobs -> Job]
    BY DEF TypeInv, DatabaseTypeOK
  <2>3. job' \in [Jobs -> Job]
    BY <2>1, <2>2, JobEdits DEF LeaseExpires, RetryFallsDue
  <2>4. UNCHANGED <<active, pairing, paired, content, background, network, posted>>
    BY <2>1 DEF LeaseExpires, RetryFallsDue
  <2>5. QED
    BY <2>3, <2>4, TypeKept DEF TypeInv, DatabaseTypeOK
<1>2. CASE \E t \in Tabs : PermitExpires(t)
  <2>1. UNCHANGED <<database, content, asking, permit, clicks, network, posted>>
    BY <1>2 DEF PermitExpires
  <2>2. BackgroundTypeOK'
    BY <1>2 DEF TypeInv, PermitExpires, BackgroundTypeOK
  <2>3. QED
    BY <2>1, <2>2, TypeKept DEF TypeInv
<1>3. QED
  BY <1>1, <1>2 DEF Deadline

LEMMA PrepareType == ASSUME TypeInv, NEW m \in asks, Prepare(m) PROVE TypeInv'
<1>1. /\ m.tab \in Tabs /\ m.claim \in Claims /\ m.claim.job \in Jobs
      /\ job[m.claim.job] \in Job /\ job \in [Jobs -> Job]
  BY DEF TypeInv, NetworkTypeOK, DatabaseTypeOK, Claims
<1>2. job' \in [Jobs -> Job]
  BY <1>1, JobEdits DEF Prepare, Recorded
<1>3. UNCHANGED <<active, pairing, paired, work, result, clicks, reports, posted>>
  BY DEF Prepare
<1>4. ContentTypeOK'
  <2>1. CASE UNCHANGED pc
    BY <1>3, <2>1 DEF TypeInv, ContentTypeOK
  <2>2. CASE pc' # pc
    <3>1. pc[m.tab] = "preparing" /\ Goes(m.tab, "permitted")
      BY <2>2 DEF Prepare, Goes
    <3>2. QED
      BY <1>1, <1>3, <3>1, ContentMoves DEF TypeInv, PC
  <2>3. QED
    BY <2>1, <2>2
<1>5. BackgroundTypeOK'
  <2>1. CASE UNCHANGED <<asking, permit, fresh>>
    BY <1>3, <2>1 DEF TypeInv, BackgroundTypeOK
  <2>2. CASE /\ asking' = [asking EXCEPT ![m.tab] = @ \ {m.claim}]
             /\ permit' = [permit EXCEPT ![m.tab] = m.claim]
             /\ fresh' = [fresh EXCEPT ![m.tab] = TRUE]
    BY <1>1, <1>3, <2>2 DEF TypeInv, BackgroundTypeOK
  <2>3. QED
    BY <2>1, <2>2 DEF Prepare
<1>6. NetworkTypeOK'
  BY <1>3 DEF TypeInv, NetworkTypeOK, Prepare
<1>7. QED
  BY <1>2, <1>3, <1>4, <1>5, <1>6 DEF TypeInv, DatabaseTypeOK

LEMMA CompleteType == ASSUME TypeInv, NEW m \in reports, Complete(m) PROVE TypeInv'
<1>1. /\ m.tab \in Tabs /\ m.claim.job \in Jobs /\ m.result \in Results
      /\ job[m.claim.job] \in Job /\ job \in [Jobs -> Job]
  BY DEF TypeInv, NetworkTypeOK, DatabaseTypeOK, Claims
<1>2. job' \in [Jobs -> Job]
  BY <1>1, OutcomeType DEF Complete
<1>3. UNCHANGED <<active, pairing, paired, background, asks, posted>>
  BY DEF Complete
<1>4. ContentTypeOK'
  <2>1. \/ pc[m.tab] = "reporting" /\ (BackToIdle(m.tab) \/ GivenUp(m.tab))
        \/ UNCHANGED content
    BY DEF Complete
  <2>2. QED
    BY <1>1, <2>1, ContentEnds, ContentGivesUp, TypeKept DEF TypeInv
<1>5. NetworkTypeOK'
  BY <1>3 DEF TypeInv, NetworkTypeOK, Complete
<1>6. QED
  BY <1>2, <1>3, <1>4, <1>5, TypeKept DEF TypeInv, DatabaseTypeOK

LEMMA ClaimType == ASSUME TypeInv, NEW t \in Tabs, Claim(t) PROVE TypeInv'
<1>1. UNCHANGED <<active, pairing, paired, result, background, network, posted>>
  BY DEF Claim
<1>2. TypeOK
  BY TypeInvTypes
<1>3. job' \in [Jobs -> Job] /\ ContentTypeOK'
  <2>1. CASE job' = Swept /\ UNCHANGED <<pc, work>>
    BY <1>1, <1>2, <2>1, SweptType DEF TypeInv, ContentTypeOK
  <2>2. ASSUME NEW j \in Eligible(Swept), job' = Taken(Swept, j),
               \/ /\ Goes(t, "staging")
                  /\ work' = [work EXCEPT ![t] = [job |-> j, attempt |-> job'[j].attempts]]
               \/ UNCHANGED <<pc, work>>
        PROVE  job' \in [Jobs -> Job] /\ ContentTypeOK'
    <3>1. /\ job' \in [Jobs -> Job] /\ job'[j].attempts \in 1..MaxAttempts
          /\ j \in Jobs
      BY <1>2, <2>2, SweptType, TakenType, DeliveryAssumption DEF Eligible
    <3>2. [job |-> j, attempt |-> job'[j].attempts] \in Claims
      BY <3>1 DEF Claims
    <3>3. CASE UNCHANGED <<pc, work>>
      BY <1>1, <3>1, <3>3 DEF TypeInv, ContentTypeOK
    <3>4. CASE /\ Goes(t, "staging")
               /\ work' = [work EXCEPT ![t] = [job |-> j, attempt |-> job'[j].attempts]]
      BY <1>1, <3>1, <3>2, <3>4 DEF TypeInv, ContentTypeOK, Goes, PC
    <3>5. QED
      BY <2>2, <3>3, <3>4
  <2>3. QED
    BY <2>1, <2>2 DEF Claim
<1>4. QED
  BY <1>1, <1>3, TypeKept DEF TypeInv, DatabaseTypeOK

LEMMA ContentStepType == ASSUME TypeInv, NEW t \in Tabs, ContentStep(t) \/ TabReloads(t)
                         PROVE  TypeInv'
<1>1. UNCHANGED <<database, posted>>
  BY DEF ContentStep, TabReloads, StagingFails, AskPermit, RecheckFails, Click, Verify,
         Report, ReportFails
<1>2. ContentTypeOK
  BY DEF TypeInv
<1>3. CASE StagingFails(t) \/ RecheckFails(t) \/ Verify(t)
  <2>1. /\ \E r \in Results : Reports(t, r)
        /\ pc[t] # "idle" /\ UNCHANGED <<work, background, network>>
    BY <1>3 DEF StagingFails, RecheckFails, Verify, Seen, Results
  <2>2. QED
    BY <1>1, <1>2, <2>1, ContentReports, TypeKept DEF TypeInv
<1>4. CASE AskPermit(t)
  <2>1. pc[t] = "staging" /\ work[t] \in Claims
    BY <1>2, <1>4 DEF AskPermit, ContentTypeOK
  <2>2. ContentTypeOK'
    BY <1>2, <1>4, <2>1, ContentMoves DEF AskPermit, PC
  <2>3. BackgroundTypeOK'
    BY <1>4, <2>1 DEF TypeInv, AskPermit, BackgroundTypeOK
  <2>4. NetworkTypeOK'
    BY <1>4, <2>1 DEF TypeInv, AskPermit, NetworkTypeOK
  <2>5. QED
    BY <1>1, <2>2, <2>3, <2>4, TypeKept DEF TypeInv
<1>5. CASE Click(t)
  <2>1. pc[t] = "permitted" /\ work[t] \in Claims
    BY <1>2, <1>5 DEF Click, ContentTypeOK
  <2>2. ContentTypeOK'
    BY <1>2, <1>5, <2>1, ContentMoves DEF Click, PC
  <2>3. BackgroundTypeOK'
    BY <1>5, <2>1 DEF TypeInv, Click, BackgroundTypeOK
  <2>4. UNCHANGED network
    BY <1>5 DEF Click
  <2>5. QED
    BY <1>1, <2>2, <2>3, <2>4, TypeKept DEF TypeInv
<1>6. CASE Report(t)
  <2>1. pc[t] = "done" /\ work[t] \in Claims /\ result[t] \in Results
    BY <1>2, <1>6 DEF Report, ContentTypeOK
  <2>2. ContentTypeOK'
    BY <1>2, <1>6, <2>1, ContentMoves DEF Report, PC
  <2>3. NetworkTypeOK'
    BY <1>6, <2>1 DEF TypeInv, Report, NetworkTypeOK
  <2>4. UNCHANGED background
    BY <1>6 DEF Report
  <2>5. QED
    BY <1>1, <2>2, <2>3, <2>4, TypeKept DEF TypeInv
<1>7. CASE ReportFails(t) \/ TabReloads(t)
  <2>1. UNCHANGED <<background, network>>
    BY <1>7 DEF ReportFails, TabReloads
  <2>2. ContentTypeOK'
    BY <1>2, <1>7, ContentGivesUp, ContentEnds DEF ReportFails, TabReloads
  <2>3. QED
    BY <1>1, <2>1, <2>2, TypeKept DEF TypeInv
<1>8. QED
  BY <1>3, <1>4, <1>5, <1>6, <1>7 DEF ContentStep

LEMMA BackgroundStepType ==
  ASSUME TypeInv, NEW t \in Tabs, NEW c \in Claims,
         AskFails(t, c) \/ TargetMissed(t, c) \/ Submit(t, c)
  PROVE  TypeInv'
<1>1. UNCHANGED <<database, work, network>>
  BY DEF AskFails, TargetMissed, Submit
<1>2. ContentTypeOK
  BY DEF TypeInv
<1>3. CASE AskFails(t, c)
  <2>1. UNCHANGED <<permit, fresh, clicks, posted>>
    BY <1>3 DEF AskFails
  <2>2. CASE pc[t] = "preparing" /\ Reports(t, "manual_review")
    <3>1. ContentTypeOK'
      BY <1>1, <1>2, <2>2, ContentReports DEF Results
    <3>2. BackgroundTypeOK'
      BY <1>3, <2>1 DEF TypeInv, AskFails, BackgroundTypeOK
    <3>3. QED
      BY <1>1, <2>1, <3>1, <3>2, TypeKept DEF TypeInv
  <2>3. CASE UNCHANGED <<pc, result>>
    <3>1. BackgroundTypeOK'
      BY <1>3, <2>1 DEF TypeInv, AskFails, BackgroundTypeOK
    <3>2. QED
      BY <1>1, <2>1, <2>3, <3>1, TypeKept DEF TypeInv, content
  <2>4. QED
    BY <1>3, <2>2, <2>3 DEF AskFails
<1>4. CASE TargetMissed(t, c)
  <2>1. ContentTypeOK'
    BY <1>1, <1>2, <1>4, ContentAnswered DEF TargetMissed
  <2>2. BackgroundTypeOK'
    BY <1>4 DEF TypeInv, TargetMissed, BackgroundTypeOK
  <2>3. UNCHANGED posted
    BY <1>4 DEF TargetMissed
  <2>4. QED
    BY <1>1, <2>1, <2>2, <2>3, TypeKept DEF TypeInv
<1>5. CASE Submit(t, c)
  <2>1. \E good \in BOOLEAN : Answers(t, c, good)
    BY <1>5 DEF Submit
  <2>2. ContentTypeOK'
    BY <1>1, <1>2, <2>1, ContentAnswered
  <2>3. BackgroundTypeOK'
    BY <1>5 DEF TypeInv, Submit, PermitUsed, BackgroundTypeOK
  <2>4. posted' \in [Jobs -> Nat]
    <3>1. c.job \in Jobs /\ posted \in [Jobs -> Nat] /\ posted[c.job] + 1 \in Nat
      BY DEF TypeInv, Claims
    <3>2. posted' = posted \/ posted' = [posted EXCEPT ![c.job] = posted[c.job] + 1]
      BY <1>5 DEF Submit
    <3>3. QED
      BY <3>1, <3>2
  <2>5. QED
    BY <1>1, <2>2, <2>3, <2>4, TypeKept DEF TypeInv
<1>6. QED
  BY <1>3, <1>4, <1>5

LEMMA BackgroundStopsType == ASSUME TypeInv, NEW d \in Devices, BackgroundStops(d)
                             PROVE  TypeInv'
<1>1. UNCHANGED <<database, network, posted>>
  BY DEF BackgroundStops
<1>2. BackgroundTypeOK'
  BY DEF TypeInv, BackgroundStops, BackgroundTypeOK
<1>3. ContentTypeOK'
  <2>1. /\ pc \in [Tabs -> PC] /\ work \in [Tabs -> Claims \cup {NoClaim}]
        /\ result \in [Tabs -> Results \cup {"none"}]
    BY DEF TypeInv, ContentTypeOK
  <2>2. /\ pc' \in [Tabs -> PC] /\ work' \in [Tabs -> Claims \cup {NoClaim}]
        /\ result' \in [Tabs -> Results \cup {"none"}]
    BY <2>1, Zenon DEF BackgroundStops, PC, Results
  <2>3. ASSUME NEW t \in Tabs
        PROVE  /\ pc'[t] = "done" /\ work'[t] = work[t] /\ pc[t] # "idle"
                  /\ result'[t] = "manual_review"
               \/ pc'[t] = "idle"
               \/ /\ pc'[t] = pc[t] /\ work'[t] = work[t] /\ result'[t] = result[t]
    BY DEF BackgroundStops
  <2>4. QED
    BY <2>1, <2>2, <2>3 DEF TypeInv, ContentTypeOK, Results
<1>4. QED
  BY <1>1, <1>2, <1>3, TypeKept DEF TypeInv

LEMMA TypeStep == ASSUME TypeInv, [Next]_vars PROVE TypeInv'
<1>1. CASE UNCHANGED vars
  BY <1>1, TypeKept DEF TypeInv, vars
<1>2. CASE Lost
  BY <1>2, TypeKept DEF Lost, TypeInv, NetworkTypeOK
<1>3. CASE Server
  BY <1>3, PrepareType, CompleteType DEF Server
<1>4. ASSUME NEW t \in Tabs, Worker(t) PROVE TypeInv'
  BY <1>4, ClaimType, ContentStepType, BackgroundStepType DEF Worker, BackgroundStep
<1>5. QED
  BY <1>1, <1>2, <1>3, <1>4, BuyerType, PairingType, DeadlineType, BackgroundStopsType
  DEF Next

(* Queue, devices, network and WhatsApp keep their types whatever fails: in *)
(* particular no claim is ever counted past the last attempt.               *)
THEOREM TypeCorrect == Spec => []TypeOK
<1>1. Init => TypeInv
  BY InitType
<1>2. TypeInv /\ [Next]_vars => TypeInv'
  BY TypeStep
<1>3. QED
  BY <1>1, <1>2, TypeInvTypes, PTL DEF Spec

-----------------------------------------------------------------------------
(* At most one submission.  A job's permit is the only way to submit it: it *)
(* is granted once, marks the job prepared for ever, lies with one tab, and *)
(* is gone when the job is submitted.                                       *)

Settling == {"claimed", "sent", "manual_review", "withdrawn"}

PermitIsRecorded == \A t \in Tabs : permit[t] # NoClaim => job[permit[t].job].prepared

OnePermit == \A t, u \in Tabs :
  permit[t] # NoClaim /\ permit[u] # NoClaim /\ permit[t].job = permit[u].job => t = u

PermitIsSpent == \A j \in Jobs : posted[j] > 0 =>
  job[j].prepared /\ \A t \in Tabs : permit[t] # NoClaim => permit[t].job # j

(* A prepared job never waits in the queue. *)
PreparedIsSettling == \A j \in Jobs : job[j].prepared => job[j].status \in Settling

OneShot == /\ PermitIsRecorded /\ OnePermit /\ PermitIsSpent
           /\ PreparedIsSettling /\ AtMostOnce

LEMMA OneShotInit == ASSUME Init PROVE OneShot
  BY DEF Init, OneShot, PermitIsRecorded, OnePermit, PermitIsSpent, PreparedIsSettling,
         AtMostOnce

(* Whatever grants no permit and submits nothing. *)
LEMMA PermitsFade ==
  ASSUME TypeInv, OneShot, UNCHANGED posted,
         \A t \in Tabs : permit'[t] \in {permit[t], NoClaim},
         \A j \in Jobs : job[j].prepared => job'[j].prepared,
         \A j \in Jobs : job'[j].prepared => job'[j].status \in Settling
  PROVE  OneShot'
<1>1. \A t \in Tabs : permit[t] # NoClaim => permit[t].job \in Jobs
  BY DEF TypeInv, BackgroundTypeOK, Claims
<1>2. QED
  BY <1>1 DEF OneShot, PermitIsRecorded, OnePermit, PermitIsSpent, PreparedIsSettling,
              AtMostOnce

(* The claims, settlements and withdrawals of the queue keep prepared jobs *)
(* where they belong.                                                      *)
LEMMA QueueKeepsPrepared ==
  ASSUME TypeInv, PreparedIsSettling, NEW j \in Jobs,
         \/ Enqueue(j) \/ Withdraw(j) \/ LeaseExpires(j) \/ RetryFallsDue(j)
  PROVE  \A i \in Jobs : /\ job'[i].prepared = job[i].prepared
                         /\ job'[i].prepared => job'[i].status \in Settling
<1>1. job \in [Jobs -> Job]
  BY DEF TypeInv, DatabaseTypeOK
<1>2. ASSUME NEW i \in Jobs
      PROVE  /\ job'[i].prepared = job[i].prepared
             /\ job'[i].status \in {job[i].status, "withdrawn"}
                \/ job[i].status = "absent"
  BY <1>1, <1>2 DEF Enqueue, Withdraw, LeaseExpires, RetryFallsDue, Job
<1>3. QED
  BY <1>2 DEF PreparedIsSettling, Settling

LEMMA ClaimKeepsPrepared ==
  ASSUME TypeInv, PreparedIsSettling, NEW t \in Tabs, Claim(t)
  PROVE  \A i \in Jobs : /\ job'[i].prepared = job[i].prepared
                         /\ job'[i].prepared => job'[i].status \in Settling
<1>1. job \in [Jobs -> Job] /\ TypeOK
  BY TypeInvTypes DEF TypeInv, DatabaseTypeOK
<1>2. ASSUME NEW i \in Jobs
      PROVE  /\ Swept[i].prepared = job[i].prepared
             /\ Swept[i].prepared => Swept[i].status \in Settling
  BY <1>1 DEF PreparedIsSettling, Settling, Swept, Job
<1>3. ASSUME NEW j \in Eligible(Swept), NEW i \in Jobs
      PROVE  /\ Taken(Swept, j)[i].prepared = Swept[i].prepared
             /\ Taken(Swept, j)[i].prepared => Taken(Swept, j)[i].status \in Settling
  <2>1. Swept \in [Jobs -> Job] /\ ~Swept[j].prepared
    BY <1>1, SweptType DEF Eligible
  <2>2. Taken(Swept, j)[i].prepared = Swept[i].prepared
    BY <2>1, TakenType, DeliveryAssumption
  <2>3. i # j => Taken(Swept, j)[i] = Swept[i]
    BY <2>1 DEF Taken
  <2>4. QED
    BY <1>2, <2>1, <2>2, <2>3
<1>4. job' = Swept \/ \E j \in Eligible(Swept) : job' = Taken(Swept, j)
  BY DEF Claim
<1>5. QED
  BY <1>2, <1>3, <1>4

LEMMA CompleteKeepsPrepared ==
  ASSUME TypeInv, PreparedIsSettling, NEW m \in reports, Complete(m)
  PROVE  \A i \in Jobs : /\ job'[i].prepared = job[i].prepared
                         /\ job'[i].prepared => job'[i].status \in Settling
<1>1. /\ job \in [Jobs -> Job] /\ m.claim.job \in Jobs /\ m.result \in Results
  BY DEF TypeInv, DatabaseTypeOK, NetworkTypeOK, Claims
<1>2. ASSUME NEW i \in Jobs, NEW res \in Results
      PROVE  /\ Settled(i, res).prepared = job[i].prepared
             /\ Settled(i, res).status = Outcome(i, res)
             /\ job[i].prepared => Outcome(i, res) \in Settling
  BY <1>1 DEF Settled, Outcome, Job, Results, Settling
<1>3. \/ job' = job
      \/ job' = [job EXCEPT ![m.claim.job] = Settled(m.claim.job, m.result)]
  BY DEF Complete
<1>4. QED
  BY <1>1, <1>2, <1>3 DEF PreparedIsSettling

LEMMA PrepareOneShot ==
  ASSUME TypeInv, OneShot, NEW m \in asks, Prepare(m)
  PROVE  OneShot'
<1> DEFINE t == m.tab
           c == m.claim
<1>1. /\ t \in Tabs /\ c \in Claims /\ c.job \in Jobs /\ job \in [Jobs -> Job]
      /\ permit \in [Tabs -> Claims \cup {NoClaim}]
  BY DEF TypeInv, NetworkTypeOK, DatabaseTypeOK, BackgroundTypeOK, Claims
<1>2. UNCHANGED posted
  BY DEF Prepare
<1>3. ASSUME NEW i \in Jobs
      PROVE  /\ job[i].prepared => job'[i].prepared
             /\ job'[i].prepared => job'[i].status \in Settling
  <2>1. CASE job' = job
    BY <2>1 DEF OneShot, PreparedIsSettling
  <2>2. CASE MayPrepare(t, c) /\ job' = Recorded(c.job)
    <3>1. job'[i].status = job[i].status /\ (job[i].prepared => job'[i].prepared)
          /\ (i # c.job => job'[i].prepared = job[i].prepared)
      BY <1>1, <2>2 DEF Recorded, Job
    <3>2. job[c.job].status = "claimed"
      BY <2>2 DEF MayPrepare, Owns
    <3>3. QED
      BY <3>1, <3>2 DEF OneShot, PreparedIsSettling, Settling
  <2>3. QED
    BY <2>1, <2>2 DEF Prepare
<1>4. CASE UNCHANGED permit
  BY <1>1, <1>2, <1>3, <1>4, PermitsFade
<1>5. CASE permit' # permit
  <2>1. MayPrepare(t, c) /\ permit' = [permit EXCEPT ![t] = c] /\ job' = Recorded(c.job)
    BY <1>5 DEF Prepare
  <2>2. job'[c.job].prepared
    BY <1>1, <2>1 DEF Recorded, Job
  (* The job had no permit yet and has not been submitted. *)
  <2>3. /\ posted[c.job] = 0
        /\ \A u \in Tabs : permit[u] # NoClaim => permit[u].job # c.job
    BY <1>1, <2>1 DEF MayPrepare, OneShot, PermitIsRecorded, PermitIsSpent, TypeInv
  <2>4. c # NoClaim
    BY <1>1, DeliveryAssumption
  <2>5. \A u \in Tabs : permit'[u] = IF u = t THEN c ELSE permit[u]
    BY <1>1, <2>1
  <2>6. \A u \in Tabs : permit[u] # NoClaim => permit[u].job \in Jobs
    BY <1>1 DEF Claims
  <2>7. PermitIsRecorded'
    BY <1>3, <2>2, <2>5, <2>6 DEF OneShot, PermitIsRecorded
  <2>8. OnePermit'
    BY <2>3, <2>4, <2>5 DEF OneShot, OnePermit
  <2>9. PermitIsSpent'
    BY <1>2, <1>3, <2>3, <2>5 DEF OneShot, PermitIsSpent
  <2>10. QED
    BY <1>2, <1>3, <2>7, <2>8, <2>9 DEF OneShot, PreparedIsSettling, AtMostOnce
<1>6. QED
  BY <1>4, <1>5

LEMMA SubmitOneShot ==
  ASSUME TypeInv, OneShot, NEW t \in Tabs, NEW c \in Claims, Submit(t, c)
  PROVE  OneShot'
<1>1. /\ c.job \in Jobs /\ job \in [Jobs -> Job] /\ posted \in [Jobs -> Nat]
      /\ permit \in [Tabs -> Claims \cup {NoClaim}] /\ c # NoClaim
  BY DeliveryAssumption DEF TypeInv, DatabaseTypeOK, BackgroundTypeOK, Claims
<1>2. UNCHANGED job /\ \A u \in Tabs : permit'[u] = IF u = t THEN NoClaim ELSE permit[u]
  BY <1>1 DEF Submit, PermitUsed, database
<1>3. \A i \in Jobs : job'[i].prepared => job'[i].status \in Settling
  BY <1>2 DEF OneShot, PreparedIsSettling
<1>4. CASE UNCHANGED posted
  BY <1>2, <1>3, <1>4, PermitsFade
<1>5. CASE permit[t] = c /\ posted' = [posted EXCEPT ![c.job] = @ + 1]
  <2>1. posted[c.job] = 0 /\ job[c.job].prepared
    BY <1>1, <1>5 DEF OneShot, PermitIsRecorded, PermitIsSpent
  <2>2. \A i \in Jobs : posted'[i] = IF i = c.job THEN 1 ELSE posted[i]
    BY <1>1, <1>5, <2>1
  <2>3. \A u \in Tabs : permit'[u] # NoClaim => permit[u] = permit'[u] /\ permit[u].job # c.job
    BY <1>1, <1>2, <1>5 DEF OneShot, OnePermit
  <2>4. PermitIsSpent'
    BY <1>2, <2>1, <2>2, <2>3 DEF OneShot, PermitIsSpent
  <2>5. AtMostOnce'
    BY <2>2 DEF OneShot, AtMostOnce
  <2>6. PermitIsRecorded' /\ OnePermit'
    BY <1>2, <2>3 DEF OneShot, PermitIsRecorded, OnePermit
  <2>7. QED
    BY <1>3, <2>4, <2>5, <2>6 DEF OneShot, PreparedIsSettling
<1>6. QED
  BY <1>4, <1>5 DEF Submit

LEMMA OneShotStep == ASSUME TypeInv, OneShot, [Next]_vars PROVE OneShot'
<1>1. permit \in [Tabs -> Claims \cup {NoClaim}] /\ PreparedIsSettling
  BY DEF TypeInv, BackgroundTypeOK, OneShot
(* Steps that leave the jobs alone and grant or use no permit. *)
<1>2. ASSUME UNCHANGED <<job, posted>>,
             \A t \in Tabs : permit'[t] \in {permit[t], NoClaim}
      PROVE  OneShot'
  BY <1>1, <1>2, PermitsFade DEF PreparedIsSettling
(* Steps of the queue. *)
<1>3. ASSUME UNCHANGED <<background, posted>>,
             \A i \in Jobs : /\ job'[i].prepared = job[i].prepared
                             /\ job'[i].prepared => job'[i].status \in Settling
      PROVE  OneShot'
  BY <1>3, PermitsFade DEF background
<1>4. CASE UNCHANGED vars
  BY <1>2, <1>4 DEF vars, database, background
<1>5. CASE Buyer
  BY <1>1, <1>3, <1>5, QueueKeepsPrepared DEF Buyer, Enqueue, Withdraw
<1>6. CASE Pairing
  BY <1>2, <1>6 DEF Pairing, Revoke, PairDeactivates, PairActivates, PairFails, background
<1>7. CASE Deadline
  <2>1. CASE \E j \in Jobs : LeaseExpires(j) \/ RetryFallsDue(j)
    BY <1>1, <1>3, <2>1, QueueKeepsPrepared DEF LeaseExpires, RetryFallsDue
  <2>2. CASE \E t \in Tabs : PermitExpires(t)
    BY <1>2, <2>2 DEF PermitExpires, database
  <2>3. QED
    BY <1>7, <2>1, <2>2 DEF Deadline
<1>8. CASE Server
  <2>1. CASE \E m \in asks : Prepare(m)
    BY <2>1, PrepareOneShot
  <2>2. CASE \E m \in reports : Complete(m)
    BY <1>1, <1>3, <2>2, CompleteKeepsPrepared DEF Complete
  <2>3. QED
    BY <1>8, <2>1, <2>2 DEF Server
<1>9. CASE Lost
  BY <1>2, <1>9 DEF Lost, database, background
<1>10. ASSUME NEW t \in Tabs, Worker(t) PROVE OneShot'
  <2>1. CASE Claim(t)
    BY <1>1, <1>3, <2>1, ClaimKeepsPrepared DEF Claim
  <2>2. CASE ContentStep(t) \/ TabReloads(t)
    <3>1. UNCHANGED <<job, posted>>
      BY <2>2 DEF ContentStep, TabReloads, StagingFails, AskPermit, RecheckFails, Click,
                  Verify, Report, ReportFails, database
    <3>2. permit' = permit \/ permit' = [permit EXCEPT ![t] = NoClaim]
      BY <2>2 DEF ContentStep, TabReloads, StagingFails, AskPermit, RecheckFails, Click,
                  Verify, Report, ReportFails, background
    <3>3. QED
      BY <1>1, <1>2, <3>1, <3>2
  <2>3. ASSUME NEW c \in Claims, AskFails(t, c) \/ TargetMissed(t, c) PROVE OneShot'
    BY <1>2, <2>3 DEF AskFails, TargetMissed, database
  <2>4. QED
    BY <1>10, <2>1, <2>2, <2>3, SubmitOneShot DEF Worker, BackgroundStep
<1>11. ASSUME NEW d \in Devices, BackgroundStops(d) PROVE OneShot'
  BY <1>1, <1>2, <1>11 DEF BackgroundStops, database
<1>12. QED
  BY <1>4, <1>5, <1>6, <1>7, <1>8, <1>9, <1>10, <1>11 DEF Next

(* The inductive invariant holds whatever expires, is lost, repeated,      *)
(* reloaded or paired anew, and whatever the clocks of the devices do.     *)
THEOREM Invariance == Spec => [](TypeInv /\ OneShot)
<1>1. Init => TypeInv /\ OneShot
  BY InitType, OneShotInit
<1>2. TypeInv /\ OneShot /\ [Next]_vars => (TypeInv /\ OneShot)'
  BY TypeStep, OneShotStep
<1>3. QED
  BY <1>1, <1>2, PTL DEF Spec

(* No job is ever submitted twice by the machine. *)
THEOREM SubmittedAtMostOnce == Spec => []AtMostOnce
<1>1. OneShot => AtMostOnce
  BY DEF OneShot
<1>2. QED
  BY <1>1, Invariance, PTL

(* A submitted job never waits to be sent again. *)
THEOREM SubmittedNeverQueued == Spec => []NeverQueuedAgain
<1>1. OneShot => NeverQueuedAgain
  BY DEF OneShot, PermitIsSpent, PreparedIsSettling, NeverQueuedAgain, Settling
<1>2. QED
  BY <1>1, Invariance, PTL

-----------------------------------------------------------------------------
(* Who holds a claim.  A claim is given to one tab, and whatever that tab, *)
(* its background script and its requests say of it, they say of their own.*)

Mine(t) == {c \in Claims :
  \/ c = work[t] \/ c = permit[t] \/ c \in asking[t] \/ c \in clicks[t]
  \/ \E m \in asks : m.tab = t /\ m.claim = c
  \/ \E m \in reports : m.tab = t /\ m.claim = c}

ClaimsMade == \A t \in Tabs : \A c \in Mine(t) : c.attempt <= job[c.job].attempts

OneTab == \A t, u \in Tabs : \A c \in Claims : c \in Mine(t) /\ c \in Mine(u) => t = u

(* Only what has been permitted is clicked, and the content script waits   *)
(* for the answer.                                                         *)
ClickIsPermitted == \A t \in Tabs :
  /\ \A c \in clicks[t] : job[c.job].prepared
  /\ pc[t] = "permitted" => job[work[t].job].prepared
  /\ work[t] \in clicks[t] => pc[t] = "clicked"

(* A claim is reported when nothing is left to be clicked for it. *)
ReportIsLast == \A m \in reports :
  /\ m.claim \notin clicks[m.tab]
  /\ work[m.tab] = m.claim => pc[m.tab] \in {"done", "reporting"}

OneLive == \A i, j \in InFlight(job) : i = j

SentIsSeen ==
  /\ \A t \in Tabs : result[t] = "sent" =>
       pc[t] \in {"done", "reporting"} /\ posted[work[t].job] > 0
  /\ \A m \in reports : m.result = "sent" => posted[m.claim.job] > 0

(* The claim of a tab that may submit is the live one of its job, unless   *)
(* the job has been withdrawn.                                             *)
LiveWhileArmed == \A t \in Tabs : MaySubmit(t) =>
  \/ job[permit[t].job].status = "withdrawn"
  \/ /\ permit[t].job \in InFlight(job)
     /\ permit[t].attempt = job[permit[t].job].attempts

Single == /\ ClaimsMade /\ OneTab /\ ClickIsPermitted /\ ReportIsLast
          /\ OneLive /\ SentIsSeen /\ LiveWhileArmed

LEMMA SingleInit == ASSUME Init PROVE Single
<1>1. NoClaim \notin Claims
  BY DeliveryAssumption
<1>2. \A t \in Tabs : Mine(t) = {}
  BY <1>1 DEF Init, Mine
<1>3. \A t \in Tabs : ~MaySubmit(t)
  BY DEF Init, MaySubmit
<1>4. InFlight(job) = {}
  BY DEF Init, InFlight
<1>5. QED
  BY <1>2, <1>3, <1>4
  DEF Init, Single, ClaimsMade, OneTab, ClickIsPermitted, ReportIsLast, OneLive, SentIsSeen,
      LiveWhileArmed

LEMMA ArmedHasClaim ==
  ASSUME TypeInv, NEW t \in Tabs, MaySubmit(t)
  PROVE  permit[t] \in Claims /\ permit[t] \in Mine(t)
<1>1. permit[t] \in Claims
  BY DEF TypeInv, BackgroundTypeOK, ContentTypeOK, MaySubmit
<1>2. QED
  BY <1>1 DEF Mine

(* What a tab does with its own claims leaves it no others. *)
LEMMA MineKept ==
  ASSUME NEW t \in Tabs,
         work'[t] \in {work[t], NoClaim},
         permit'[t] \in {permit[t], NoClaim} \cup asking[t],
         asking'[t] \subseteq asking[t] \cup {work[t]},
         clicks'[t] \subseteq clicks[t] \cup {work[t]},
         \A m \in asks' : m \in asks \/ (m.tab = t => m.claim = work[t]),
         \A m \in reports' : m \in reports \/ (m.tab = t => m.claim = work[t])
  PROVE  Mine(t)' \subseteq Mine(t)
<1>1. NoClaim \notin Claims
  BY DeliveryAssumption
<1>2. SUFFICES ASSUME NEW c \in Claims, c \in Mine(t)' PROVE c \in Mine(t)
  BY DEF Mine
<1>3. \/ c = work'[t] \/ c = permit'[t] \/ c \in asking'[t] \/ c \in clicks'[t]
      \/ \E m \in asks' : m.tab = t /\ m.claim = c
      \/ \E m \in reports' : m.tab = t /\ m.claim = c
  BY <1>2 DEF Mine
<1>4. QED
  BY <1>1, <1>3 DEF Mine

(* What a step must show when it hands out no claim. *)
LEMMA SingleKept ==
  ASSUME TypeInv, Single,
         \A t \in Tabs : Mine(t)' \subseteq Mine(t),
         \A j \in Jobs : job'[j].attempts = job[j].attempts,
         InFlight(job)' \subseteq InFlight(job),
         ClickIsPermitted', ReportIsLast', SentIsSeen', LiveWhileArmed'
  PROVE  Single'
<1>1. ClaimsMade'
  <2>1. SUFFICES ASSUME NEW t \in Tabs, NEW c \in Mine(t)' PROVE c.attempt <= job'[c.job].attempts
    BY DEF ClaimsMade
  <2>2. c \in Mine(t) /\ c.job \in Jobs
    BY DEF Mine, Claims
  <2>3. QED
    BY <2>2 DEF Single, ClaimsMade
<1>2. OneTab'
  BY DEF Single, OneTab
<1>3. OneLive'
  BY DEF Single, OneLive
<1>4. QED
  BY <1>1, <1>2, <1>3 DEF Single

(* Steps that hand out no claim, permit nothing and click nothing: a tab   *)
(* stays where it is, is done, goes idle, or hears that it submitted.  One *)
(* that ends a live claim must withdraw its job, or no tab may submit it.  *)
LEMMA TabsRecede ==
  ASSUME TypeInv, Single,
         asks' \subseteq asks, reports' \subseteq reports,
         \A j \in Jobs : posted[j] > 0 => posted'[j] > 0,
         \A t \in Tabs :
           /\ permit'[t] \in {permit[t], NoClaim} /\ (fresh'[t] => fresh[t])
           /\ asking'[t] \subseteq asking[t] /\ clicks'[t] \subseteq clicks[t]
           /\ \/ pc'[t] = pc[t] /\ work'[t] = work[t] /\ result'[t] = result[t]
              \/ pc'[t] = "idle" /\ work'[t] = NoClaim /\ result'[t] = "none"
              \/ /\ pc'[t] = "done" /\ pc[t] # "idle" /\ work'[t] = work[t]
                 /\ work[t] \notin clicks'[t]
                 /\ result'[t] = "sent" => posted[work[t].job] > 0
              \/ /\ pc'[t] = "verifying" /\ pc[t] = "clicked" /\ work'[t] = work[t]
                 /\ result'[t] = result[t] /\ work[t] \notin clicks'[t],
         \A j \in Jobs : /\ job'[j].attempts = job[j].attempts
                         /\ job[j].prepared => job'[j].prepared
                         /\ job[j].status = "withdrawn" => job'[j].status = "withdrawn",
         InFlight(job)' \subseteq InFlight(job),
         \A t \in Tabs : MaySubmit(t) /\ permit[t].job \in InFlight(job)
                           /\ permit[t].attempt = job[permit[t].job].attempts =>
            \/ permit[t].job \in InFlight(job)'
            \/ job'[permit[t].job].status = "withdrawn"
  PROVE  Single'
<1>1. ASSUME NEW t \in Tabs PROVE Mine(t)' \subseteq Mine(t)
  <2>1. work'[t] \in {work[t], NoClaim}
    OBVIOUS
  <2>2. QED
    BY <2>1, MineKept
<1>2. ASSUME NEW t \in Tabs
      PROVE  /\ \A c \in clicks[t] : c.job \in Jobs /\ c # NoClaim
             /\ pc[t] # "idle" => work[t] \in Claims /\ work[t].job \in Jobs /\ work[t] # NoClaim
  BY DeliveryAssumption DEF TypeInv, BackgroundTypeOK, ContentTypeOK, Claims
<1>3. \A m \in reports : m.tab \in Tabs /\ m.claim \in Claims /\ m.claim.job \in Jobs /\ m.claim # NoClaim
  BY DeliveryAssumption DEF TypeInv, NetworkTypeOK, Claims
<1>4. ClickIsPermitted'
  <2>1. SUFFICES ASSUME NEW t \in Tabs
                 PROVE  /\ \A c \in clicks'[t] : job'[c.job].prepared
                        /\ pc'[t] = "permitted" => job'[work'[t].job].prepared
                        /\ work'[t] \in clicks'[t] => pc'[t] = "clicked"
    BY DEF ClickIsPermitted
  <2>2. \A c \in clicks'[t] : job'[c.job].prepared
    BY <1>2 DEF Single, ClickIsPermitted
  <2>3. pc'[t] = "permitted" => pc[t] = "permitted" /\ work'[t] = work[t]
    OBVIOUS
  <2>4. work'[t] \in clicks'[t] => pc'[t] = "clicked"
    BY <1>2 DEF Single, ClickIsPermitted
  <2>5. QED
    BY <1>2, <2>2, <2>3, <2>4 DEF Single, ClickIsPermitted
<1>5. ReportIsLast'
  BY <1>3 DEF Single, ReportIsLast
<1>6. SentIsSeen'
  <2>1. \A m \in reports' : m.result = "sent" => posted'[m.claim.job] > 0
    BY <1>3 DEF Single, SentIsSeen
  <2>2. ASSUME NEW t \in Tabs, result'[t] = "sent"
        PROVE  pc'[t] \in {"done", "reporting"} /\ posted'[work'[t].job] > 0
    BY <1>2, <2>2 DEF Single, SentIsSeen
  <2>3. QED
    BY <2>1, <2>2 DEF SentIsSeen
<1>7. LiveWhileArmed'
  <2>1. SUFFICES ASSUME NEW t \in Tabs, MaySubmit(t)'
                 PROVE  \/ job'[permit'[t].job].status = "withdrawn"
                        \/ /\ permit'[t].job \in InFlight(job)'
                           /\ permit'[t].attempt = job'[permit'[t].job].attempts
    BY DEF LiveWhileArmed
  <2>2. MaySubmit(t) /\ permit'[t] = permit[t]
    <3>1. fresh[t]
      BY <2>1 DEF MaySubmit
    <3>2. CASE permit'[t] \in clicks'[t]
      BY <1>2, <3>1, <3>2 DEF MaySubmit
    <3>3. CASE pc'[t] = "permitted" /\ work'[t] = permit'[t]
      BY <1>2, <3>1, <3>3 DEF MaySubmit
    <3>4. QED
      BY <2>1, <3>2, <3>3 DEF MaySubmit
  <2>3. permit[t].job \in Jobs
    BY <2>2, ArmedHasClaim DEF Claims
  <2>4. QED
    BY <2>2, <2>3 DEF Single, LiveWhileArmed
<1>8. QED
  BY <1>1, <1>4, <1>5, <1>6, <1>7, SingleKept

LEMMA QueueMoves ==
  ASSUME TypeInv, Single, UNCHANGED <<content, background, network, posted>>,
         \A j \in Jobs : /\ job'[j].attempts = job[j].attempts
                         /\ job[j].prepared => job'[j].prepared
                         /\ job[j].status = "withdrawn" => job'[j].status = "withdrawn",
         InFlight(job)' \subseteq InFlight(job),
         \A t \in Tabs : MaySubmit(t) /\ permit[t].job \in InFlight(job)
                           /\ permit[t].attempt = job[permit[t].job].attempts =>
            \/ permit[t].job \in InFlight(job)'
            \/ job'[permit[t].job].status = "withdrawn"
  PROVE  Single'
<1>1. UNCHANGED <<pc, work, result, asking, permit, fresh, clicks, asks, reports, posted>>
  BY DEF content, background, network
<1>2. QED
  BY <1>1, TabsRecede

(* The same for steps that leave the queue alone. *)
LEMMA OnlyTabsRecede ==
  ASSUME TypeInv, Single, UNCHANGED job,
         asks' \subseteq asks, reports' \subseteq reports,
         \A j \in Jobs : posted[j] > 0 => posted'[j] > 0,
         \A t \in Tabs :
           /\ permit'[t] \in {permit[t], NoClaim} /\ (fresh'[t] => fresh[t])
           /\ asking'[t] \subseteq asking[t] /\ clicks'[t] \subseteq clicks[t]
           /\ \/ pc'[t] = pc[t] /\ work'[t] = work[t] /\ result'[t] = result[t]
              \/ pc'[t] = "idle" /\ work'[t] = NoClaim /\ result'[t] = "none"
              \/ /\ pc'[t] = "done" /\ pc[t] # "idle" /\ work'[t] = work[t]
                 /\ work[t] \notin clicks'[t]
                 /\ result'[t] = "sent" => posted[work[t].job] > 0
              \/ /\ pc'[t] = "verifying" /\ pc[t] = "clicked" /\ work'[t] = work[t]
                 /\ result'[t] = result[t] /\ work[t] \notin clicks'[t]
  PROVE  Single'
<1>1. InFlight(job)' = InFlight(job)
  BY DEF InFlight
<1>2. QED
  BY <1>1, TabsRecede

LEMMA BuyerSingle == ASSUME TypeInv, Single, Buyer PROVE Single'
<1>1. PICK j \in Jobs : Enqueue(j) \/ Withdraw(j)
  BY DEF Buyer
<1>2. job \in [Jobs -> Job]
  BY DEF TypeInv, DatabaseTypeOK
<1>3. UNCHANGED <<content, background, network, posted>>
  BY <1>1 DEF Enqueue, Withdraw
<1>4. ASSUME NEW i \in Jobs
      PROVE  /\ job'[i].attempts = job[i].attempts /\ job'[i].prepared = job[i].prepared
             /\ \/ job'[i].status = job[i].status /\ job'[i].live = job[i].live
                \/ job[i].status = "absent" /\ job'[i].status = "queued"
                \/ job'[i].status = "withdrawn"
  BY <1>1, <1>2 DEF Enqueue, Withdraw, Job
<1>5. QED
  BY <1>3, <1>4, QueueMoves DEF InFlight

LEMMA DeadlineSingle == ASSUME PermitsExpireFirst, TypeInv, Single, Deadline PROVE Single'
<1>1. job \in [Jobs -> Job]
  BY DEF TypeInv, DatabaseTypeOK
<1>2. ASSUME NEW j \in Jobs, LeaseExpires(j) \/ RetryFallsDue(j) PROVE Single'
  <2>1. UNCHANGED <<content, background, network, posted>>
    BY <1>2 DEF LeaseExpires, RetryFallsDue
  <2>2. ASSUME NEW i \in Jobs
        PROVE  /\ job'[i].attempts = job[i].attempts /\ job'[i].prepared = job[i].prepared
               /\ job'[i].status = job[i].status
               /\ job'[i].live => job[i].live
               /\ job[i].live /\ ~job'[i].live => i = j /\ LeaseExpires(j)
    BY <1>1, <1>2 DEF LeaseExpires, RetryFallsDue, Job
  <2>3. ASSUME NEW t \in Tabs, MaySubmit(t), permit[t].attempt = job[permit[t].job].attempts
        PROVE  ~(permit[t].job = j /\ LeaseExpires(j))
    <3>1. permit[t] \in Claims /\ fresh[t]
      BY <2>3, ArmedHasClaim DEF MaySubmit
    <3>2. permit[t].job = j => permit[t] = ClaimOf(j)
      BY <2>3, <3>1 DEF Claims, ClaimOf
    <3>3. QED
      BY <3>1, <3>2 DEF LeaseExpires
  <2>4. QED
    BY <2>1, <2>2, <2>3, QueueMoves DEF InFlight
<1>3. ASSUME NEW t \in Tabs, PermitExpires(t) PROVE Single'
  <2>1. UNCHANGED <<database, content, asking, permit, clicks, network, posted>>
    BY <1>3 DEF PermitExpires
  <2>2. UNCHANGED <<job, pc, work, result, asks, reports>>
    BY <2>1 DEF database, content, network
  <2>3. \A u \in Tabs : fresh'[u] => fresh[u]
    BY <1>3 DEF PermitExpires, TypeInv, BackgroundTypeOK
  <2>4. QED
    BY <2>1, <2>2, <2>3, OnlyTabsRecede
<1>4. QED
  BY <1>2, <1>3 DEF Deadline

LEMMA PairingSingle == ASSUME TypeInv, Single, Pairing PROVE Single'
<1>1. UNCHANGED <<job, content, background, network, posted>>
  BY DEF Pairing, Revoke, PairDeactivates, PairActivates, PairFails
<1>2. QED
  BY <1>1, QueueMoves DEF InFlight

(* A sweep leaves live claims alone. *)
LEMMA SweptKeeps ==
  ASSUME TypeInv, NEW j \in Jobs
  PROVE  /\ Swept[j].attempts = job[j].attempts /\ Swept[j].prepared = job[j].prepared
         /\ job[j].status = "withdrawn" => Swept[j].status = "withdrawn"
         /\ j \in InFlight(Swept) <=> j \in InFlight(job)
<1>1. job[j] \in Job
  BY DEF TypeInv, DatabaseTypeOK
<1>2. QED
  BY <1>1 DEF Swept, Exhausted, InFlight, Job

(* A new claim: no other is live, and nobody has heard of it. *)
LEMMA TakenSingle ==
  ASSUME TypeInv, Single, NEW t \in Tabs, NEW j \in Eligible(Swept),
         pc[t] = "idle", InFlight(Swept) = {}, job' = Taken(Swept, j),
         \/ /\ Goes(t, "staging")
            /\ work' = [work EXCEPT ![t] = [job |-> j, attempt |-> job'[j].attempts]]
         \/ UNCHANGED <<pc, work>>,
         UNCHANGED <<active, pairing, paired, result, background, network, posted>>
  PROVE  Single'
<1> DEFINE c == [job |-> j, attempt |-> job'[j].attempts]
<1>1. /\ job \in [Jobs -> Job] /\ Swept \in [Jobs -> Job] /\ j \in Jobs
      /\ MaxAttempts \in Nat
  BY SweptType, TypeInvTypes, DeliveryAssumption DEF TypeInv, DatabaseTypeOK, Eligible
<1>2. /\ pc \in [Tabs -> PC] /\ work \in [Tabs -> Claims \cup {NoClaim}]
      /\ UNCHANGED <<asking, permit, fresh, clicks, asks, reports, result, posted>>
  BY DEF TypeInv, ContentTypeOK, background, network
<1>3. ASSUME NEW i \in Jobs
      PROVE  /\ job'[i].prepared = job[i].prepared
             /\ job[i].attempts \in Nat /\ job'[i].attempts \in Nat
             /\ job[i].attempts <= job'[i].attempts
             /\ i = j => job'[i].attempts = job[i].attempts + 1
             /\ job[i].status = "withdrawn" => job'[i].status = "withdrawn" /\ i # j
             /\ i # j => job'[i] = Swept[i]
  BY <1>1, SweptKeeps DEF Taken, Eligible, Job
<1>4. InFlight(job)' \subseteq {j} /\ InFlight(job) = {}
  BY <1>1, <1>3, SweptKeeps DEF InFlight
<1>5. c \in Claims
  BY <1>1, SweptType, TakenType, TypeInvTypes, DeliveryAssumption DEF Claims
<1>6. \A u \in Tabs : c \notin Mine(u)
  BY <1>1, <1>3 DEF Single, ClaimsMade
<1>7. ASSUME NEW u \in Tabs
      PROVE  \/ work'[u] = work[u] /\ pc'[u] = pc[u]
             \/ u = t /\ work'[u] = c /\ pc'[u] = "staging"
  <2>1. CASE UNCHANGED <<pc, work>>
    BY <2>1
  <2>2. CASE Goes(t, "staging") /\ work' = [work EXCEPT ![t] = c]
    BY <1>2, <2>2 DEF Goes
  <2>3. QED
    BY <2>1, <2>2
<1>8. ASSUME NEW u \in Tabs PROVE Mine(u)' \subseteq IF u = t THEN Mine(u) \cup {c} ELSE Mine(u)
  BY <1>2, <1>7 DEF Mine
<1>9. ClaimsMade'
  <2>1. SUFFICES ASSUME NEW u \in Tabs, NEW d \in Mine(u)' PROVE d.attempt <= job'[d.job].attempts
    BY DEF ClaimsMade
  <2>2. CASE d = c
    BY <1>1, <1>3, <2>2
  <2>3. CASE d \in Mine(u)
    <3>1. d.job \in Jobs /\ d.attempt \in Nat /\ d.attempt <= job[d.job].attempts
      BY <1>1, <2>3 DEF Mine, Claims, Single, ClaimsMade
    <3>2. QED
      BY <1>3, <3>1
  <2>4. QED
    BY <1>8, <2>1, <2>2, <2>3
<1>10. OneTab'
  BY <1>6, <1>8 DEF Single, OneTab
<1>11. OneLive'
  BY <1>4 DEF OneLive
<1>12. ClickIsPermitted'
  <2>1. ASSUME NEW u \in Tabs
        PROVE  /\ \A d \in clicks[u] : d.job \in Jobs /\ d \in Mine(u)
               /\ pc[u] = "permitted" => work[u].job \in Jobs
    BY DEF TypeInv, BackgroundTypeOK, ContentTypeOK, Claims, Mine
  <2>2. QED
    BY <1>2, <1>3, <1>6, <1>7, <2>1 DEF Single, ClickIsPermitted
<1>13. ReportIsLast'
  <2>1. \A m \in reports : m.tab \in Tabs /\ m.claim \in Mine(m.tab)
    BY DEF TypeInv, NetworkTypeOK, Mine
  <2>2. QED
    BY <1>2, <1>6, <1>7, <2>1 DEF Single, ReportIsLast
<1>14. SentIsSeen'
  BY <1>2, <1>7 DEF Single, SentIsSeen, Goes
<1>15. LiveWhileArmed'
  <2>1. ASSUME NEW u \in Tabs, MaySubmit(u)' PROVE MaySubmit(u)
    BY <1>2, <1>7, <2>1 DEF MaySubmit
  <2>2. ASSUME NEW u \in Tabs, MaySubmit(u) PROVE job'[permit[u].job].status = "withdrawn"
    <3>1. permit[u].job \in Jobs
      BY <2>2, ArmedHasClaim DEF Claims
    <3>2. QED
      BY <1>3, <1>4, <2>2, <3>1 DEF Single, LiveWhileArmed
  <2>3. QED
    BY <1>2, <2>1, <2>2 DEF LiveWhileArmed
<1>16. QED
  BY <1>9, <1>10, <1>11, <1>12, <1>13, <1>14, <1>15 DEF Single

LEMMA ClaimSingle == ASSUME TypeInv, Single, NEW t \in Tabs, Claim(t) PROVE Single'
<1>1. UNCHANGED <<active, pairing, paired, result, background, network, posted>> /\ pc[t] = "idle"
  BY DEF Claim
<1>2. CASE job' = Swept /\ UNCHANGED <<pc, work>>
  <2>1. UNCHANGED <<content, background, network, posted>>
    BY <1>1, <1>2 DEF content
  <2>2. InFlight(job)' = InFlight(job)
    BY <1>2, SweptKeeps DEF InFlight
  <2>3. QED
    BY <1>2, <2>1, <2>2, SweptKeeps, QueueMoves
<1>3. CASE InFlight(Swept) = {} /\ \E j \in Eligible(Swept) :
             /\ job' = Taken(Swept, j)
             /\ \/ /\ Goes(t, "staging")
                   /\ work' = [work EXCEPT ![t] = [job |-> j, attempt |-> job'[j].attempts]]
                \/ UNCHANGED <<pc, work>>
  BY <1>1, <1>3, TakenSingle
<1>4. QED
  BY <1>2, <1>3 DEF Claim

(* Permission makes a tab able to submit: its claim is live. *)
LEMMA PrepareSingle == ASSUME TypeInv, Single, NEW m \in asks, Prepare(m) PROVE Single'
<1> DEFINE t == m.tab
           c == m.claim
<1>1. /\ t \in Tabs /\ c \in Claims /\ c.job \in Jobs /\ job \in [Jobs -> Job]
      /\ pc \in [Tabs -> PC] /\ work \in [Tabs -> Claims \cup {NoClaim}]
      /\ permit \in [Tabs -> Claims \cup {NoClaim}] /\ asking \in [Tabs -> SUBSET Claims]
      /\ fresh \in [Tabs -> BOOLEAN]
  BY DEF TypeInv, NetworkTypeOK, DatabaseTypeOK, ContentTypeOK, BackgroundTypeOK, Claims
<1>2. UNCHANGED <<work, result, clicks, reports, posted>> /\ asks' \subseteq asks
  BY DEF Prepare
<1>3. ASSUME NEW i \in Jobs
      PROVE  /\ job'[i].attempts = job[i].attempts /\ job'[i].status = job[i].status
             /\ job'[i].live = job[i].live /\ (job[i].prepared => job'[i].prepared)
             /\ MayPrepare(t, c) /\ i = c.job => job'[i].prepared
  BY <1>1 DEF Prepare, Recorded, Job
<1>4. \/ UNCHANGED <<asking, permit, fresh, pc>>
      \/ /\ MayPrepare(t, c) /\ c \in asking[t]
         /\ \A u \in Tabs : u # t => /\ asking'[u] = asking[u] /\ permit'[u] = permit[u]
                                     /\ fresh'[u] = fresh[u] /\ pc'[u] = pc[u]
         /\ asking'[t] \subseteq asking[t] /\ permit'[t] = c
         /\ \/ pc'[t] = pc[t]
            \/ pc[t] = "preparing" /\ work[t] = c /\ pc'[t] = "permitted"
  <2>1. \/ UNCHANGED <<asking, permit, fresh, pc>>
        \/ /\ c \in asking[t] /\ MayPrepare(t, c)
           /\ asking' = [asking EXCEPT ![t] = @ \ {c}]
           /\ permit' = [permit EXCEPT ![t] = c]
           /\ fresh' = [fresh EXCEPT ![t] = TRUE]
           /\ pc' = IF pc[t] = "preparing" /\ work[t] = c THEN [pc EXCEPT ![t] = "permitted"] ELSE pc
    BY DEF Prepare
  <2>2. QED
    BY <1>1, <2>1
<1>5. ASSUME NEW u \in Tabs PROVE Mine(u)' \subseteq Mine(u)
  BY <1>2, <1>4, MineKept
<1>6. InFlight(job)' = InFlight(job)
  BY <1>3 DEF InFlight
<1>7. ClickIsPermitted'
  <2>1. ASSUME NEW u \in Tabs
        PROVE  /\ \A d \in clicks[u] : d.job \in Jobs
               /\ pc[u] = "permitted" => work[u].job \in Jobs
    BY DEF TypeInv, BackgroundTypeOK, ContentTypeOK, Claims
  <2>2. QED
    BY <1>1, <1>2, <1>3, <1>4, <2>1 DEF Single, ClickIsPermitted
<1>8. ReportIsLast' /\ SentIsSeen'
  BY <1>2, <1>4 DEF Single, ReportIsLast, SentIsSeen, TypeInv, NetworkTypeOK
<1>9. LiveWhileArmed'
  <2>1. SUFFICES ASSUME NEW u \in Tabs, MaySubmit(u)'
                 PROVE  \/ job'[permit'[u].job].status = "withdrawn"
                        \/ /\ permit'[u].job \in InFlight(job)'
                           /\ permit'[u].attempt = job'[permit'[u].job].attempts
    BY DEF LiveWhileArmed
  <2>2. CASE permit'[u] = permit[u] /\ MaySubmit(u)
    <3>1. permit[u].job \in Jobs
      BY <2>2, ArmedHasClaim DEF Claims
    <3>2. QED
      BY <1>3, <1>6, <2>2, <3>1 DEF Single, LiveWhileArmed
  <2>3. CASE permit'[u] = c /\ MayPrepare(t, c)
    BY <1>1, <1>3, <1>6, <2>3 DEF MayPrepare, Owns, InFlight
  <2>4. QED
    BY <1>2, <1>4, <2>1, <2>2, <2>3 DEF MaySubmit
<1>10. QED
  BY <1>3, <1>5, <1>6, <1>7, <1>8, <1>9, SingleKept

(* A report settles its own claim, which no tab can submit any more. *)
LEMMA CompleteSingle == ASSUME TypeInv, Single, NEW m \in reports, Complete(m) PROVE Single'
<1> DEFINE t == m.tab
           c == m.claim
<1>1. /\ t \in Tabs /\ c \in Claims /\ c.job \in Jobs /\ m.result \in Results
      /\ job \in [Jobs -> Job] /\ c \in Mine(t)
  BY DEF TypeInv, NetworkTypeOK, DatabaseTypeOK, Claims, Mine
<1>2. UNCHANGED <<asking, permit, fresh, clicks, asks, posted>> /\ reports' \subseteq reports
  BY DEF Complete, background
<1>3. ASSUME NEW u \in Tabs
      PROVE  \/ pc'[u] = pc[u] /\ work'[u] = work[u] /\ result'[u] = result[u]
             \/ pc'[u] = "idle" /\ work'[u] = NoClaim /\ result'[u] = "none"
             \/ /\ pc'[u] = "done" /\ pc[u] # "idle" /\ work'[u] = work[u]
                /\ work[u] \notin clicks[u]
                /\ result'[u] = "manual_review"
  <2>1. \/ UNCHANGED content
        \/ pc[t] = "reporting" /\ BackToIdle(t)
        \/ pc[t] = "reporting" /\ Reports(t, "manual_review") /\ work' = work
    BY DEF Complete, GivenUp
  <2>2. work[t] \in clicks[t] => pc[t] = "clicked"
    BY <1>1 DEF Single, ClickIsPermitted
  <2>3. QED
    BY <1>1, <2>1, <2>2
    DEF BackToIdle, Reports, Goes, content, TypeInv, ContentTypeOK
<1>4. ASSUME NEW i \in Jobs
      PROVE  /\ job'[i].attempts = job[i].attempts /\ job'[i].prepared = job[i].prepared
             /\ \/ job'[i].status = job[i].status /\ job'[i].live = job[i].live
                \/ i = c.job /\ Settles(t, c) /\ ~job'[i].live /\ job[i].status = "claimed"
  <2>1. \/ job' = job
        \/ Settles(t, c) /\ job' = [job EXCEPT ![c.job] = Settled(c.job, m.result)]
    BY DEF Complete
  <2>2. /\ Settled(c.job, m.result).attempts = job[c.job].attempts
        /\ Settled(c.job, m.result).prepared = job[c.job].prepared
        /\ ~Settled(c.job, m.result).live
    BY <1>1 DEF Settled, Job
  <2>3. Settles(t, c) => job[c.job].status = "claimed"
    BY DEF Settles, Owns
  <2>4. CASE job' = job
    BY <2>4
  <2>5. CASE Settles(t, c) /\ job' = [job EXCEPT ![c.job] = Settled(c.job, m.result)]
    BY <1>1, <2>2, <2>3, <2>5
  <2>6. QED
    BY <2>1, <2>4, <2>5
<1>5. InFlight(job)' \subseteq InFlight(job)
  BY <1>4 DEF InFlight
<1>6. ASSUME NEW u \in Tabs, MaySubmit(u), permit[u].job \in InFlight(job),
             permit[u].attempt = job[permit[u].job].attempts
      PROVE  permit[u].job \in InFlight(job)'
  <2>1. permit[u] \in Claims /\ permit[u] \in Mine(u) /\ permit[u].job \in Jobs
    BY <1>6, ArmedHasClaim DEF Claims
  <2>2. ~(permit[u].job = c.job /\ Settles(t, c))
    <3>1. SUFFICES ASSUME permit[u].job = c.job, Settles(t, c) PROVE FALSE
      OBVIOUS
    <3>2. permit[u] = c
      BY <1>1, <1>6, <2>1, <3>1 DEF Settles, Owns, Claims
    <3>3. u = t
      BY <1>1, <2>1, <3>2 DEF Single, OneTab
    <3>4. QED
      BY <1>6, <3>2, <3>3 DEF Single, ReportIsLast, MaySubmit
  <2>3. QED
    BY <1>4, <1>6, <2>1, <2>2 DEF InFlight
<1>7. QED
  BY <1>2, <1>3, <1>4, <1>5, <1>6, TabsRecede

(* The text is staged and the permit asked for. *)
LEMMA AskPermitSingle == ASSUME TypeInv, Single, NEW t \in Tabs, AskPermit(t) PROVE Single'
<1>1. /\ UNCHANGED <<job, work, result, clicks, reports, posted>>
      /\ pc[t] = "staging" /\ work[t] \in Claims
      /\ asks' = asks \cup {[tab |-> t, claim |-> work[t]]}
  BY DEF AskPermit, database, TypeInv, ContentTypeOK
<1>2. ASSUME NEW u \in Tabs
      PROVE  /\ asking'[u] \subseteq asking[u] \cup {work[u]}
             /\ permit'[u] \in {permit[u], NoClaim}
             /\ \/ pc'[u] = pc[u] /\ permit'[u] = permit[u] /\ fresh'[u] = fresh[u]
                \/ pc'[u] = "preparing" /\ pc[u] = "staging" /\ ~fresh'[u]
  BY DEF AskPermit, Goes, TypeInv, ContentTypeOK, BackgroundTypeOK
<1>3. ASSUME NEW u \in Tabs PROVE Mine(u)' \subseteq Mine(u)
  BY <1>1, <1>2, MineKept
<1>4. InFlight(job)' = InFlight(job)
  BY <1>1 DEF InFlight
<1>5. ClickIsPermitted' /\ SentIsSeen'
  BY <1>1, <1>2 DEF Single, ClickIsPermitted, SentIsSeen
<1>6. ReportIsLast'
  BY <1>1, <1>2 DEF Single, ReportIsLast, TypeInv, NetworkTypeOK
<1>7. LiveWhileArmed'
  BY <1>1, <1>2, <1>4 DEF Single, LiveWhileArmed, MaySubmit
<1>8. QED
  BY <1>1, <1>3, <1>4, <1>5, <1>6, <1>7, SingleKept

(* A permitted tab clicks: it could submit before. *)
LEMMA ClickSingle == ASSUME TypeInv, Single, NEW t \in Tabs, Click(t) PROVE Single'
<1>1. /\ UNCHANGED <<job, work, result, asking, permit, fresh, asks, reports, posted>>
      /\ pc[t] = "permitted" /\ work[t] \in Claims
  BY DEF Click, database, network, TypeInv, ContentTypeOK
<1>2. ASSUME NEW u \in Tabs
      PROVE  /\ clicks'[u] \subseteq clicks[u] \cup {work[u]}
             /\ \/ u # t /\ pc'[u] = pc[u] /\ clicks'[u] = clicks[u]
                \/ u = t /\ pc'[u] = "clicked" /\ clicks'[u] = clicks[u] \cup {work[u]}
  BY DEF Click, Goes, TypeInv, ContentTypeOK, BackgroundTypeOK
<1>3. ASSUME NEW u \in Tabs PROVE Mine(u)' \subseteq Mine(u)
  BY <1>1, <1>2, MineKept
<1>4. InFlight(job)' = InFlight(job)
  BY <1>1 DEF InFlight
<1>5. ClickIsPermitted'
  BY <1>1, <1>2 DEF Single, ClickIsPermitted
<1>6. SentIsSeen'
  BY <1>1, <1>2 DEF Single, SentIsSeen
<1>7. ReportIsLast'
  <2>1. \A m \in reports : m.tab \in Tabs
    BY DEF TypeInv, NetworkTypeOK
  <2>2. QED
    BY <1>1, <1>2, <2>1 DEF Single, ReportIsLast
<1>8. LiveWhileArmed'
  BY <1>1, <1>2, <1>4 DEF Single, LiveWhileArmed, MaySubmit
<1>9. QED
  BY <1>1, <1>3, <1>4, <1>5, <1>6, <1>7, <1>8, SingleKept

(* What is reported has nothing left to be clicked. *)
LEMMA ReportSingle == ASSUME TypeInv, Single, NEW t \in Tabs, Report(t) PROVE Single'
<1> DEFINE m == [tab |-> t, claim |-> work[t], result |-> result[t]]
<1>1. /\ UNCHANGED <<job, work, result, asking, permit, fresh, clicks, asks, posted>>
      /\ pc[t] = "done" /\ work[t] \in Claims /\ reports' = reports \cup {m}
  BY DEF Report, database, background, TypeInv, ContentTypeOK
<1>2. ASSUME NEW u \in Tabs
      PROVE  \/ u # t /\ pc'[u] = pc[u]
             \/ u = t /\ pc'[u] = "reporting" /\ pc[u] = "done"
  BY <1>1 DEF Report, Goes, TypeInv, ContentTypeOK
<1>3. ASSUME NEW u \in Tabs PROVE Mine(u)' \subseteq Mine(u)
  BY <1>1, MineKept
<1>4. InFlight(job)' = InFlight(job)
  BY <1>1 DEF InFlight
<1>5. ClickIsPermitted'
  BY <1>1, <1>2 DEF Single, ClickIsPermitted
<1>6. SentIsSeen'
  BY <1>1, <1>2 DEF Single, SentIsSeen
<1>7. ReportIsLast'
  <2>1. \A n \in reports : n.tab \in Tabs
    BY DEF TypeInv, NetworkTypeOK
  <2>2. work[t] \notin clicks[t]
    BY <1>1 DEF Single, ClickIsPermitted
  <2>3. m.tab = t /\ m.claim = work[t]
    OBVIOUS
  <2>4. QED
    BY <1>1, <1>2, <2>1, <2>2, <2>3 DEF Single, ReportIsLast
<1>8. LiveWhileArmed'
  BY <1>1, <1>2, <1>4 DEF Single, LiveWhileArmed, MaySubmit
<1>9. QED
  BY <1>1, <1>3, <1>4, <1>5, <1>6, <1>7, <1>8, SingleKept

LEMMA ContentStepSingle ==
  ASSUME TypeInv, Single, NEW t \in Tabs, ContentStep(t) \/ TabReloads(t)
  PROVE  Single'
<1>1. CASE StagingFails(t) \/ RecheckFails(t) \/ Verify(t) \/ ReportFails(t) \/ TabReloads(t)
  <2>1. UNCHANGED <<job, asking, permit, fresh, clicks, asks, reports, posted>>
    BY <1>1 DEF StagingFails, RecheckFails, Verify, ReportFails, TabReloads, database,
                background, network
  <2>2. \/ BackToIdle(t)
        \/ /\ pc[t] \in {"staging", "permitted", "verifying", "reporting"} /\ work' = work
           /\ \/ Reports(t, "failed")
              \/ Reports(t, "manual_review")
              \/ Reports(t, "sent") /\ posted[work[t].job] > 0
    BY <1>1 DEF StagingFails, RecheckFails, Verify, Seen, ReportFails, GivenUp, TabReloads
  <2>3. work[t] \in clicks[t] => pc[t] = "clicked"
    BY DEF Single, ClickIsPermitted
  <2>4. ASSUME NEW u \in Tabs
        PROVE  \/ pc'[u] = pc[u] /\ work'[u] = work[u] /\ result'[u] = result[u]
               \/ pc'[u] = "idle" /\ work'[u] = NoClaim /\ result'[u] = "none"
               \/ /\ pc'[u] = "done" /\ pc[u] # "idle" /\ work'[u] = work[u]
                  /\ work[u] \notin clicks[u]
                  /\ result'[u] = "sent" => posted[work[u].job] > 0
    BY <2>2, <2>3 DEF BackToIdle, Reports, Goes, TypeInv, ContentTypeOK
  <2>5. QED
    BY <2>1, <2>4, OnlyTabsRecede
<1>2. QED
  BY <1>1, AskPermitSingle, ClickSingle, ReportSingle DEF ContentStep

LEMMA BackgroundStepSingle ==
  ASSUME TypeInv, Single, NEW t \in Tabs, NEW c \in Claims,
         AskFails(t, c) \/ TargetMissed(t, c) \/ Submit(t, c)
  PROVE  Single'
<1>1. /\ UNCHANGED <<job, work, asks, reports>>
      /\ posted \in [Jobs -> Nat] /\ c.job \in Jobs
  BY DEF AskFails, TargetMissed, Submit, database, network, TypeInv, Claims
<1>2. \A j \in Jobs : posted[j] > 0 => posted'[j] > 0
  <2>1. posted' = posted \/ posted' = [posted EXCEPT ![c.job] = posted[c.job] + 1]
    BY DEF AskFails, TargetMissed, Submit
  <2>2. QED
    BY <1>1, <2>1
<1>3. ASSUME NEW u \in Tabs
      PROVE  /\ permit'[u] \in {permit[u], NoClaim} /\ (fresh'[u] => fresh[u])
             /\ asking'[u] \subseteq asking[u] /\ clicks'[u] \subseteq clicks[u]
  BY DEF AskFails, TargetMissed, Submit, PermitUsed, TypeInv, BackgroundTypeOK
<1>4. \/ UNCHANGED <<pc, result>>
      \/ Reports(t, "manual_review") /\ pc[t] # "idle" /\ work[t] \notin clicks'[t]
      \/ Goes(t, "verifying") /\ UNCHANGED result /\ pc[t] = "clicked" /\ work[t] \notin clicks'[t]
  <2>1. CASE AskFails(t, c)
    BY <2>1 DEF AskFails, Single, ClickIsPermitted
  <2>2. CASE \E good \in BOOLEAN : Answers(t, c, good) /\ clicks' = [clicks EXCEPT ![t] = @ \ {c}]
    <3>1. clicks'[t] = clicks[t] \ {c}
      BY <2>2 DEF TypeInv, BackgroundTypeOK
    <3>2. QED
      BY <2>2, <3>1 DEF Answers
  <2>3. QED
    BY <2>1, <2>2 DEF TargetMissed, Submit
<1>5. ASSUME NEW u \in Tabs
      PROVE  \/ pc'[u] = pc[u] /\ work'[u] = work[u] /\ result'[u] = result[u]
             \/ /\ pc'[u] = "done" /\ pc[u] # "idle" /\ work'[u] = work[u]
                /\ work[u] \notin clicks'[u]
                /\ result'[u] = "manual_review"
             \/ /\ pc'[u] = "verifying" /\ pc[u] = "clicked" /\ work'[u] = work[u]
                /\ result'[u] = result[u] /\ work[u] \notin clicks'[u]
  BY <1>1, <1>4 DEF Reports, Goes, TypeInv, ContentTypeOK
<1>6. QED
  BY <1>1, <1>2, <1>3, <1>5, OnlyTabsRecede

LEMMA BackgroundStopsSingle ==
  ASSUME TypeInv, Single, NEW d \in Devices, BackgroundStops(d)
  PROVE  Single'
<1>1. UNCHANGED <<job, asks, reports, posted>>
  BY DEF BackgroundStops, database, network
<1>2. ASSUME NEW t \in Tabs
      PROVE  /\ permit'[t] \in {permit[t], NoClaim} /\ (fresh'[t] => fresh[t])
             /\ asking'[t] \subseteq asking[t] /\ clicks'[t] \subseteq clicks[t]
             /\ \/ pc'[t] = pc[t] /\ work'[t] = work[t] /\ result'[t] = result[t]
                \/ pc'[t] = "idle" /\ work'[t] = NoClaim /\ result'[t] = "none"
                \/ /\ pc'[t] = "done" /\ pc[t] # "idle" /\ work'[t] = work[t]
                   /\ work[t] \notin clicks'[t]
                   /\ result'[t] = "manual_review"
  BY DEF BackgroundStops, TypeInv, BackgroundTypeOK, ContentTypeOK
<1>3. QED
  BY <1>1, <1>2, OnlyTabsRecede

LEMMA SingleStep ==
  ASSUME PermitsExpireFirst, TypeInv, Single, [Next]_vars
  PROVE  Single'
<1>1. CASE UNCHANGED vars
  BY <1>1, QueueMoves DEF vars, database, InFlight
<1>2. CASE Lost
  <2>1. /\ UNCHANGED <<job, pc, work, result, asking, permit, fresh, clicks, posted>>
        /\ asks' \subseteq asks /\ reports' \subseteq reports
    BY <1>2 DEF Lost, database, content, background
  <2>2. QED
    BY <2>1, OnlyTabsRecede
<1>3. CASE Server
  BY <1>3, PrepareSingle, CompleteSingle DEF Server
<1>4. ASSUME NEW t \in Tabs, Worker(t) PROVE Single'
  BY <1>4, ClaimSingle, ContentStepSingle, BackgroundStepSingle DEF Worker, BackgroundStep
<1>5. QED
  BY <1>1, <1>2, <1>3, <1>4, BuyerSingle, PairingSingle, DeadlineSingle, BackgroundStopsSingle
  DEF Next

(* While a claim that may be submitted outlives no permit, no two tabs     *)
(* hold a claim, a live claim is the only one, and a report is the last    *)
(* word about it.                                                          *)
THEOREM SingleInvariance == PermitsExpireFirst => (Spec => [](TypeInv /\ OneShot /\ Single))
<1> SUFFICES ASSUME PermitsExpireFirst PROVE Spec => [](TypeInv /\ OneShot /\ Single)
  OBVIOUS
<1>1. Init => Single
  BY SingleInit
<1>2. TypeInv /\ OneShot /\ Single /\ [Next]_vars => Single'
  BY SingleStep
<1>3. QED
  BY <1>1, <1>2, Invariance, PTL DEF Spec

LEMMA OneArmed == ASSUME TypeInv, OneShot, Single PROVE OneInFlight
<1>1. SUFFICES ASSUME NEW t \in Tabs, NEW u \in Tabs, MaySubmit(t), MaySubmit(u), t # u,
                      job[permit[t].job].status # "withdrawn",
                      job[permit[u].job].status # "withdrawn"
               PROVE  FALSE
  BY DEF OneInFlight
<1>2. permit[t].job = permit[u].job
  BY <1>1 DEF Single, LiveWhileArmed, OneLive
<1>3. permit[t] # NoClaim /\ permit[u] # NoClaim
  BY <1>1, ArmedHasClaim, DeliveryAssumption
<1>4. QED
  BY <1>1, <1>2, <1>3 DEF OneShot, OnePermit

(* At any moment at most one tab can submit, but for a job whose enquiry   *)
(* has been cancelled.                                                     *)
THEOREM OneInFlightAlways == PermitsExpireFirst => (Spec => []OneInFlight)
  BY SingleInvariance, OneArmed, PTL

(* What is submitted is submitted under the live claim of its job. *)
LEMMA SubmitIsLive ==
  ASSUME TypeInv, OneShot, Single, NEW t \in Tabs, NEW c \in Claims, Submit(t, c)
  PROVE  \/ UNCHANGED posted
         \/ /\ c.job \in Jobs /\ posted' = [posted EXCEPT ![c.job] = 1]
            /\ posted[c.job] = 0 /\ job[c.job].prepared
            /\ job[c.job].status \in {"claimed", "withdrawn"}
<1>1. c.job \in Jobs /\ c # NoClaim /\ posted \in [Jobs -> Nat]
  BY DeliveryAssumption DEF Claims, TypeInv
<1>2. CASE UNCHANGED posted
  BY <1>2
<1>3. CASE permit[t] = c /\ fresh[t] /\ posted' = [posted EXCEPT ![c.job] = @ + 1]
  <2>1. MaySubmit(t)
    BY <1>3 DEF Submit, MaySubmit
  <2>2. job[c.job].status \in {"claimed", "withdrawn"}
    BY <1>3, <2>1 DEF Single, LiveWhileArmed, InFlight
  <2>3. posted[c.job] = 0 /\ job[c.job].prepared
    BY <1>1, <1>3 DEF OneShot, PermitIsRecorded, PermitIsSpent
  <2>4. QED
    BY <1>1, <1>3, <2>2, <2>3
<1>4. QED
  BY <1>2, <1>3 DEF Submit

(* Only Submit posts. *)
LEMMA OthersPostNothing ==
  ASSUME [Next]_vars, ~\E t \in Tabs, c \in Claims : Submit(t, c)
  PROVE  UNCHANGED posted
<1>1. CASE UNCHANGED vars
  BY <1>1 DEF vars
<1>2. CASE Buyer \/ Pairing \/ Deadline \/ Server \/ Lost
  BY <1>2 DEF Buyer, Enqueue, Withdraw, Pairing, Revoke, PairDeactivates, PairActivates,
              PairFails, Deadline, LeaseExpires, RetryFallsDue, PermitExpires, Server, Prepare,
              Complete, Lost
<1>3. ASSUME NEW t \in Tabs, Worker(t) PROVE UNCHANGED posted
  BY <1>3 DEF Worker, Claim, TabReloads, BackgroundStep, AskFails, TargetMissed, ContentStep,
              StagingFails, AskPermit, RecheckFails, Click, Verify, Report, ReportFails
<1>4. ASSUME NEW d \in Devices, BackgroundStops(d) PROVE UNCHANGED posted
  BY <1>4 DEF BackgroundStops
<1>5. QED
  BY <1>1, <1>2, <1>3, <1>4 DEF Next

(* Once a person has been asked to check a job, it is not submitted behind *)
(* their back, by whichever tab or device.                                 *)
THEOREM ReviewIsFinalAlways == PermitsExpireFirst => (Spec => ReviewIsFinal)
<1>1. ASSUME TypeInv, OneShot, Single, [Next]_vars
      PROVE  [\A j \in Jobs : posted'[j] # posted[j]
                => job[j].status \in {"claimed", "withdrawn"}]_vars
  <2>1. CASE UNCHANGED posted
    BY <2>1
  <2>2. ASSUME NEW t \in Tabs, NEW c \in Claims, Submit(t, c)
        PROVE  \A j \in Jobs : posted'[j] # posted[j]
                 => job[j].status \in {"claimed", "withdrawn"}
    <3>1. c.job \in Jobs /\ posted \in [Jobs -> Nat]
      BY <1>1, <2>2 DEF TypeInv, Claims
    <3>2. \/ UNCHANGED posted
          \/ /\ posted' = [posted EXCEPT ![c.job] = 1]
             /\ job[c.job].status \in {"claimed", "withdrawn"}
      BY <1>1, <2>2, SubmitIsLive
    <3>3. QED
      BY <3>1, <3>2
  <2>3. QED
    BY <1>1, <2>1, <2>2, OthersPostNothing
<1>2. QED
  BY <1>1, SingleInvariance, PTL DEF Spec, ReviewIsFinal

-----------------------------------------------------------------------------
(* The queue implements OneSubmission. *)

Granted == {j \in Jobs : job[j].prepared}

Steps == Contract!Next \/ UNCHANGED <<Phase, Granted, posted>>

(* The phase of a job is that of its status. *)
PhaseOf(status) ==
  IF status = "absent" THEN "none"
  ELSE IF status \in {"queued", "failed", "claimed"} THEN "open"
  ELSE IF status = "sent" THEN "confirmed"
  ELSE IF status = "manual_review" THEN "review"
  ELSE "withdrawn"

LEMMA PhaseIs == ASSUME TypeInv PROVE Phase = [j \in Jobs |-> PhaseOf(job[j].status)]
<1>1. ASSUME NEW j \in Jobs PROVE job[j].status \in Status
  BY <1>1 DEF TypeInv, DatabaseTypeOK, Job
<1>2. QED
  BY <1>1 DEF Phase, PhaseOf, Status

(* The same after a step. *)
LEMMA PhaseIsThen == ASSUME TypeInv' PROVE Phase' = [j \in Jobs |-> PhaseOf(job'[j].status)]
<1>1. ASSUME NEW j \in Jobs PROVE job'[j].status \in Status
  BY <1>1 DEF TypeInv, DatabaseTypeOK, Job, Jobs
<1>2. QED
  BY <1>1 DEF Phase, PhaseOf, Status, Jobs

LEMMA StatusStays ==
  ASSUME TypeInv, TypeInv',
         \A j \in Jobs : /\ PhaseOf(job'[j].status) = PhaseOf(job[j].status)
                         /\ job'[j].prepared = job[j].prepared
  PROVE  Phase' = Phase /\ Granted' = Granted
<1>1. Phase' = [j \in Jobs |-> PhaseOf(job'[j].status)]
  BY PhaseIsThen
<1>2. Granted' = Granted
  BY DEF Granted, Jobs
<1>3. QED
  BY <1>1, <1>2, PhaseIs

(* Jobs that go from some phases to another, without permission or post. *)
LEMMA MovesStep ==
  ASSUME TypeInv, TypeInv', UNCHANGED posted, NEW from, NEW to,
         \A j \in Jobs : /\ job'[j].prepared = job[j].prepared
                         /\ \/ PhaseOf(job'[j].status) = PhaseOf(job[j].status)
                            \/ /\ PhaseOf(job[j].status) \in from
                               /\ PhaseOf(job'[j].status) = to
  PROVE  Contract!Moves(from, to)
<1>1. /\ Phase = [j \in Jobs |-> PhaseOf(job[j].status)]
      /\ Phase' = [j \in Jobs |-> PhaseOf(job'[j].status)]
  BY PhaseIs, PhaseIsThen
<1>2. Phase' \in [Jobs -> Contract!Phases]
  BY <1>1 DEF PhaseOf, Contract!Phases
<1>3. Granted' = Granted
  BY DEF Granted, Jobs
<1>4. QED
  BY <1>1, <1>2, <1>3 DEF Contract!Moves, Granted

(* A step of a job's status is one of the contract's. *)
LEMMA StatusStep ==
  ASSUME TypeInv, TypeInv', UNCHANGED posted, NEW was, NEW is,
         \/ was = {"absent"} /\ is = "queued"
         \/ was \subseteq {"queued", "failed", "claimed"} /\ is = "manual_review"
         \/ was = {"queued", "failed", "claimed", "sent", "manual_review"} /\ is = "withdrawn",
         \A j \in Jobs : /\ job'[j].prepared = job[j].prepared
                         /\ \/ PhaseOf(job'[j].status) = PhaseOf(job[j].status)
                            \/ job[j].status \in was /\ job'[j].status = is
  PROVE  Steps
<1>1. CASE was = {"absent"} /\ is = "queued"
  <2>1. Contract!Ask
    BY <1>1, MovesStep DEF PhaseOf, Contract!Ask
  <2>2. QED
    BY <2>1 DEF Steps, Contract!Next
<1>2. CASE was \subseteq {"queued", "failed", "claimed"} /\ is = "manual_review"
  <2>1. Contract!Review
    BY <1>2, MovesStep DEF PhaseOf, Contract!Review
  <2>2. QED
    BY <2>1 DEF Steps, Contract!Next
<1>3. CASE was = {"queued", "failed", "claimed", "sent", "manual_review"} /\ is = "withdrawn"
  <2>1. Contract!Withdraw
    BY <1>3, MovesStep DEF PhaseOf, Contract!Withdraw
  <2>2. QED
    BY <2>1 DEF Steps, Contract!Next
<1>4. QED
  BY <1>1, <1>2, <1>3

LEMMA JobStutters ==
  ASSUME UNCHANGED <<job, posted>> PROVE UNCHANGED <<Phase, Granted, posted>>
  BY DEF Phase, Granted, Jobs

(* Jobs are asked for and withdrawn. *)
LEMMA BuyerMaps == ASSUME TypeInv, TypeInv', Buyer PROVE Steps
<1>1. job \in [Jobs -> Job]
  BY DEF TypeInv, DatabaseTypeOK
<1>2. ASSUME NEW j \in Jobs, Enqueue(j) PROVE Steps
  <2>1. ASSUME NEW i \in Jobs
        PROVE  /\ job'[i].prepared = job[i].prepared
               /\ \/ PhaseOf(job'[i].status) = PhaseOf(job[i].status)
                  \/ job[i].status \in {"absent"} /\ job'[i].status = "queued"
    BY <1>1, <1>2 DEF Enqueue, Job
  <2>2. UNCHANGED posted
    BY <1>2 DEF Enqueue
  <2>3. QED
    BY <2>1, <2>2, StatusStep
<1>3. ASSUME NEW j \in Jobs, Withdraw(j) PROVE Steps
  <2>1. ASSUME NEW i \in Jobs
        PROVE  /\ job'[i].prepared = job[i].prepared
               /\ \/ job'[i] = job[i]
                  \/ /\ job[i].status \in {"queued", "failed", "claimed", "sent", "manual_review"}
                     /\ job'[i].status = "withdrawn"
    BY <1>1, <1>3 DEF Withdraw, Job, Status
  <2>2. UNCHANGED posted
    BY <1>3 DEF Withdraw
  <2>3. QED
    BY <2>1, <2>2, StatusStep
<1>4. QED
  BY <1>2, <1>3 DEF Buyer

(* Deadlines change no status. *)
LEMMA DeadlineMaps == ASSUME TypeInv, TypeInv', Deadline PROVE Steps
<1>1. UNCHANGED posted
  BY DEF Deadline, LeaseExpires, RetryFallsDue, PermitExpires
<1>2. ASSUME NEW i \in Jobs
      PROVE  job'[i].status = job[i].status /\ job'[i].prepared = job[i].prepared
  <2>1. job \in [Jobs -> Job]
    BY DEF TypeInv, DatabaseTypeOK
  <2>2. ASSUME NEW j \in Jobs, LeaseExpires(j) \/ RetryFallsDue(j)
        PROVE  job'[i].status = job[i].status /\ job'[i].prepared = job[i].prepared
    BY <1>2, <2>1, <2>2 DEF LeaseExpires, RetryFallsDue, Job
  <2>3. ASSUME NEW t \in Tabs, PermitExpires(t) PROVE job' = job
    BY <2>3 DEF PermitExpires, database
  <2>4. QED
    BY <2>2, <2>3 DEF Deadline
<1>3. QED
  BY <1>1, <1>2, StatusStays DEF Steps

(* A claim hands the uncertain and the exhausted to a person; the job it   *)
(* takes stays open.                                                       *)
LEMMA ClaimMaps == ASSUME TypeInv, TypeInv', NEW t \in Tabs, Claim(t) PROVE Steps
<1>1. UNCHANGED posted /\ job \in [Jobs -> Job]
  BY DEF Claim, TypeInv, DatabaseTypeOK
<1>2. ASSUME NEW i \in Jobs
      PROVE  /\ Swept[i].prepared = job[i].prepared
             /\ \/ Swept[i] = job[i]
                \/ /\ job[i].status \in {"queued", "failed", "claimed"}
                   /\ Swept[i].status = "manual_review"
  BY <1>1, <1>2 DEF Swept, Exhausted, Job
<1>3. ASSUME NEW j \in Eligible(Swept), job' = Taken(Swept, j), NEW i \in Jobs
      PROVE  /\ job'[i].prepared = Swept[i].prepared
             /\ \/ job'[i].status = Swept[i].status
                \/ /\ Swept[i].status \in {"queued", "failed", "claimed"}
                   /\ job'[i].status = "claimed"
  <2>1. j \in Jobs /\ Swept \in [Jobs -> Job]
    BY SweptType, TypeInvTypes DEF Eligible
  <2>2. QED
    BY <1>3, <2>1 DEF Taken, Eligible, Job
<1>4. ASSUME NEW i \in Jobs
      PROVE  /\ job'[i].prepared = job[i].prepared
             /\ \/ PhaseOf(job'[i].status) = PhaseOf(job[i].status)
                \/ /\ job[i].status \in {"queued", "failed", "claimed"}
                   /\ job'[i].status = "manual_review"
  <2>1. CASE job' = Swept
    BY <1>2, <1>4, <2>1
  <2>2. ASSUME NEW j \in Eligible(Swept), job' = Taken(Swept, j)
        PROVE  /\ job'[i].prepared = job[i].prepared
               /\ \/ PhaseOf(job'[i].status) = PhaseOf(job[i].status)
                  \/ /\ job[i].status \in {"queued", "failed", "claimed"}
                     /\ job'[i].status = "manual_review"
    BY <1>2, <1>3, <1>4, <2>2 DEF PhaseOf
  <2>3. QED
    BY <2>1, <2>2 DEF Claim
<1>5. QED
  BY <1>1, <1>4, StatusStep

(* The permit is the contract's grant. *)
LEMMA PrepareMaps == ASSUME TypeInv, TypeInv', NEW m \in asks, Prepare(m) PROVE Steps
<1>1. UNCHANGED posted /\ job \in [Jobs -> Job] /\ m.claim.job \in Jobs
  BY DEF Prepare, TypeInv, DatabaseTypeOK, NetworkTypeOK, Claims
<1>2. CASE job' = job
  BY <1>1, <1>2, JobStutters DEF Steps
<1>3. CASE MayPrepare(m.tab, m.claim) /\ job' = Recorded(m.claim.job)
  <2>1. job' = [job EXCEPT ![m.claim.job].prepared = TRUE] /\ job[m.claim.job].status = "claimed"
    BY <1>3 DEF MayPrepare, Owns, Recorded
  <2>2. ASSUME NEW i \in Jobs
        PROVE  /\ job'[i].status = job[i].status
               /\ job[i].prepared => job'[i].prepared
               /\ job'[i].prepared /\ ~job[i].prepared => job[i].status = "claimed"
    BY <1>1, <2>1, <2>2 DEF Job
  <2>3. Phase' = Phase
    <3>1. Phase' = [j \in Jobs |-> PhaseOf(job'[j].status)]
      BY PhaseIsThen
    <3>2. QED
      BY <2>2, <3>1, PhaseIs
  <2>4. Granted \subseteq Granted' /\ Granted' \subseteq Jobs
    BY <2>2 DEF Granted, Jobs
  <2>5. ASSUME NEW j \in Granted' \ Granted PROVE Phase[j] = "open"
    <3>1. j \in Jobs /\ job[j].status = "claimed"
      BY <2>2, <2>5 DEF Granted, Jobs
    <3>2. QED
      BY <3>1, PhaseIs DEF PhaseOf
  <2>6. Contract!Grant
    BY <1>1, <2>3, <2>4, <2>5 DEF Contract!Grant, Granted
  <2>7. QED
    BY <2>6 DEF Steps, Contract!Next
<1>4. QED
  BY <1>2, <1>3 DEF Prepare

(* The press is the contract's post. *)
LEMMA SubmitMaps ==
  ASSUME TypeInv, OneShot, Single, NEW t \in Tabs, NEW c \in Claims, Submit(t, c)
  PROVE  Steps
<1>1. UNCHANGED job
  BY DEF Submit, database
<1>2. CASE UNCHANGED posted
  BY <1>1, <1>2, JobStutters DEF Steps
<1>3. CASE /\ c.job \in Jobs /\ posted' = [posted EXCEPT ![c.job] = 1]
           /\ posted[c.job] = 0 /\ job[c.job].prepared
           /\ job[c.job].status \in {"claimed", "withdrawn"}
  <2>1. Phase[c.job] \in {"open", "withdrawn"}
    BY <1>3, PhaseIs DEF PhaseOf
  <2>2. Phase' = Phase /\ Granted' = Granted
    BY <1>1 DEF Phase, Granted, Jobs
  <2>3. Contract!Post(c.job)
    BY <1>3, <2>1, <2>2 DEF Contract!Post, Granted
  <2>4. QED
    BY <1>3, <2>3 DEF Steps, Contract!Next
<1>4. QED
  BY <1>2, <1>3, SubmitIsLive

(* A report confirms what was posted, asks for a review, or leaves the job *)
(* open.                                                                   *)
LEMMA CompleteMaps ==
  ASSUME TypeInv, TypeInv', OneShot, Single, NEW m \in reports, Complete(m)
  PROVE  Steps
<1> DEFINE j == m.claim.job
<1>1. /\ UNCHANGED posted /\ job \in [Jobs -> Job] /\ posted \in [Jobs -> Nat]
      /\ j \in Jobs /\ m.result \in Results
  BY DEF Complete, TypeInv, DatabaseTypeOK, NetworkTypeOK, Claims
<1>2. CASE job' = job
  BY <1>1, <1>2, JobStutters DEF Steps
<1>3. CASE Settles(m.tab, m.claim) /\ job' = [job EXCEPT ![j] = Settled(j, m.result)]
  <2>1. job[j].status = "claimed"
    BY <1>3 DEF Settles, Owns
  <2>2. /\ Settled(j, m.result).status = Outcome(j, m.result)
        /\ Settled(j, m.result).prepared = job[j].prepared
    BY <1>1 DEF Settled, Job
  <2>3. ASSUME NEW i \in Jobs
        PROVE  /\ job'[i].prepared = job[i].prepared
               /\ job'[i].status = IF i = j THEN Outcome(j, m.result) ELSE job[i].status
    BY <1>1, <1>3, <2>2, <2>3
  <2>4. CASE Outcome(j, m.result) = "sent"
    <3>1. m.result = "sent"
      BY <2>4 DEF Outcome
    <3>2. posted[j] = 1
      BY <1>1, <3>1 DEF Single, SentIsSeen, OneShot, AtMostOnce
    <3>3. Phase[j] = "open"
      BY <1>1, <2>1, PhaseIs DEF PhaseOf
    <3>4. Phase' = [Phase EXCEPT ![j] = "confirmed"]
      <4>1. Phase' = [i \in Jobs |-> PhaseOf(job'[i].status)]
        BY PhaseIsThen
      <4>2. ASSUME NEW i \in Jobs
            PROVE  PhaseOf(job'[i].status) = IF i = j THEN "confirmed" ELSE PhaseOf(job[i].status)
        BY <2>3, <2>4, <4>2 DEF PhaseOf
      <4>3. QED
        BY <1>1, <4>1, <4>2, PhaseIs
    <3>5. Granted' = Granted
      BY <2>3 DEF Granted, Jobs
    <3>6. Contract!Confirm(j)
      BY <1>1, <3>2, <3>3, <3>4, <3>5 DEF Contract!Confirm, Granted
    <3>7. QED
      BY <1>1, <3>6 DEF Steps, Contract!Next
  <2>5. CASE Outcome(j, m.result) = "manual_review"
    <3>1. ASSUME NEW i \in Jobs
          PROVE  /\ job'[i].prepared = job[i].prepared
                 /\ \/ PhaseOf(job'[i].status) = PhaseOf(job[i].status)
                    \/ job[i].status \in {"claimed"} /\ job'[i].status = "manual_review"
      BY <2>1, <2>3, <2>5
    <3>2. QED
      BY <1>1, <3>1, StatusStep
  <2>6. CASE Outcome(j, m.result) = "failed"
    <3>1. ASSUME NEW i \in Jobs
          PROVE  /\ job'[i].prepared = job[i].prepared
                 /\ PhaseOf(job'[i].status) = PhaseOf(job[i].status)
      BY <2>1, <2>3, <2>6 DEF PhaseOf
    <3>2. QED
      BY <1>1, <3>1, StatusStays DEF Steps
  <2>7. Outcome(j, m.result) \in Results
    BY <1>1 DEF Outcome, Results
  <2>8. QED
    BY <2>4, <2>5, <2>6, <2>7 DEF Results
<1>4. QED
  BY <1>2, <1>3 DEF Complete

(* Everything else is hidden from the buyer. *)
LEMMA StepMaps == ASSUME TypeInv, TypeInv', OneShot, Single, Next PROVE Steps
<1>1. CASE Buyer \/ Deadline
  BY <1>1, BuyerMaps, DeadlineMaps
<1>2. CASE Pairing \/ Lost \/ \E d \in Devices : BackgroundStops(d)
  <2>1. UNCHANGED <<job, posted>>
    BY <1>2 DEF Pairing, Revoke, PairDeactivates, PairActivates, PairFails, Lost,
                BackgroundStops, database
  <2>2. QED
    BY <2>1, JobStutters DEF Steps
<1>3. CASE Server
  BY <1>3, PrepareMaps, CompleteMaps DEF Server
<1>4. ASSUME NEW t \in Tabs, Worker(t) PROVE Steps
  <2>1. CASE Claim(t)
    BY <2>1, ClaimMaps
  <2>2. ASSUME NEW c \in Claims, Submit(t, c) PROVE Steps
    BY <2>2, SubmitMaps
  <2>3. ASSUME \/ TabReloads(t) \/ ContentStep(t)
               \/ \E c \in Claims : AskFails(t, c) \/ TargetMissed(t, c)
        PROVE  Steps
    <3>1. UNCHANGED <<job, posted>>
      BY <2>3 DEF TabReloads, AskFails, TargetMissed, ContentStep, StagingFails, AskPermit,
                  RecheckFails, Click, Verify, Report, ReportFails, database
    <3>2. QED
      BY <3>1, JobStutters DEF Steps
  <2>4. QED
    BY <1>4, <2>1, <2>2, <2>3 DEF Worker, BackgroundStep
<1>5. QED
  BY <1>1, <1>2, <1>3, <1>4 DEF Next

(* The delivery queue, its devices and its network implement OneSubmission: *)
(* a job is submitted at most once and with permission, recorded as sent    *)
(* only if it was, and left alone once a person has it.                     *)
THEOREM DeliveryImplementsOneSubmission ==
  PermitsExpireFirst => (Spec => ImplementsOneSubmission)
<1> SUFFICES ASSUME PermitsExpireFirst PROVE Spec => ImplementsOneSubmission
  OBVIOUS
<1>1. ASSUME Init PROVE Contract!Init
  <2>1. TypeInv /\ \A j \in Jobs : job[j].status = "absent" /\ ~job[j].prepared
    BY <1>1, InitType DEF Init
  <2>2. Phase = [j \in Jobs |-> "none"] /\ Granted = {}
    BY <2>1, PhaseIs DEF PhaseOf, Granted
  <2>3. QED
    BY <1>1, <2>2 DEF Contract!Init, Init, Granted
<1>2. /\ TypeInv /\ OneShot /\ Single
      /\ TypeInv'
      /\ [Next]_vars
      => [Contract!Next]_<<Phase, Granted, posted>>
  <2>1. UNCHANGED vars => UNCHANGED <<Phase, Granted, posted>>
    BY JobStutters DEF vars, database
  <2>2. QED
    BY <2>1, StepMaps DEF Steps
<1>3. QED
  BY <1>1, <1>2, SingleInvariance, PTL
     DEF Spec, ImplementsOneSubmission, Contract!Spec, Contract!vars, Granted

-----------------------------------------------------------------------------
(* What is recorded as sent was submitted, exactly once.  This takes no    *)
(* clock: a content script reports "sent" of what it has seen.             *)

SentWasSubmitted == \A j \in Jobs : job[j].status = "sent" => posted[j] = 1

(* "sent" is said about submitted jobs only, and recorded of them only.    *)
SentIsTrue == /\ SentIsSeen
              /\ \A j \in Jobs : job[j].status = "sent" => posted[j] > 0

LEMMA PostedGrows ==
  ASSUME TypeInv, [Next]_vars, NEW j \in Jobs
  PROVE  posted[j] > 0 => posted'[j] > 0
<1>1. posted \in [Jobs -> Nat]
  BY DEF TypeInv
<1>2. CASE \E t \in Tabs, c \in Claims : Submit(t, c)
  <2>1. PICK t \in Tabs, c \in Claims : Submit(t, c)
    BY <1>2
  <2>2. posted' \in {posted, [posted EXCEPT ![c.job] = @ + 1]}
    BY <2>1 DEF Submit
  <2>3. QED
    BY <1>1, <2>2
<1>3. CASE ~\E t \in Tabs, c \in Claims : Submit(t, c)
  BY <1>3, OthersPostNothing
<1>4. QED
  BY <1>2, <1>3

(* A tab's own variables: what a step does to the result it holds.         *)
ResultStays(t) ==
  \/ result'[t] # "sent"
  \/ /\ result'[t] = result[t] /\ work'[t] = work[t]
     /\ pc'[t] = pc[t] \/ pc'[t] = "reporting"
  \/ /\ pc[t] = "verifying" /\ pc'[t] = "done" /\ work'[t] = work[t]
     /\ posted[work[t].job] > 0

(* Only Report adds a report. *)
ReportsTold ==
  \A m \in reports' : \/ m \in reports
                      \/ \E t \in Tabs : /\ pc[t] = "done" /\ m.claim = work[t]
                                         /\ m.result = result[t]

(* Only a report makes a job sent. *)
SentIsTold ==
  \A j \in Jobs : job'[j].status = "sent" =>
    \/ job[j].status = "sent"
    \/ \E m \in reports : m.claim.job = j /\ m.result = "sent"

LEMMA SentIsTrueKept ==
  ASSUME TypeInv, SentIsTrue, \A j \in Jobs : posted[j] > 0 => posted'[j] > 0,
         \A t \in Tabs : ResultStays(t), ReportsTold, SentIsTold
  PROVE  SentIsTrue'
<1>1. ASSUME NEW t \in Tabs, result'[t] = "sent"
      PROVE  pc'[t] \in {"done", "reporting"} /\ posted'[work'[t].job] > 0
  <2>1. CASE /\ result'[t] = result[t] /\ work'[t] = work[t]
             /\ pc'[t] = pc[t] \/ pc'[t] = "reporting"
    <3>1. /\ pc[t] \in {"done", "reporting"} /\ posted[work[t].job] > 0
      BY <1>1, <2>1 DEF SentIsTrue, SentIsSeen
    <3>2. work[t] \in Claims
      BY <1>1, <3>1 DEF TypeInv, ContentTypeOK
    <3>3. QED
      BY <2>1, <3>1, <3>2 DEF Claims
  <2>2. CASE /\ pc[t] = "verifying" /\ pc'[t] = "done" /\ work'[t] = work[t]
             /\ posted[work[t].job] > 0
    <3>1. work[t].job \in Jobs
      BY <1>1, <2>2 DEF TypeInv, ContentTypeOK, Claims
    <3>2. QED
      BY <2>2, <3>1
  <2>3. QED
    BY <1>1, <2>1, <2>2 DEF ResultStays
<1>2. ASSUME NEW m \in reports', m.result = "sent" PROVE posted'[m.claim.job] > 0
  <2>1. CASE m \in reports
    BY <1>2, <2>1 DEF SentIsTrue, SentIsSeen, TypeInv, NetworkTypeOK, Claims
  <2>2. ASSUME NEW t \in Tabs, pc[t] = "done", m.claim = work[t], m.result = result[t]
        PROVE  posted'[m.claim.job] > 0
    <3>1. posted[work[t].job] > 0 /\ work[t] \in Claims
      BY <1>2, <2>2 DEF SentIsTrue, SentIsSeen, TypeInv, ContentTypeOK
    <3>2. QED
      BY <2>2, <3>1 DEF Claims
  <2>3. QED
    BY <1>2, <2>1, <2>2 DEF ReportsTold
<1>3. ASSUME NEW j \in Jobs, job'[j].status = "sent" PROVE posted'[j] > 0
  <2>1. CASE job[j].status = "sent"
    BY <1>3, <2>1 DEF SentIsTrue
  <2>2. ASSUME NEW m \in reports, m.claim.job = j, m.result = "sent" PROVE posted'[j] > 0
    BY <1>3, <2>2 DEF SentIsTrue, SentIsSeen
  <2>3. QED
    BY <1>3, <2>1, <2>2 DEF SentIsTold
<1>4. QED
  BY <1>1, <1>2, <1>3 DEF SentIsTrue, SentIsSeen


(* The moves of one tab.                                                   *)
LEMMA TabMoves ==
  ASSUME TypeInv, SentIsTrue, NEW t \in Tabs,
         \/ UNCHANGED content
         \/ \E p \in PC : /\ Goes(t, p) /\ UNCHANGED <<work, result>>
                          /\ pc[t] \in {"done", "reporting"} => p = "reporting"
         \/ \E r \in {"failed", "manual_review"} : Reports(t, r) /\ UNCHANGED work
         \/ Seen(t) /\ Reports(t, "sent") /\ UNCHANGED work
         \/ BackToIdle(t)
  PROVE  \A u \in Tabs : ResultStays(u)
<1>1. /\ pc \in [Tabs -> PC] /\ result \in [Tabs -> Results \cup {"none"}]
      /\ work \in [Tabs -> Claims \cup {NoClaim}]
      /\ \A u \in Tabs : result[u] = "sent" => pc[u] \in {"done", "reporting"}
  BY DEF TypeInv, ContentTypeOK, SentIsTrue, SentIsSeen
<1>2. CASE UNCHANGED content
  BY <1>2 DEF content, ResultStays
<1>3. ASSUME NEW p \in PC, Goes(t, p), UNCHANGED <<work, result>>,
             pc[t] \in {"done", "reporting"} => p = "reporting"
      PROVE  \A u \in Tabs : ResultStays(u)
  BY <1>1, <1>3 DEF Goes, ResultStays
<1>4. ASSUME NEW r \in {"failed", "manual_review"}, Reports(t, r), UNCHANGED work
      PROVE  \A u \in Tabs : ResultStays(u)
  BY <1>1, <1>4 DEF Goes, Reports, ResultStays
<1>5. CASE Seen(t) /\ Reports(t, "sent") /\ UNCHANGED work
  BY <1>1, <1>5 DEF Goes, Reports, Seen, ResultStays
<1>6. CASE BackToIdle(t)
  BY <1>1, <1>6 DEF Goes, BackToIdle, ResultStays
<1>7. QED
  BY <1>2, <1>3, <1>4, <1>5, <1>6

LEMMA GivenUpMoves ==
  ASSUME NEW t \in Tabs, GivenUp(t)
  PROVE  (Reports(t, "manual_review") /\ UNCHANGED work) \/ BackToIdle(t)
  BY DEF GivenUp

(* What the content scripts, their background and their answers do.        *)
LEMMA WorkerMoves ==
  ASSUME TypeInv, SentIsTrue, NEW t \in Tabs, Worker(t)
  PROVE  \A u \in Tabs : ResultStays(u)
<1>1. CASE Claim(t)
  <2>1. CASE UNCHANGED content
    BY <2>1, TabMoves
  <2>2. ASSUME NEW c, Goes(t, "staging"), work' = [work EXCEPT ![t] = c], UNCHANGED result,
               pc[t] = "idle"
        PROVE  \A u \in Tabs : ResultStays(u)
    <3>1. result[t] # "sent"
      BY <2>2 DEF SentIsTrue, SentIsSeen
    <3>2. pc \in [Tabs -> PC] /\ work \in [Tabs -> Claims \cup {NoClaim}]
      BY DEF TypeInv, ContentTypeOK
    <3>3. QED
      BY <2>2, <3>1, <3>2 DEF Goes, ResultStays
  <2>3. \/ UNCHANGED content
        \/ \E c : /\ Goes(t, "staging") /\ work' = [work EXCEPT ![t] = c]
                  /\ UNCHANGED result /\ pc[t] = "idle"
    BY <1>1 DEF Claim, content
  <2>4. QED
    BY <2>1, <2>2, <2>3
<1>2. CASE StagingFails(t) \/ RecheckFails(t)
  BY <1>2, TabMoves DEF StagingFails, RecheckFails
<1>3. CASE AskPermit(t) \/ Click(t) \/ Report(t)
  <2>1. \E p \in PC : /\ Goes(t, p) /\ UNCHANGED <<work, result>>
                      /\ pc[t] \in {"done", "reporting"} => p = "reporting"
    BY <1>3 DEF AskPermit, Click, Report, PC
  <2>2. QED
    BY <2>1, TabMoves
<1>4. CASE Verify(t)
  BY <1>4, TabMoves DEF Verify
<1>5. CASE ReportFails(t)
  BY <1>5, TabMoves, GivenUpMoves DEF ReportFails
<1>6. CASE TabReloads(t)
  BY <1>6, TabMoves DEF TabReloads
<1>7. ASSUME NEW c \in Claims, AskFails(t, c) PROVE \A u \in Tabs : ResultStays(u)
  <2>1. UNCHANGED content \/ (Reports(t, "manual_review") /\ UNCHANGED work)
    BY <1>7 DEF AskFails, content
  <2>2. QED
    BY <2>1, TabMoves
<1>8. ASSUME NEW c \in Claims, TargetMissed(t, c) \/ Submit(t, c)
      PROVE  \A u \in Tabs : ResultStays(u)
  <2>1. UNCHANGED work /\ (Answers(t, c, TRUE) \/ Answers(t, c, FALSE))
    BY <1>8 DEF TargetMissed, Submit
  <2>2. \/ UNCHANGED content
        \/ Reports(t, "manual_review") /\ UNCHANGED work
        \/ pc[t] = "clicked" /\ Goes(t, "verifying") /\ UNCHANGED <<work, result>>
    BY <2>1 DEF Answers, content
  <2>3. CASE pc[t] = "clicked" /\ Goes(t, "verifying") /\ UNCHANGED <<work, result>>
    <3>1. \E p \in PC : /\ Goes(t, p) /\ UNCHANGED <<work, result>>
                        /\ pc[t] \in {"done", "reporting"} => p = "reporting"
      BY <2>3 DEF PC
    <3>2. QED
      BY <3>1, TabMoves
  <2>4. QED
    BY <2>2, <2>3, TabMoves
<1>9. QED
  BY <1>1, <1>2, <1>3, <1>4, <1>5, <1>6, <1>7, <1>8
  DEF Worker, ContentStep, BackgroundStep

LEMMA ResultsStay ==
  ASSUME TypeInv, SentIsTrue, [Next]_vars PROVE \A u \in Tabs : ResultStays(u)
<1>1. CASE UNCHANGED vars \/ Buyer \/ Pairing \/ Deadline \/ Lost
  <2>1. UNCHANGED content
    BY <1>1 DEF vars, Buyer, Enqueue, Withdraw, Pairing, Revoke, PairDeactivates, PairActivates,
                PairFails, Deadline, LeaseExpires, RetryFallsDue, PermitExpires, Lost
  <2>2. QED
    BY <2>1 DEF content, ResultStays
<1>2. ASSUME NEW m \in asks, Prepare(m) PROVE \A u \in Tabs : ResultStays(u)
  <2>1. /\ m.tab \in Tabs /\ UNCHANGED <<work, result>>
        /\ pc' = pc \/ (pc[m.tab] = "preparing" /\ Goes(m.tab, "permitted"))
    BY <1>2 DEF Prepare, Goes, TypeInv, NetworkTypeOK
  <2>2. CASE pc' = pc
    BY <2>1, <2>2 DEF ResultStays
  <2>3. CASE pc[m.tab] = "preparing" /\ Goes(m.tab, "permitted")
    <3>1. \E p \in PC : /\ Goes(m.tab, p) /\ UNCHANGED <<work, result>>
                        /\ pc[m.tab] \in {"done", "reporting"} => p = "reporting"
      BY <2>1, <2>3 DEF PC
    <3>2. QED
      BY <2>1, <3>1, TabMoves
  <2>4. QED
    BY <2>1, <2>2, <2>3
<1>3. ASSUME NEW m \in reports, Complete(m) PROVE \A u \in Tabs : ResultStays(u)
  <2>1. m.tab \in Tabs
    BY <1>3 DEF TypeInv, NetworkTypeOK
  <2>2. UNCHANGED content \/ BackToIdle(m.tab) \/ GivenUp(m.tab)
    BY <1>3 DEF Complete
  <2>3. QED
    BY <2>1, <2>2, TabMoves, GivenUpMoves
<1>4. ASSUME NEW t \in Tabs, Worker(t) PROVE \A u \in Tabs : ResultStays(u)
  BY <1>4, WorkerMoves
<1>5. ASSUME NEW d \in Devices, BackgroundStops(d), NEW u \in Tabs PROVE ResultStays(u)
  <2>1. \/ result'[u] # "sent"
        \/ pc'[u] = pc[u] /\ work'[u] = work[u] /\ result'[u] = result[u]
    BY <1>5 DEF BackgroundStops
  <2>2. QED
    BY <2>1 DEF ResultStays
<1>6. QED
  BY <1>1, <1>2, <1>3, <1>4, <1>5 DEF Next, Server

LEMMA OnlyReportsTell ==
  ASSUME TypeInv, [Next]_vars PROVE ReportsTold
<1>1. ASSUME NEW t \in Tabs, Report(t) PROVE ReportsTold
  BY <1>1 DEF Report, ReportsTold
<1>2. CASE \A t \in Tabs : ~Report(t)
  <2>1. reports' \subseteq reports
    BY <1>2
    DEF Next, vars, network, Buyer, Enqueue, Withdraw, Pairing, Revoke, PairDeactivates,
        PairActivates, PairFails, Deadline, LeaseExpires, RetryFallsDue, PermitExpires, Lost,
        Server, Prepare, Complete, Worker, Claim, TabReloads, BackgroundStep, AskFails,
        TargetMissed, Submit, ContentStep, StagingFails, AskPermit, RecheckFails, Click, Verify,
        ReportFails, BackgroundStops
  <2>2. QED
    BY <2>1 DEF ReportsTold
<1>3. QED
  BY <1>1, <1>2

LEMMA OnlyReportsConfirm ==
  ASSUME TypeInv, [Next]_vars PROVE SentIsTold
<1>1. job \in [Jobs -> Job]
  BY DEF TypeInv, DatabaseTypeOK
<1>2. CASE UNCHANGED job
  BY <1>2 DEF SentIsTold
<1>3. CASE Buyer \/ Deadline
  <2>1. ASSUME NEW j \in Jobs, Enqueue(j) \/ Withdraw(j) PROVE SentIsTold
    BY <1>1, <2>1 DEF Enqueue, Withdraw, SentIsTold, Job
  <2>2. ASSUME NEW j \in Jobs, LeaseExpires(j) \/ RetryFallsDue(j) PROVE SentIsTold
    BY <1>1, <2>2 DEF LeaseExpires, RetryFallsDue, SentIsTold, Job
  <2>3. ASSUME NEW t \in Tabs, PermitExpires(t) PROVE SentIsTold
    BY <1>2, <2>3 DEF PermitExpires, database
  <2>4. QED
    BY <1>3, <2>1, <2>2, <2>3 DEF Buyer, Deadline
<1>4. ASSUME NEW t \in Tabs, Claim(t) PROVE SentIsTold
  <2>1. \A i \in Jobs : Swept[i].status = "sent" => job[i].status = "sent"
    BY <1>1 DEF Swept, Job
  <2>2. ASSUME NEW j \in Eligible(Swept), NEW i \in Jobs
        PROVE  Taken(Swept, j)[i].status = "sent" => Swept[i].status = "sent"
    <3>1. j \in Jobs /\ Swept \in [Jobs -> Job]
      BY SweptType, TypeInvTypes DEF Eligible
    <3>2. QED
      BY <3>1 DEF Taken, Job
  <2>3. job' = Swept \/ \E j \in Eligible(Swept) : job' = Taken(Swept, j)
    BY <1>4 DEF Claim
  <2>4. QED
    BY <2>1, <2>2, <2>3 DEF SentIsTold
<1>5. ASSUME NEW m \in asks, Prepare(m) PROVE SentIsTold
  BY <1>1, <1>5 DEF Prepare, Recorded, SentIsTold, Job
<1>6. ASSUME NEW m \in reports, Complete(m) PROVE SentIsTold
  <2>1. m.claim.job \in Jobs
    BY DEF TypeInv, NetworkTypeOK, Claims
  <2>2. /\ Settled(m.claim.job, m.result).status = Outcome(m.claim.job, m.result)
        /\ Outcome(m.claim.job, m.result) = "sent" => m.result = "sent"
    BY <1>1, <2>1 DEF Settled, Outcome, Job
  <2>3. \/ job' = job
        \/ job' = [job EXCEPT ![m.claim.job] = Settled(m.claim.job, m.result)]
    BY <1>6 DEF Complete
  <2>4. QED
    BY <1>1, <2>1, <2>2, <2>3 DEF SentIsTold
<1>7. ASSUME NEW t \in Tabs, Worker(t), ~Claim(t) PROVE UNCHANGED job
  BY <1>7
  DEF Worker, TabReloads, BackgroundStep, AskFails, TargetMissed, Submit, ContentStep,
      StagingFails, AskPermit, RecheckFails, Click, Verify, Report, ReportFails, database
<1>8. CASE UNCHANGED vars \/ Pairing \/ Lost \/ \E d \in Devices : BackgroundStops(d)
  BY <1>2, <1>8
  DEF vars, Pairing, Revoke, PairDeactivates, PairActivates, PairFails, Lost, BackgroundStops,
      database
<1>9. QED
  BY <1>2, <1>3, <1>4, <1>5, <1>6, <1>7, <1>8 DEF Next, Server

(* A job recorded as sent was submitted exactly once, whatever expires, is *)
(* lost, repeated, reloaded or paired anew and whatever the clocks do.     *)
THEOREM SentWasSubmittedAlways == Spec => []SentWasSubmitted
<1>1. ASSUME Init PROVE SentIsTrue
  BY <1>1 DEF Init, SentIsTrue, SentIsSeen
<1>2. TypeInv /\ SentIsTrue /\ [Next]_vars => SentIsTrue'
  BY SentIsTrueKept, PostedGrows, ResultsStay, OnlyReportsTell, OnlyReportsConfirm
<1>3. TypeInv /\ OneShot /\ SentIsTrue => SentWasSubmitted
  <2>1. ASSUME TypeInv, OneShot, SentIsTrue, NEW j \in Jobs, job[j].status = "sent"
        PROVE  posted[j] = 1
    BY <2>1 DEF TypeInv, OneShot, AtMostOnce, SentIsTrue
  <2>2. QED
    BY <2>1 DEF SentWasSubmitted
<1>4. QED
  BY <1>1, <1>2, <1>3, Invariance, PTL DEF Spec
=============================================================================
