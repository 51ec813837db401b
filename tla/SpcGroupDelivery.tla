--------------------------- MODULE SpcGroupDelivery ---------------------------
(***************************************************************************)
(* The delivery of SPC enquiries to WhatsApp groups: a leased queue of     *)
(* jobs in the database and the browser extension that works it off.  The  *)
(* extension runs one content script per WhatsApp tab, which polls for a   *)
(* job, stages its text, asks for a one-shot permit to submit, has the     *)
(* background script press Send, watches for the outgoing message and      *)
(* reports.  Devices are paired one at a time.                             *)
(*                                                                         *)
(* Nobody can take a message back, so a job must not be submitted twice,   *)
(* and once a person has been asked to look at it, not by the machine.     *)
(*                                                                         *)
(* Time is abstracted to the events its deadlines produce: a lease runs    *)
(* out, a permit expires, a retry falls due.                               *)
(***************************************************************************)
EXTENDS Naturals

CONSTANTS
  MaxJobs,      \* bound: delivery jobs
  Devices,      \* desktops; one whose extension storage was lost is another
  Tabs,         \* WhatsApp tabs of all devices
  DeviceOf,     \* the device a tab is on
  NoDevice,     \* "no dispatcher is active"
  NoClaim,      \* "no claim at hand"
  MaxAttempts,  \* claims a job may have (20 in the code)
  PermitsExpireFirst  \* TRUE: a device's clock runs on while it holds a permit

Jobs == 1..MaxJobs

(* The claim token is random for every claim, and every claim of a job     *)
(* counts an attempt, so the attempt stands for the token.                 *)
Claims == [job : Jobs, attempt : 1..MaxAttempts]

ASSUME DeliveryAssumption ==
  /\ MaxJobs \in Nat /\ MaxAttempts \in Nat \ {0}
  /\ DeviceOf \in [Tabs -> Devices]
  /\ NoDevice \notin Devices
  /\ NoClaim \notin Claims
  /\ PermitsExpireFirst \in BOOLEAN

VARIABLES
  job,       \* spc_group_delivery_jobs, in the order of created_at
  active,    \* the spc_group_dispatchers row that is active
  pairing,   \* devices between the two statements of a pairing
  paired,    \* devices whose extension has stored its token
  \* The content script of each tab.
  pc,        \* where processQueue is
  work,      \* the claim it works on
  result,    \* what it reports
  \* The background script of each device, by tab.
  asking,    \* permits it has asked for and waits for
  permit,    \* submissionPermits
  fresh,     \* the permit's deadline lies ahead
  clicks,    \* debuggerQueues: submissions still to be made
  \* Requests under way, which may be lost, late or repeated.
  asks,      \* prepare_send
  reports,   \* complete
  \* WhatsApp.
  posted     \* messages submitted for each job

database   == <<job, active, pairing, paired>>
content    == <<pc, work, result>>
background == <<asking, permit, fresh, clicks>>
network    == <<asks, reports>>
vars       == <<database, content, background, network, posted>>

-----------------------------------------------------------------------------
Status == {"absent", "queued", "claimed", "sent", "failed", "manual_review", "withdrawn"}

Job == [status : Status, attempts : 0..MaxAttempts, prepared : BOOLEAN,
        live : BOOLEAN, due : BOOLEAN]

PC == {"idle", "staging", "preparing", "permitted", "clicked", "verifying",
       "done", "reporting"}

Results == {"sent", "failed", "manual_review"}

TypeOK ==
  /\ job \in [Jobs -> Job]
  /\ active \in Devices \cup {NoDevice}
  /\ pairing \subseteq Devices /\ paired \subseteq Devices
  /\ pc \in [Tabs -> PC]
  /\ work \in [Tabs -> Claims \cup {NoClaim}]
  /\ result \in [Tabs -> Results \cup {"none"}]
  /\ asking \in [Tabs -> SUBSET Claims]
  /\ permit \in [Tabs -> Claims \cup {NoClaim}]
  /\ fresh \in [Tabs -> BOOLEAN]
  /\ clicks \in [Tabs -> SUBSET Claims]
  /\ asks \subseteq [tab : Tabs, claim : Claims]
  /\ reports \subseteq [tab : Tabs, claim : Claims, result : Results]
  /\ posted \in [Jobs -> Nat]

Init ==
  /\ job = [j \in Jobs |-> [status |-> "absent", attempts |-> 0, prepared |-> FALSE,
                            live |-> FALSE, due |-> TRUE]]
  /\ active = NoDevice /\ pairing = {} /\ paired = {}
  /\ pc = [t \in Tabs |-> "idle"]
  /\ work = [t \in Tabs |-> NoClaim]
  /\ result = [t \in Tabs |-> "none"]
  /\ asking = [t \in Tabs |-> {}]
  /\ permit = [t \in Tabs |-> NoClaim]
  /\ fresh = [t \in Tabs |-> FALSE]
  /\ clicks = [t \in Tabs |-> {}]
  /\ asks = {} /\ reports = {}
  /\ posted = [j \in Jobs |-> 0]

-----------------------------------------------------------------------------
(* The buyer's side. *)

(* A created, amended or reoffered enquiry of a buyer with an active route. *)
Enqueue(j) ==
  /\ job[j].status = "absent"
  /\ \A i \in 1..(j - 1) : job[i].status # "absent"
  /\ job' = [job EXCEPT ![j].status = "queued"]
  /\ UNCHANGED <<active, pairing, paired, content, background, network, posted>>

(* A cancelled enquiry is deleted, and its jobs with it, wherever they are. *)
Withdraw(j) ==
  /\ job[j].status \notin {"absent", "withdrawn"}
  /\ job' = [job EXCEPT ![j].status = "withdrawn", ![j].live = FALSE]
  /\ UNCHANGED <<active, pairing, paired, content, background, network, posted>>

-----------------------------------------------------------------------------
(* Pairing: all dispatchers are deactivated, then the new one is stored, in *)
(* two transactions.  A unique index admits one active dispatcher.          *)

PairDeactivates(d) ==
  /\ d \notin paired /\ d \notin pairing
  /\ active' = NoDevice
  /\ pairing' = pairing \cup {d}
  /\ UNCHANGED <<job, paired, content, background, network, posted>>

PairActivates(d) ==
  /\ d \in pairing /\ active = NoDevice
  /\ active' = d
  /\ pairing' = pairing \ {d}
  /\ paired' = paired \cup {d}
  /\ UNCHANGED <<job, content, background, network, posted>>

(* The index refuses the row, or the token is lost on its way back. *)
PairFails(d) ==
  /\ d \in pairing
  /\ pairing' = pairing \ {d}
  /\ UNCHANGED <<job, active, paired, content, background, network, posted>>

Revoke ==
  /\ active # NoDevice
  /\ active' = NoDevice
  /\ UNCHANGED <<job, pairing, paired, content, background, network, posted>>

-----------------------------------------------------------------------------
(* Deadlines. *)

ClaimOf(j) == [job |-> j, attempt |-> job[j].attempts]

(* Mutant: a permit does not extend the lease. *)
LeaseNotExtended(j) ==
  /\ job[j].status = "claimed" /\ job[j].live
  /\ job' = [job EXCEPT ![j].live = FALSE]
  /\ UNCHANGED <<active, pairing, paired, content, background, network, posted>>

(* A permit's deadline starts before the request that extends the lease by *)
(* the same 90 seconds, so it expires first on a clock that runs on.       *)
LeaseExpires(j) ==
  /\ job[j].status = "claimed" /\ job[j].live
  /\ PermitsExpireFirst => \A t \in Tabs : fresh[t] => permit[t] # ClaimOf(j)
  /\ job' = [job EXCEPT ![j].live = FALSE]
  /\ UNCHANGED <<active, pairing, paired, content, background, network, posted>>

PermitExpires(t) ==
  /\ fresh[t]
  /\ fresh' = [fresh EXCEPT ![t] = FALSE]
  /\ UNCHANGED <<database, content, asking, permit, clicks, network, posted>>

(* available_at of a failed job is reached. *)
RetryFallsDue(j) ==
  /\ ~job[j].due
  /\ job' = [job EXCEPT ![j].due = TRUE]
  /\ UNCHANGED <<active, pairing, paired, content, background, network, posted>>
-----------------------------------------------------------------------------
(* Claiming, under a lock on the active dispatcher's row. *)

(* Uncertain and exhausted jobs are first handed to a person. *)
Exhausted(j) == \/ /\ job[j].status = "claimed" /\ ~job[j].live
                   /\ job[j].prepared \/ job[j].attempts >= MaxAttempts
                \/ job[j].status \in {"queued", "failed"} /\ job[j].attempts >= MaxAttempts

(* Mutant: an expired claim goes back to the queue. *)
SweptBack == [j \in Jobs |->
  IF job[j].status = "claimed" /\ ~job[j].live THEN [job[j] EXCEPT !.status = "failed"]
                                               ELSE job[j]]

Swept == [j \in Jobs |->
  IF Exhausted(j) THEN [job[j] EXCEPT !.status = "manual_review", !.live = FALSE]
                  ELSE job[j]]

(* Mutant: only waiting jobs are claimed, never an abandoned one. *)
EligibleWaiting(q) == {j \in Jobs :
  q[j].status \in {"queued", "failed"} /\ q[j].due /\ q[j].attempts < MaxAttempts}

Eligible(q) == {j \in Jobs :
  /\ \/ q[j].status \in {"queued", "failed"}
     \/ q[j].status = "claimed" /\ ~q[j].live
  /\ ~q[j].prepared /\ q[j].due /\ q[j].attempts < MaxAttempts}

(* Mutant: each tab may have a claim of its own. *)
InFlightPerTab(q) == {}

(* One claim may be live at a time, whichever tab holds it. *)
InFlight(q) == {j \in Jobs : q[j].status = "claimed" /\ q[j].live}

(* Mutant: the attempt is counted twice. *)
TakenTwice(q, j) == [q EXCEPT ![j].status = "claimed", ![j].live = TRUE, ![j].attempts = @ + 2]

Taken(q, j) == [q EXCEPT ![j].status = "claimed", ![j].live = TRUE, ![j].attempts = @ + 1]

Goes(t, place) == pc' = [pc EXCEPT ![t] = place]

(* The oldest eligible job.  The answer may be lost, and its token with it.*)
Claim(t) ==
  /\ pc[t] = "idle" /\ active = DeviceOf[t]
  /\ \/ /\ InFlight(Swept) # {} \/ Eligible(Swept) = {}
        /\ job' = Swept
        /\ UNCHANGED <<pc, work>>
     \/ /\ InFlight(Swept) = {}
        /\ \E j \in Eligible(Swept) :
             /\ \A i \in Eligible(Swept) : j <= i
             /\ job' = Taken(Swept, j)
             /\ \/ /\ Goes(t, "staging")
                   /\ work' = [work EXCEPT ![t] = [job |-> j, attempt |-> job'[j].attempts]]
                \/ UNCHANGED <<pc, work>>
  /\ UNCHANGED <<active, pairing, paired, result, background, network, posted>>

-----------------------------------------------------------------------------
(* A content script at work. *)

Reports(t, res) == Goes(t, "done") /\ result' = [result EXCEPT ![t] = res]

(* The group is not found, or anything else is in the way: a plain failure *)
(* or, where WhatsApp shows something unexpected, a case for a person.     *)
StagingFails(t) ==
  /\ pc[t] = "staging"
  /\ Reports(t, "failed") \/ Reports(t, "manual_review")
  /\ UNCHANGED <<database, work, background, network, posted>>

(* The text is staged; the background script asks for the permit. *)
AskPermit(t) ==
  /\ pc[t] = "staging"
  /\ Goes(t, "preparing")
  /\ asking' = [asking EXCEPT ![t] = @ \cup {work[t]}]
  /\ permit' = [permit EXCEPT ![t] = NoClaim]
  /\ fresh' = [fresh EXCEPT ![t] = FALSE]
  /\ asks' = asks \cup {[tab |-> t, claim |-> work[t]]}
  /\ UNCHANGED <<database, work, result, clicks, reports, posted>>

(* The request fails for the device, though perhaps not for the database. *)
AskFails(t, c) ==
  /\ c \in asking[t]
  /\ asking' = [asking EXCEPT ![t] = @ \ {c}]
  /\ \/ pc[t] = "preparing" /\ work[t] = c /\ Reports(t, "manual_review")
     \/ ~(pc[t] = "preparing" /\ work[t] = c) /\ UNCHANGED <<pc, result>>
  /\ UNCHANGED <<database, work, permit, fresh, clicks, network, posted>>

Owns(t, c) == /\ active = DeviceOf[t]
              /\ job[c.job].status = "claimed" /\ job[c.job].attempts = c.attempt

MayPrepare(t, c) == Owns(t, c) /\ job[c.job].live /\ ~job[c.job].prepared

(* Mutant: the permit is granted and not recorded. *)
Unrecorded(j) == job

Recorded(j) == [job EXCEPT ![j].prepared = TRUE]

(* The database grants the permit at most once for a job.  The background  *)
(* script stores it even when the tab that wanted it has been reloaded.    *)
(* The answer arrives with the grant or never: what could come in between  *)
(* commutes with the grant, and an answer past its deadline is an error.   *)
Prepare(m) ==
  LET t == m.tab c == m.claim IN
  /\ m \in asks
  /\ asks' \in {asks, asks \ {m}}
  /\ \/ MayPrepare(t, c) /\ job' = Recorded(c.job)
     \/ ~MayPrepare(t, c) /\ job' = job
  /\ \/ /\ c \in asking[t] /\ MayPrepare(t, c)
        /\ asking' = [asking EXCEPT ![t] = @ \ {c}]
        /\ permit' = [permit EXCEPT ![t] = c]
        /\ fresh' = [fresh EXCEPT ![t] = TRUE]
        /\ pc' = IF pc[t] = "preparing" /\ work[t] = c THEN [pc EXCEPT ![t] = "permitted"] ELSE pc
     \/ UNCHANGED <<asking, permit, fresh, pc>>
  /\ UNCHANGED <<active, pairing, paired, work, result, clicks, reports, posted>>

(* The chat, the text or the focus has changed, or the wall clock says the *)
(* permit is over: the content script gives up, the permit stays.          *)
RecheckFails(t) ==
  /\ pc[t] = "permitted"
  /\ Reports(t, "manual_review")
  /\ UNCHANGED <<database, work, background, network, posted>>

Click(t) ==
  /\ pc[t] = "permitted"
  /\ Goes(t, "clicked")
  /\ clicks' = [clicks EXCEPT ![t] = @ \cup {work[t]}]
  /\ UNCHANGED <<database, work, result, asking, permit, fresh, network, posted>>

(* The answer to a click finds the content script that sent it, or nobody. *)
Answers(t, c, good) ==
  IF pc[t] = "clicked" /\ work[t] = c
    THEN IF good THEN Goes(t, "verifying") /\ UNCHANGED result
                 ELSE Reports(t, "manual_review")
    ELSE UNCHANGED <<pc, result>>

(* The target moved, or the debugger could not be attached. *)
TargetMissed(t, c) ==
  /\ c \in clicks[t]
  /\ clicks' = [clicks EXCEPT ![t] = @ \ {c}]
  /\ Answers(t, c, FALSE)
  /\ UNCHANGED <<database, work, asking, permit, fresh, network, posted>>

PermitUsed(t) == /\ permit' = [permit EXCEPT ![t] = NoClaim]
                 /\ fresh' = [fresh EXCEPT ![t] = FALSE]

(* The permit is consumed, whether or not it fits, right before the press, *)
(* which WhatsApp may take or ignore.                                      *)
Submit(t, c) ==
  /\ c \in clicks[t]
  /\ clicks' = [clicks EXCEPT ![t] = @ \ {c}]
  /\ PermitUsed(t)
  /\ \/ /\ permit[t] = c /\ fresh[t]
        /\ posted' \in {posted, [posted EXCEPT ![c.job] = @ + 1]}
        /\ Answers(t, c, TRUE) \/ Answers(t, c, FALSE)
     \/ Answers(t, c, FALSE) /\ posted' = posted
  /\ UNCHANGED <<database, work, asking, network>>

(* A new acknowledged outgoing message shows up in the chat. *)
Seen(t) == pc[t] = "verifying" /\ posted[work[t].job] > 0

Verify(t) ==
  /\ pc[t] = "verifying"
  /\ \/ Seen(t) /\ Reports(t, "sent")
     \/ Reports(t, "manual_review")
  /\ UNCHANGED <<database, work, background, network, posted>>

-----------------------------------------------------------------------------
(* Reporting. *)

BackToIdle(t) == /\ Goes(t, "idle")
                 /\ work' = [work EXCEPT ![t] = NoClaim]
                 /\ result' = [result EXCEPT ![t] = "none"]

Report(t) ==
  /\ pc[t] = "done"
  /\ Goes(t, "reporting")
  /\ reports' = reports \cup {[tab |-> t, claim |-> work[t], result |-> result[t]]}
  /\ UNCHANGED <<database, work, result, background, asks, posted>>

(* A report is given up silently, but an unconfirmed "sent" is followed by *)
(* a request for review.                                                   *)
GivenUp(t) ==
  IF result[t] = "sent"
    THEN Reports(t, "manual_review") /\ work' = work
    ELSE BackToIdle(t)

(* A prepared job never goes back to the queue. *)
Outcome(j, res) ==
  IF \/ job[j].prepared /\ (res = "failed" \/ ~job[j].live)
     \/ ~job[j].prepared /\ res = "sent"
     \/ res = "failed" /\ job[j].attempts >= MaxAttempts
  THEN "manual_review" ELSE res

(* Mutant: any claim of the job may settle it. *)
SettlesAnyClaim(t, c) == active = DeviceOf[t] /\ job[c.job].status = "claimed"

(* An expired claim that prepared nothing is left for the next one. *)
Settles(t, c) == Owns(t, c) /\ (job[c.job].live \/ job[c.job].prepared)

Settled(j, res) == [job[j] EXCEPT !.status = Outcome(j, res), !.live = FALSE,
                                  !.due = (Outcome(j, res) # "failed")]

Confirmed(m) == /\ Settles(m.tab, m.claim)
                /\ m.result = "sent" => Outcome(m.claim.job, m.result) = "sent"

(* The database settles the job, and the content script, if it still waits *)
(* for this answer and gets it, goes on.                                   *)
Complete(m) ==
  LET t == m.tab
      c == m.claim
      waits == pc[t] = "reporting" /\ work[t] = c /\ result[t] = m.result
  IN
  /\ m \in reports
  /\ reports' \in {reports, reports \ {m}}
  /\ \/ Settles(t, c) /\ job' = [job EXCEPT ![c.job] = Settled(c.job, m.result)]
     \/ ~Settles(t, c) /\ job' = job
  /\ \/ waits /\ Confirmed(m) /\ BackToIdle(t)
     \/ waits /\ ~Confirmed(m) /\ GivenUp(t)
     \/ UNCHANGED content
  /\ UNCHANGED <<active, pairing, paired, background, asks, posted>>

ReportFails(t) ==
  /\ pc[t] = "reporting"
  /\ GivenUp(t)
  /\ UNCHANGED <<database, background, network, posted>>

-----------------------------------------------------------------------------
(* What can go wrong around them. *)

(* The page is reloaded or closed; the background script goes on. *)
TabReloads(t) ==
  /\ pc[t] # "idle"
  /\ BackToIdle(t)
  /\ UNCHANGED <<database, background, network, posted>>

(* The background script is stopped; whoever waits for it gets an error. *)
BackgroundStops(d) ==
  LET mine == {t \in Tabs : DeviceOf[t] = d}
      fails == {t \in mine : \/ pc[t] \in {"preparing", "clicked"}
                             \/ pc[t] = "reporting" /\ result[t] = "sent"}
      ends == {t \in mine : pc[t] = "reporting" /\ result[t] # "sent"}
  IN
  /\ asking' = [t \in Tabs |-> IF t \in mine THEN {} ELSE asking[t]]
  /\ permit' = [t \in Tabs |-> IF t \in mine THEN NoClaim ELSE permit[t]]
  /\ fresh' = [t \in Tabs |-> t \notin mine /\ fresh[t]]
  /\ clicks' = [t \in Tabs |-> IF t \in mine THEN {} ELSE clicks[t]]
  /\ pc' = [t \in Tabs |-> IF t \in fails THEN "done" ELSE IF t \in ends THEN "idle" ELSE pc[t]]
  /\ work' = [t \in Tabs |-> IF t \in ends THEN NoClaim ELSE work[t]]
  /\ result' = [t \in Tabs |-> IF t \in fails THEN "manual_review"
                               ELSE IF t \in ends THEN "none" ELSE result[t]]
  /\ UNCHANGED <<database, network, posted>>

(* A request is lost for good. *)
Lost == /\ \/ \E m \in asks : asks' = asks \ {m} /\ UNCHANGED reports
           \/ \E m \in reports : reports' = reports \ {m} /\ UNCHANGED asks
        /\ UNCHANGED <<database, content, background, posted>>

-----------------------------------------------------------------------------
Buyer == \E j \in Jobs : Enqueue(j) \/ Withdraw(j)

Pairing == \/ Revoke
           \/ \E d \in Devices : PairDeactivates(d) \/ PairActivates(d) \/ PairFails(d)

Deadline == \/ \E j \in Jobs : LeaseExpires(j) \/ RetryFallsDue(j)
            \/ \E t \in Tabs : PermitExpires(t)

Server == \/ \E m \in asks : Prepare(m)
          \/ \E m \in reports : Complete(m)

ContentStep(t) == \/ StagingFails(t) \/ AskPermit(t) \/ RecheckFails(t) \/ Click(t)
                  \/ Verify(t) \/ Report(t) \/ ReportFails(t)

BackgroundStep(t) == \E c \in Claims : AskFails(t, c) \/ TargetMissed(t, c) \/ Submit(t, c)

Worker(t) == Claim(t) \/ ContentStep(t) \/ BackgroundStep(t) \/ TabReloads(t)

Next == \/ Buyer \/ Pairing \/ Deadline \/ Server \/ Lost
        \/ \E t \in Tabs : Worker(t)
        \/ \E d \in Devices : BackgroundStops(d)

Spec == Init /\ [][Next]_vars

-----------------------------------------------------------------------------
(* Safety. *)

(* No job is ever submitted twice by the machine, whatever expires, is     *)
(* lost, repeated, reloaded or paired anew (prepare_spc_group_delivery_job:*)
(* "A one-shot permit").                                                   *)
AtMostOnce == \A j \in Jobs : posted[j] <= 1

(* A submitted job never waits to be sent again: it is in the hands of its *)
(* claim, of a person, or settled.                                         *)
NeverQueuedAgain == \A j \in Jobs :
  posted[j] > 0 => job[j].status \in {"claimed", "sent", "manual_review", "withdrawn"}

(* Once a person has been asked to check a job, the machine does not       *)
(* submit it behind their back.                                            *)
ReviewIsFinal == [][\A j \in Jobs : posted'[j] # posted[j]
                      => job[j].status \in {"claimed", "withdrawn"}]_vars

(* The tabs that could submit at this moment. *)
MaySubmit(t) == fresh[t] /\ \/ permit[t] \in clicks[t]
                            \/ pc[t] = "permitted" /\ work[t] = permit[t]

(* "Only one job can be in flight across the dispatcher's WhatsApp tabs",  *)
(* unless the enquiry of one has been cancelled in the meantime.           *)
OneInFlight == \A t, u \in Tabs :
  /\ MaySubmit(t) /\ MaySubmit(u) /\ t # u
  => \E v \in {t, u} : job[permit[v].job].status = "withdrawn"

(* "Only one job can be in flight across the dispatcher's WhatsApp tabs",  *)
(* as the extension's README puts it.                                      *)
OnlyOneInFlight == \A t, u \in Tabs : MaySubmit(t) /\ MaySubmit(u) => t = u

-----------------------------------------------------------------------------
(* What a buyer is promised: a job is open until it is confirmed, handed   *)
(* to a person or withdrawn, and submitted at most once, with permission.  *)
Phase == [j \in Jobs |->
  CASE job[j].status = "absent" -> "none"
    [] job[j].status \in {"queued", "failed", "claimed"} -> "open"
    [] job[j].status = "sent" -> "confirmed"
    [] job[j].status = "manual_review" -> "review"
    [] job[j].status = "withdrawn" -> "withdrawn"]

Contract == INSTANCE OneSubmission
              WITH phase <- Phase, granted <- {j \in Jobs : job[j].prepared}

(* Every step of the queue, the devices and the network is a step of the   *)
(* contract or leaves it alone; a job is recorded as sent only if it was.  *)
ImplementsOneSubmission == Contract!Spec

-----------------------------------------------------------------------------
(* Liveness. *)

(* Content and background scripts go on, clocks advance, and polling every *)
(* two seconds gets through to the database now and again.                 *)
Fairness ==
  /\ \A t \in Tabs : WF_vars(ContentStep(t)) /\ WF_vars(BackgroundStep(t))
                      /\ WF_vars(PermitExpires(t))
  /\ \A j \in Jobs : WF_vars(LeaseExpires(j)) /\ WF_vars(RetryFallsDue(j))
  /\ SF_vars(\E t \in Tabs : Claim(t))

FairSpec == Spec /\ Fairness

Closed(j) == job[j].status \in {"sent", "manual_review", "withdrawn"}

(* While a device stays active every job is sent, handed to a person or    *)
(* withdrawn, although tabs reload, background scripts stop and requests   *)
(* are lost.                                                               *)
EveryJobCloses ==
  \A d \in Devices : <>[](active = d) =>
    \A j \in Jobs : job[j].status # "absent" ~> Closed(j)
=============================================================================
