---------------------------- MODULE HealthAlerts ----------------------------
(***************************************************************************)
(* The notices of System Health to one recipient.  A run, of cron or of an *)
(* administrator, reads every check, reports all it read in one database   *)
(* call, which opens and resolves incidents and leases to the run those it *)
(* should write about, sends one mail, and acknowledges it.  Runs overlap. *)
(*                                                                         *)
(* A reading carries the time at which its run began to check; times are   *)
(* only compared, so each run keeps which others began before it and       *)
(* whether it has been overtaken.  Every function call of the database is  *)
(* one step: it holds an advisory lock.                                    *)
(***************************************************************************)
EXTENDS Naturals, FiniteSets

CONSTANTS
  Checks,      \* the checks of System Health
  Runs,        \* runs under way
  Nobody,      \* no claim
  Gone,        \* the token of a run that is over
  Unread,      \* no reading yet
  Unsure,      \* a reading that is pending or muted
  MaxFaults    \* bound: killed runs, lost answers and failed calls

ASSUME AlertsAssumption ==
  /\ Nobody \notin Runs /\ Gone \notin Runs /\ Nobody # Gone
  /\ Unread \notin 0..2 /\ Unsure \notin 0..2 /\ Unread # Unsure
  /\ MaxFaults \in Nat

VARIABLES
  health,   \* what is wrong with each check: 0 nothing, 1 a warning, 2 an error
  row,      \* system_health_alert_incidents of the recipient
  pc,       \* where each run is
  reading,  \* what it read of each check
  before,   \* runs that began before it and have not reported yet
  late,     \* a run that began after it has reported
  faults,   \* faults so far
  \* History.
  newest,   \* of each check, the latest reading that was reported and sure
  about,    \* what each run writes about, unless it was resolved since
  mails     \* mails that arrived about each open incident, by level

vars == <<health, row, pc, reading, before, late, faults, newest, about, mails>>

-----------------------------------------------------------------------------
Levels == 1..2

(* claimed_by, claimed_level; expired: claim_expires_at is past. *)
Row == [open : BOOLEAN, notified : 0..2, by : Runs \cup {Nobody, Gone}, level : 0..2,
        expired : BOOLEAN]

NoRow == [open |-> FALSE, notified |-> 0, by |-> Nobody, level |-> 0, expired |-> FALSE]

NoMail == [l \in Levels |-> 0]

TypeOK ==
  /\ health \in [Checks -> 0..2]
  /\ row \in [Checks -> Row]
  /\ pc \in [Runs -> {"idle", "read", "send", "delivered", "failed"}]
  /\ reading \in [Runs -> [Checks -> 0..2 \cup {Unread, Unsure}]]
  /\ before \in [Runs -> SUBSET Runs]
  /\ late \in SUBSET Runs
  /\ faults \in 0..MaxFaults
  /\ newest \in [Checks -> 0..2]
  /\ about \in [Runs -> SUBSET Checks]
  /\ mails \in [Checks -> [Levels -> Nat]]

Nothing == [c \in Checks |-> Unread]

Init ==
  /\ health = [c \in Checks |-> 0]
  /\ row = [c \in Checks |-> NoRow]
  /\ pc = [s \in Runs |-> "idle"]
  /\ reading = [s \in Runs |-> Nothing]
  /\ before = [s \in Runs |-> {}]
  /\ late = {}
  /\ faults = 0
  /\ newest = [c \in Checks |-> 0]
  /\ about = [s \in Runs |-> {}]
  /\ mails = [c \in Checks |-> NoMail]

Fault   == faults < MaxFaults /\ faults' = faults + 1
NoFault == UNCHANGED faults

-----------------------------------------------------------------------------
(* Reading the checks. *)

Turns(c, l) ==
  /\ health[c] # l /\ health' = [health EXCEPT ![c] = l]
  /\ UNCHANGED <<row, pc, reading, before, late, faults, newest, about, mails>>

(* The time of the readings is taken before the checks are made. *)
Begin(s) ==
  /\ pc[s] = "idle"
  /\ pc' = [pc EXCEPT ![s] = "read"]
  /\ before' = [before EXCEPT ![s] = {u \in Runs : pc[u] = "read"}]
  /\ UNCHANGED <<health, row, reading, late, faults, newest, about, mails>>

(* A check may be pending or muted, and one that fails or times out counts *)
(* as an error.                                                            *)
Read(s, c) ==
  /\ pc[s] = "read" /\ reading[s][c] = Unread
  /\ \E v \in {health[c], Unsure, 2} : reading' = [reading EXCEPT ![s][c] = v]
  /\ UNCHANGED <<health, row, pc, before, late, faults, newest, about, mails>>

-----------------------------------------------------------------------------
(* claim_system_health_alerts *)

(* Mutant: a lease that is held does not keep others away. *)
IsFreeAlways(r) == TRUE

IsFree(r) == r.by = Nobody \/ r.expired

(* Mutant: a resolved incident keeps the claim of who writes about it. *)
ResolvedClaimed(r) == [r EXCEPT !.open = FALSE, !.notified = 0]

Resolved(r) == NoRow

(* Mutant: a level that was notified is due again. *)
DueAgain(r, v) == v >= r.notified /\ IsFree(r)

Due(r, v) == v > r.notified /\ IsFree(r)

(* What a fresh reading makes of an incident. *)
Reported(s, r, v) ==
  IF v = Unsure THEN r
  ELSE IF v = 0 THEN Resolved(r)
  ELSE IF Due(r, v) THEN [r EXCEPT !.open = TRUE, !.by = s, !.level = v, !.expired = FALSE]
  ELSE [r EXCEPT !.open = TRUE]

(* Mutant: readings count in the order in which they arrive. *)
FreshAlways(s) == TRUE

Fresh(s) == s \notin late

Claimed(s) == {c \in Checks : /\ Fresh(s) /\ reading[s][c] \in Levels
                              /\ Due(row[c], reading[s][c])}

(* A run that is over leaves its claims behind. *)
Left(s, rows) == [c \in Checks |->
  IF rows[c].by = s THEN [rows[c] EXCEPT !.by = Gone] ELSE rows[c]]

(* The run's readings are in: those that began before it are late.         *)
IsReported(s) ==
  /\ late' = (IF s \in late THEN late ELSE late \cup before[s]) \ {s}
  /\ before' = [u \in Runs |-> IF u = s THEN {} ELSE before[u] \ {s}]
  /\ reading' = [reading EXCEPT ![s] = Nothing]

Claim(s) ==
  LET solved == {c \in Checks : s \notin late /\ reading[s][c] = 0}
      mine == Claimed(s)
      after == [c \in Checks |-> IF Fresh(s) THEN Reported(s, row[c], reading[s][c]) ELSE row[c]]
  IN
  /\ pc[s] = "read" /\ \A c \in Checks : reading[s][c] # Unread
  /\ newest' = [c \in Checks |-> IF s \in late \/ reading[s][c] = Unsure
                                 THEN newest[c] ELSE reading[s][c]]
  /\ mails' = [c \in Checks |-> IF c \in solved THEN NoMail ELSE mails[c]]
  /\ IsReported(s)
  /\ \/ /\ NoFault /\ row' = after
        /\ pc' = [pc EXCEPT ![s] = IF mine = {} THEN "idle" ELSE "send"]
        /\ about' = [u \in Runs |-> IF u = s THEN mine ELSE about[u] \ solved]
     \/ /\ Fault /\ row' = Left(s, after)  \* the answer is lost
        /\ pc' = [pc EXCEPT ![s] = "idle"]
        /\ about' = [u \in Runs |-> about[u] \ solved]
  /\ UNCHANGED health

(* Ten minutes; a run lives for four at most. *)
LeaseExpires(c) ==
  /\ row[c].by = Gone /\ ~row[c].expired
  /\ row' = [row EXCEPT ![c].expired = TRUE]
  /\ UNCHANGED <<health, pc, reading, before, late, faults, newest, about, mails>>

-----------------------------------------------------------------------------
(* The mail and finish_system_health_alerts. *)

(* One mail about all its claims.  It counts for the incident it is about. *)
Arrives(s) ==
  mails' = [c \in Checks |-> IF c \in about[s]
              THEN [mails[c] EXCEPT ![row[c].level] = @ + 1] ELSE mails[c]]

Accepted(s) ==
  /\ pc[s] = "send" /\ Arrives(s) /\ NoFault
  /\ pc' = [pc EXCEPT ![s] = "delivered"]
  /\ UNCHANGED <<health, row, reading, before, late, newest, about>>

(* Refused, or accepted and the answer lost. *)
Refused(s) ==
  /\ pc[s] = "send"
  /\ (UNCHANGED mails /\ NoFault) \/ (Arrives(s) /\ Fault)
  /\ pc' = [pc EXCEPT ![s] = "failed"]
  /\ UNCHANGED <<health, row, reading, before, late, newest, about>>

(* Mutant: an escalation adds to what was notified. *)
LevelAdded(r, delivered) == IF delivered THEN r.notified + r.level ELSE r.notified

(* Mutant: a failed mail counts as a notice. *)
LevelOnceTried(r, delivered) == IF r.level > r.notified THEN r.level ELSE r.notified

LevelAfter(r, delivered) ==
  IF delivered /\ r.level > r.notified THEN r.level ELSE r.notified

Finished(r, delivered) ==
  [open |-> r.open, notified |-> LevelAfter(r, delivered), by |-> Nobody, level |-> 0,
   expired |-> FALSE]

Ends(s) ==
  /\ pc' = [pc EXCEPT ![s] = "idle"]
  /\ about' = [about EXCEPT ![s] = {}]

(* The lease of a mail that cannot be acknowledged is left to expire.      *)
Finish(s) ==
  /\ pc[s] \in {"delivered", "failed"}
  /\ \/ /\ NoFault
        /\ row' = [c \in Checks |-> IF row[c].by = s
                     THEN Finished(row[c], pc[s] = "delivered") ELSE row[c]]
     \/ Fault /\ row' = Left(s, row)
  /\ Ends(s)
  /\ UNCHANGED <<health, reading, before, late, newest, mails>>

(* A run is killed, or a call of it fails. *)
Kill(s) ==
  /\ pc[s] # "idle" /\ Fault
  /\ UNCHANGED mails \/ (pc[s] = "send" /\ Arrives(s))
  /\ Ends(s) /\ row' = Left(s, row)
  /\ late' = late \ {s}
  /\ before' = [u \in Runs |-> IF u = s THEN {} ELSE before[u] \ {s}]
  /\ reading' = [reading EXCEPT ![s] = Nothing]
  /\ UNCHANGED <<health, newest>>

-----------------------------------------------------------------------------
Step(s) == \/ Claim(s) \/ Accepted(s) \/ Refused(s) \/ Finish(s)
           \/ \E c \in Checks : Read(s, c)

Next == \/ \E c \in Checks : LeaseExpires(c) \/ \E l \in 0..2 : Turns(c, l)
        \/ \E s \in Runs : Begin(s) \/ Step(s) \/ Kill(s)

Spec == Init /\ [][Next]_vars

(* Runs come again and again and go on; mail is not refused for ever.      *)
Fairness ==
  /\ \A c \in Checks : WF_vars(LeaseExpires(c))
  /\ \A s \in Runs : WF_vars(Begin(s)) /\ WF_vars(Step(s)) /\ SF_vars(Accepted(s))

FairSpec == Spec /\ Fairness

-----------------------------------------------------------------------------
(* "The database lease prevents concurrent cron/manual checks from sending *)
(* the same incident together": two runs that write about one check at     *)
(* once write about different incidents of it.                             *)
OneSender == \A s, u \in Runs : s # u => about[s] \cap about[u] = {}

(* The row says that a level has been notified only if a mail about this   *)
(* incident, at this level, has arrived: what a run did about an earlier   *)
(* incident, or did not achieve, does not count.                           *)
NotifiedTruly == \A c \in Checks :
  row[c].notified # 0 => mails[c][row[c].notified] > 0

(* "We will not email the same warning again unless it escalates, or is    *)
(* resolved and later returns": a second mail about a level takes a fault. *)
NoRepeat == \A c \in Checks : \A l \in Levels : mails[c][l] <= 1 + faults

(* An incident is open according to the reading that was begun last of all *)
(* that have been reported, in whatever order they came; a reading that is *)
(* pending or muted neither opens nor closes it.                           *)
OpenAsReadLast == \A c \in Checks : row[c].open <=> newest[c] > 0

(* If from some time on every reading of a check shows one level, a mail   *)
(* about that level or a worse one arrives, whatever was lost before; if   *)
(* every reading is good, the incident is closed.                          *)
Shows(c, v) == health[c] = v /\ \A s \in Runs : reading[s][c] \in {v, Unread}

ComesToBeKnown == \A c \in Checks :
  /\ <>[]Shows(c, 0) => <>[]~row[c].open
  /\ \A l \in Levels : <>[]Shows(c, l) => <>[](row[c].open /\ \E k \in l..2 : mails[c][k] > 0)
===============================================================================
