----------------------------- MODULE OneSubmission -----------------------------
(***************************************************************************)
(* What the delivery of enquiries promises, without queue, leases, tabs or *)
(* network: a job is submitted at most once and only with permission, it   *)
(* is confirmed only if it was submitted, and once it is confirmed or      *)
(* handed to a person the machine leaves it alone.                         *)
(***************************************************************************)
EXTENDS Naturals

CONSTANT Jobs

Phases == {"none", "open", "confirmed", "review", "withdrawn"}

VARIABLES
  phase,    \* where each job stands
  granted,  \* jobs whose submission has been permitted
  posted    \* submissions of each job

vars == <<phase, granted, posted>>

Init == /\ phase = [j \in Jobs |-> "none"]
        /\ granted = {}
        /\ posted = [j \in Jobs |-> 0]

(* What belongs together is asked for, permitted and withdrawn together.   *)
Moves(from, to) ==
  /\ phase' \in [Jobs -> Phases]
  /\ \A j \in Jobs : phase'[j] = phase[j] \/ (phase[j] \in from /\ phase'[j] = to)
  /\ UNCHANGED <<granted, posted>>

Ask      == Moves({"none"}, "open")
Review   == Moves({"open"}, "review")
Withdraw == Moves({"none", "open", "confirmed", "review"}, "withdrawn")

Grant == /\ granted \subseteq granted' /\ granted' \subseteq Jobs
         /\ \A j \in granted' \ granted : phase[j] = "open"
         /\ UNCHANGED <<phase, posted>>

(* A job withdrawn after the permission may still be submitted. *)
Post(j) == /\ j \in granted /\ posted[j] = 0
           /\ phase[j] \in {"open", "withdrawn"}
           /\ posted' = [posted EXCEPT ![j] = 1]
           /\ UNCHANGED <<phase, granted>>

Confirm(j) == /\ phase[j] = "open" /\ posted[j] = 1
              /\ phase' = [phase EXCEPT ![j] = "confirmed"]
              /\ UNCHANGED <<granted, posted>>

Next == \/ Ask \/ Grant \/ Review \/ Withdraw
        \/ \E j \in Jobs : Post(j) \/ Confirm(j)

Spec == Init /\ [][Next]_vars
===============================================================================
