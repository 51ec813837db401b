-------------------------- MODULE SpcMobileDelivery --------------------------
(***************************************************************************)
(* Backup Mode: the copies of SPC enquiries that one supplier trader gets  *)
(* on WhatsApp for 24 hours after switching the mode on.  A template       *)
(* prompt asks the trader to press RECEIVE; the answer opens WhatsApp's    *)
(* 24-hour window, in which each enquiry is sent in two messages, its      *)
(* content and a label.  There is no worker: every web request that        *)
(* touches the mode, and a cron job each minute, works the queue off, so   *)
(* several requests do it at the same time with nothing between them but   *)
(* updates that compare a status.                                          *)
(*                                                                         *)
(* Time is abstracted to the events the code's deadlines produce; the      *)
(* delay of a retry may pass between any two steps, so next_attempt_at is  *)
(* not represented.  Traders do not share rows, so there is one.           *)
(***************************************************************************)
EXTENDS Naturals, FiniteSets

CONSTANTS
  Enquiries,       \* enquiries that are copied to the trader
  Tasks,           \* requests and cron runs under way
  NoEnquiry,       \* "no delivery at hand"
  MaxFaults,       \* bound: killed requests and failed database calls
  MaxAttempts      \* claims a delivery may have (20 in the code)

ASSUME MobileAssumption ==
  /\ NoEnquiry \notin Enquiries
  /\ MaxFaults \in Nat /\ MaxAttempts \in Nat

VARIABLES
  mode,     \* the trader's row of spc_mobile_modes
  del,      \* spc_mobile_enquiry_deliveries, by enquiry
  posted,   \* messages WhatsApp accepted, by enquiry and part
  offered,  \* the trader's phone shows a button with the token of now
  faults,   \* killed requests and failed calls so far
  \* The local state of each request.
  pc,       \* where it is
  goal,     \* what it was made for
  token,    \* the token of an answer or of a prompt
  batch,    \* the deliveries it selected
  cur,      \* the delivery at hand
  verdict   \* the status it will record

shared == <<mode, del, posted, offered, faults>>
locals == <<goal, token, batch, cur, verdict>>
vars   == <<shared, pc, locals>>

-----------------------------------------------------------------------------
(* Rows. *)

Activation == {"idle", "queued", "processing", "prompt_sent", "acknowledged",
               "failed", "manual_review"}
Status     == {"absent", "queued", "acknowledged", "processing", "content_sent",
               "failed", "manual_review", "expired", "gone"}
Parts      == {"content", "label"}

(* lapsed: expires_at is past.  open: conversation_open_until lies ahead.   *)
(* Nothing of these is read while the mode is off.                          *)
Mode     == [enabled : BOOLEAN, lapsed : BOOLEAN, act : Activation, open : BOOLEAN]
Delivery == [status : Status, attempts : Nat, ids : SUBSET Parts]

(* A token is compared with the row's only, so it is the one of now or old. *)
Token == {"none", "now", "old"}

Snapshot == [status : {"absent", "queued", "failed", "acknowledged"}, attempts : Nat]

Unread   == [status |-> "absent", attempts |-> 0]
NoBatch  == [e \in Enquiries |-> Unread]

Active  == mode.enabled /\ ~mode.lapsed
Serving == Active /\ mode.open

(* Statuses from which a delivery can still be sent without a person. *)
Open(e)  == del[e].status \in {"queued", "acknowledged", "failed"}

Sending  == {"content", "contentCp", "label", "labelCp", "complete", "stopped"}
Prompting == {"prompt", "promptCp", "promptStopped"}
PC == {"idle", "expire", "expireRows", "lookup", "insert", "find", "open", "openLegacy",
       "ackRows", "sweep", "selectMode", "claimMode", "select", "next",
       "requeue", "claim"} \cup Prompting \cup Sending

TypeOK ==
  /\ mode \in Mode
  /\ del \in [Enquiries -> Delivery]
  /\ posted \in [Enquiries -> [Parts -> Nat]]
  /\ offered \in BOOLEAN
  /\ faults \in 0..MaxFaults
  /\ pc \in [Tasks -> PC]
  /\ goal \in [Tasks -> {"none", "look", "process", "enqueue", "answer"}]
  /\ token \in [Tasks -> Token]
  /\ batch \in [Tasks -> [Enquiries -> Snapshot]]
  /\ cur \in [Tasks -> Enquiries \cup {NoEnquiry}]
  /\ verdict \in [Tasks -> {"none", "queued", "acknowledged", "failed", "manual_review"}]

Off == [enabled |-> FALSE, lapsed |-> FALSE, act |-> "idle", open |-> FALSE]

Init ==
  /\ mode = Off
  /\ del = [e \in Enquiries |->
              [status |-> "absent", attempts |-> 0, ids |-> {}]]
  /\ posted = [e \in Enquiries |-> [p \in Parts |-> 0]]
  /\ offered = FALSE
  /\ faults = 0
  /\ pc = [t \in Tasks |-> "idle"]
  /\ goal = [t \in Tasks |-> "none"]
  /\ token = [t \in Tasks |-> "none"]
  /\ batch = [t \in Tasks |-> NoBatch]
  /\ cur = [t \in Tasks |-> NoEnquiry]
  /\ verdict = [t \in Tasks |-> "none"]

-----------------------------------------------------------------------------
(* How a request moves on. *)

Goes(t, place) == pc' = [pc EXCEPT ![t] = place]

(* It becomes the next one, with this goal and nothing at hand. *)
Turns(t, place, g) ==
  /\ Goes(t, place)
  /\ goal' = [goal EXCEPT ![t] = g]
  /\ token' = [token EXCEPT ![t] = "none"]
  /\ batch' = [batch EXCEPT ![t] = NoBatch]
  /\ cur' = [cur EXCEPT ![t] = NoEnquiry]
  /\ verdict' = [verdict EXCEPT ![t] = "none"]

Returns(t) == Turns(t, "idle", "none")

(* It goes on to work the queue off. *)
Works(t) == Turns(t, "expire", "process")

(* A call fails, or succeeds and its answer is lost. *)
Fault   == faults < MaxFaults /\ faults' = faults + 1
NoFault == UNCHANGED faults

-----------------------------------------------------------------------------
(* The trader, the administrator and the clock. *)

(* The row gets another activation token, or none. *)
NewToken ==
  /\ offered' = FALSE
  /\ token' = [t \in Tasks |-> IF token[t] = "now" THEN "old" ELSE token[t]]

(* Nothing refuses to switch on a mode that is on: the button of a page    *)
(* that was loaded before still does.                                      *)
SwitchOn ==
  /\ mode' = [Off EXCEPT !.enabled = TRUE, !.act = "queued"]
  /\ NewToken
  /\ UNCHANGED <<del, posted, faults, pc, goal, batch, cur, verdict>>

(* An administrator switches it off: two updates. *)
SwitchOff(t) ==
  /\ pc[t] = "idle"
  /\ mode' = Off
  /\ NewToken
  /\ Goes(t, "expireRows") /\ goal' = [goal EXCEPT ![t] = "look"]
  /\ UNCHANGED <<del, posted, faults, batch, cur, verdict>>

ModeLapses ==
  /\ mode.enabled /\ ~mode.lapsed
  /\ mode' = [mode EXCEPT !.lapsed = TRUE]
  /\ UNCHANGED <<del, posted, offered, faults, pc, locals>>

(* The mode and the window both last 24 hours.  The window ends first if   *)
(* the mode was switched on once more between an answer and its update;    *)
(* here it may end at any time.                                            *)
WindowCloses ==
  /\ mode.open
  /\ mode' = [mode EXCEPT !.open = FALSE]
  /\ UNCHANGED <<del, posted, offered, faults, pc, locals>>

(* Cron calls each minute; a new enquiry, or one offered again, is copied; *)
(* the trader presses a RECEIVE button, old or new, or writes OK.          *)
CronRuns(t) ==
  /\ pc[t] = "idle"
  /\ Works(t)
  /\ UNCHANGED shared

Enquire(t, e) ==
  /\ pc[t] = "idle" /\ del[e].status # "gone"
  /\ Goes(t, "expire")
  /\ goal' = [goal EXCEPT ![t] = "enqueue"]
  /\ cur' = [cur EXCEPT ![t] = e]
  /\ UNCHANGED <<shared, token, batch, verdict>>

(* Cancelling an enquiry deletes it, and by the cascade its delivery.       *)
Cancel(e) ==
  /\ del[e].status # "gone"
  /\ del' = [del EXCEPT ![e].status = "gone"]
  /\ UNCHANGED <<mode, posted, offered, faults, pc, locals>>

Answer(t, k) ==
  /\ pc[t] = "idle" /\ (k = "now" => offered)
  /\ Goes(t, "expire")
  /\ goal' = [goal EXCEPT ![t] = "answer"]
  /\ token' = [token EXCEPT ![t] = k]
  /\ UNCHANGED <<shared, batch, cur, verdict>>

-----------------------------------------------------------------------------
(* Every request begins by expiring the mode, in two updates.              *)

Resumes(t) ==
  \/ goal[t] = "look" /\ Returns(t)
  \/ goal[t] = "process" /\ Goes(t, "sweep") /\ UNCHANGED locals
  \/ goal[t] = "enqueue" /\ Goes(t, "lookup") /\ UNCHANGED locals
  \/ goal[t] = "answer" /\ Goes(t, "find") /\ UNCHANGED locals

Expire(t) ==
  /\ pc[t] = "expire"
  /\ \/ /\ mode.enabled /\ mode.lapsed
        /\ mode' = Off /\ NewToken
        /\ Goes(t, "expireRows") /\ UNCHANGED <<goal, batch, cur, verdict>>
     \/ ~(mode.enabled /\ mode.lapsed) /\ Resumes(t) /\ UNCHANGED <<mode, offered>>
  /\ UNCHANGED <<del, posted, faults>>

ExpireRows(t) ==
  /\ pc[t] = "expireRows"
  /\ del' = [e \in Enquiries |->
               IF Open(e) THEN [del[e] EXCEPT !.status = "expired"] ELSE del[e]]
  /\ Resumes(t)
  /\ UNCHANGED <<mode, posted, offered, faults>>

-----------------------------------------------------------------------------
(* Copying an enquiry. *)

Lookup(t) ==
  /\ pc[t] = "lookup"
  /\ \/ /\ Active /\ Goes(t, "insert")
        /\ verdict' = [verdict EXCEPT ![t] = IF mode.open THEN "acknowledged" ELSE "queued"]
        /\ UNCHANGED <<goal, token, batch, cur>>
     \/ ~Active /\ Returns(t)
  /\ UNCHANGED shared

(* A row that is there already is left as it is; an enquiry that is not    *)
(* there any more fails the insertion.                                     *)
Insert(t) ==
  LET e == cur[t] IN
  /\ pc[t] = "insert"
  /\ del' = IF del[e].status = "absent"
              THEN [del EXCEPT ![e].status = verdict[t]] ELSE del
  /\ IF del[e].status = "gone" THEN Returns(t) ELSE Works(t)
  /\ UNCHANGED <<mode, posted, offered, faults>>

-----------------------------------------------------------------------------
(* The trader's answer. *)

Acknowledged == {e \in Enquiries : del[e].status = "acknowledged"}

(* A button must carry the token of now; a plain OK needs a prompt that is *)
(* out, or else the one delivery that waits to be sent.                    *)
Find(t) ==
  LET prompted == /\ Active
                  /\ \/ token[t] = "now"
                     \/ token[t] = "none" /\ mode.act \in {"prompt_sent", "failed"}
  IN
  /\ pc[t] = "find"
  /\ \/ prompted /\ Goes(t, "open") /\ UNCHANGED locals
     \/ /\ ~prompted /\ token[t] = "none" /\ Cardinality(Acknowledged) = 1
        /\ Goes(t, "openLegacy") /\ UNCHANGED locals
     \/ /\ ~prompted /\ (token[t] # "none" \/ Cardinality(Acknowledged) # 1)
        /\ Returns(t)
  /\ UNCHANGED shared

(* The update names the trader only, and nobody looks at its outcome. *)
OpenWindow(t) ==
  /\ pc[t] = "open"
  /\ \/ /\ mode' = [mode EXCEPT !.act = "acknowledged", !.open = TRUE]
        /\ NoFault
     \/ Fault /\ UNCHANGED mode
  /\ Goes(t, "ackRows")
  /\ UNCHANGED <<del, posted, offered, locals>>

AckRows(t) ==
  /\ pc[t] = "ackRows"
  /\ \/ /\ del' = [e \in Enquiries |-> IF del[e].status \in {"queued", "failed"}
                       THEN [del[e] EXCEPT !.status = "acknowledged"]
                       ELSE del[e]]
        /\ NoFault
     \/ Fault /\ UNCHANGED del
  /\ Works(t)
  /\ UNCHANGED <<mode, posted, offered>>

(* The path kept for prompts of single enquiries. *)
OpenWindowLegacy(t) ==
  /\ pc[t] = "openLegacy"
  /\ \/ /\ mode' = IF Active THEN [mode EXCEPT !.act = "acknowledged", !.open = TRUE]
                  ELSE mode
        /\ NoFault
     \/ Fault /\ UNCHANGED mode
  /\ Works(t)
  /\ UNCHANGED <<del, posted, offered>>

-----------------------------------------------------------------------------
(* Working the queue off.  First, claims older than five minutes go to a   *)
(* person; no request lives that long after a claim (60 seconds for cron,  *)
(* 300 for the others).                                                    *)

(* Mutant: a claim that has sent something is left to the one who sent it. *)
ClaimIsOldUnsent(e) == /\ del[e].status = "processing" /\ del[e].ids = {}
                       /\ \A t \in Tasks : pc[t] \in Sending => cur[t] # e

ClaimIsOld(e) == del[e].status = "processing"
                 /\ \A t \in Tasks : pc[t] \in Sending => cur[t] # e

PromptIsOld   == mode.act = "processing" /\ \A t \in Tasks : pc[t] \notin Prompting

(* Mutant: an old claim is tried again. *)
OldClaimAgain == "failed"

OldClaim == "manual_review"

(* Any of them may be that old by now.  The two updates are taken as one:  *)
(* nobody works on what they touch.                                        *)
Sweep(t) ==
  /\ pc[t] = "sweep"
  /\ \E old \in SUBSET {e \in Enquiries : ClaimIsOld(e)} :
       del' = [e \in Enquiries |->
                IF e \in old THEN [del[e] EXCEPT !.status = OldClaim] ELSE del[e]]
  /\ \/ PromptIsOld /\ mode' = [mode EXCEPT !.act = "manual_review"]
     \/ UNCHANGED mode
  /\ Goes(t, "selectMode")
  /\ UNCHANGED <<posted, offered, faults, locals>>

(* The prompt: selected, claimed if its status is still the one read, sent *)
(* and checkpointed.                                                       *)
SelectMode(t) ==
  /\ pc[t] = "selectMode"
  /\ \/ /\ Active /\ mode.act \in {"queued", "failed"}
        /\ Goes(t, "claimMode")
        /\ verdict' = [verdict EXCEPT ![t] = mode.act]
     \/ /\ ~(Active /\ mode.act \in {"queued", "failed"})
        /\ Goes(t, "select") /\ UNCHANGED verdict
  /\ UNCHANGED <<shared, goal, token, batch, cur>>

ClaimMode(t) ==
  /\ pc[t] = "claimMode"
  /\ verdict' = [verdict EXCEPT ![t] = "none"]
  /\ \/ /\ mode.act = verdict[t] /\ Active
        /\ mode' = [mode EXCEPT !.act = "processing"]
        /\ token' = [token EXCEPT ![t] = "now"]
        /\ Goes(t, "prompt")
     \/ /\ ~(mode.act = verdict[t] /\ Active)
        /\ Goes(t, "select") /\ UNCHANGED <<mode, token>>
  /\ UNCHANGED <<del, posted, offered, faults, goal, batch, cur>>

Stops(t, place, v) == Goes(t, place) /\ verdict' = [verdict EXCEPT ![t] = v]

(* WhatsApp accepts, refuses, or leaves the outcome uncertain. *)
SendPrompt(t) ==
  /\ pc[t] = "prompt"
  /\ \/ /\ offered' = (offered \/ token[t] = "now")
        /\ \/ Goes(t, "promptCp") /\ UNCHANGED verdict
           \/ Stops(t, "promptStopped", "manual_review")
     \/ /\ UNCHANGED offered
        /\ \E v \in {"failed", "manual_review"} : Stops(t, "promptStopped", v)
  /\ UNCHANGED <<mode, del, posted, faults, goal, token, batch, cur>>

PromptDone(t) == /\ Goes(t, "select")
                 /\ token' = [token EXCEPT ![t] = "none"]
                 /\ verdict' = [verdict EXCEPT ![t] = "none"]
                 /\ UNCHANGED <<goal, batch, cur>>

(* The checkpoint compares the status, not the activation. *)
CheckpointPrompt(t) ==
  /\ pc[t] = "promptCp"
  /\ \/ /\ mode.act = "processing" /\ NoFault
        /\ mode' = [mode EXCEPT !.act = "prompt_sent"]
        /\ PromptDone(t)
     \/ /\ mode.act # "processing" /\ NoFault /\ UNCHANGED mode
        /\ Stops(t, "promptStopped", "manual_review") /\ UNCHANGED <<goal, token, batch, cur>>
     \/ /\ Fault
        /\ mode' \in {mode, IF mode.act = "processing"
                              THEN [mode EXCEPT !.act = "prompt_sent"] ELSE mode}
        /\ Stops(t, "promptStopped", "manual_review") /\ UNCHANGED <<goal, token, batch, cur>>
  /\ UNCHANGED <<del, posted, offered>>

PromptStops(t) ==
  /\ pc[t] = "promptStopped"
  /\ \/ /\ mode' = IF mode.act = "processing"
                     THEN [mode EXCEPT !.act = verdict[t]] ELSE mode
        /\ NoFault
     \/ Fault /\ UNCHANGED mode
  /\ PromptDone(t)
  /\ UNCHANGED <<del, posted, offered>>

-----------------------------------------------------------------------------
(* Then the deliveries that are due. *)

(* Mutant: a claim that is held is selected too. *)
SelectableHeld(e) == (Open(e) \/ del[e].status = "processing") /\ del[e].attempts < MaxAttempts

Selectable(e) == Open(e) /\ del[e].attempts < MaxAttempts

Select(t) ==
  /\ pc[t] = "select"
  /\ batch' = [batch EXCEPT ![t] = [e \in Enquiries |->
                 IF Selectable(e)
                   THEN [status |-> del[e].status, attempts |-> del[e].attempts]
                   ELSE Unread]]
  /\ Goes(t, "next")
  /\ UNCHANGED <<shared, goal, token, cur, verdict>>

Waiting(t) == {e \in Enquiries : batch[t][e].status # "absent"}

(* The delivery is left for another time. *)
Skips(t, e) == /\ Goes(t, "next")
               /\ batch' = [batch EXCEPT ![t][e] = Unread]
               /\ cur' = [cur EXCEPT ![t] = NoEnquiry]
               /\ verdict' = [verdict EXCEPT ![t] = "none"]

Picks(t, e, place) == /\ Goes(t, place)
                      /\ cur' = [cur EXCEPT ![t] = e]
                      /\ UNCHANGED <<batch, verdict>>

(* The mode is read for each delivery of the batch. *)
ReadMode(t, e) ==
  /\ pc[t] = "next" /\ e \in Waiting(t)
  /\ \/ Serving /\ NoFault /\ Picks(t, e, "claim")
     \/ Active /\ ~mode.open /\ mode.act = "acknowledged" /\ NoFault /\ Picks(t, e, "requeue")
     \/ ~Serving /\ ~(Active /\ mode.act = "acknowledged") /\ NoFault /\ Skips(t, e)
     \/ Fault /\ Skips(t, e)
  /\ UNCHANGED <<mode, del, posted, offered, goal, token>>

BatchDone(t) ==
  /\ pc[t] = "next" /\ Waiting(t) = {}
  /\ Returns(t)
  /\ UNCHANGED shared

(* The window has closed under a mode that is on: a new prompt. *)
Requeue(t) ==
  /\ pc[t] = "requeue"
  /\ \/ mode' = [mode EXCEPT !.act = "queued"] /\ NewToken /\ NoFault
     \/ Fault /\ UNCHANGED <<mode, offered, token>>
  /\ Skips(t, cur[t])
  /\ UNCHANGED <<del, posted, goal>>

(* Mutant: a missing label is sent before missing content. *)
NextPartLabelFirst(ids) == IF "label" \notin ids THEN "label"
                           ELSE IF "content" \notin ids THEN "content" ELSE "complete"

(* The part of the enquiry that has no message id yet comes next. *)
NextPart(ids) == IF "content" \notin ids THEN "content"
                 ELSE IF "label" \notin ids THEN "label" ELSE "complete"

(* Mutant: whatever became of the delivery since it was selected. *)
StillAnyStatus(t) == TRUE

StillAsRead(t) == del[cur[t]].status = batch[t][cur[t]].status

Claimed(t) == [del EXCEPT ![cur[t]].status = "processing",
                          ![cur[t]].attempts = batch[t][cur[t]].attempts + 1]

(* Compare and set on the status read.  Reading the enquiry may fail.      *)
Claim(t) ==
  /\ pc[t] = "claim"
  /\ \/ /\ StillAsRead(t) /\ del' = Claimed(t)
        /\ \/ NoFault /\ Goes(t, NextPart(del[cur[t]].ids)) /\ UNCHANGED <<batch, cur, verdict>>
           \/ Fault /\ Stops(t, "stopped", "failed") /\ UNCHANGED <<batch, cur>>
           \/ Fault /\ Skips(t, cur[t])
     \/ ~StillAsRead(t) /\ UNCHANGED del /\ NoFault /\ Skips(t, cur[t])
     \/ Fault /\ UNCHANGED del /\ Skips(t, cur[t])
  /\ UNCHANGED <<mode, posted, offered, goal, token>>

-----------------------------------------------------------------------------
(* Sending one delivery: each part is sent and checkpointed. *)

(* Mutant: an uncertain outcome counts as a failure that may be retried. *)
UncertainRetried == "failed"

(* No answer of WhatsApp, none with a message id, or a lost checkpoint. *)
Uncertain == "manual_review"

Checkpoint(part) == IF part = "content" THEN "contentCp" ELSE "labelCp"

Sends(t, part) == posted' = [posted EXCEPT ![cur[t]][part] = @ + 1]

Send(t, part) ==
  /\ pc[t] = part
  /\ \/ /\ Sends(t, part)
        /\ \/ Goes(t, Checkpoint(part)) /\ UNCHANGED verdict
           \/ Stops(t, "stopped", Uncertain)
     \/ /\ UNCHANGED posted
        /\ \E v \in {"failed", Uncertain} : Stops(t, "stopped", v)
  /\ UNCHANGED <<mode, del, offered, faults, goal, token, batch, cur>>

Held(t) == del[cur[t]].status = "processing"

Recorded(t, part) == [del EXCEPT ![cur[t]].ids = @ \cup {part}]

RecordSent(t, part) ==
  /\ pc[t] = Checkpoint(part)
  /\ \/ /\ Held(t) /\ NoFault
        /\ del' = Recorded(t, part)
        /\ Goes(t, NextPart(del[cur[t]].ids \cup {part})) /\ UNCHANGED verdict
     \/ ~Held(t) /\ NoFault /\ UNCHANGED del /\ Stops(t, "stopped", Uncertain)
     \/ /\ Fault
        /\ UNCHANGED del \/ (Held(t) /\ del' = Recorded(t, part))
        /\ Stops(t, "stopped", Uncertain)
  /\ UNCHANGED <<mode, posted, offered, goal, token, batch, cur>>

Complete(t) ==
  LET e == cur[t]
      done == [del EXCEPT ![e].status = "content_sent"]
  IN
  /\ pc[t] = "complete"
  /\ \/ Held(t) /\ NoFault /\ del' = done /\ Skips(t, e)
     \/ ~Held(t) /\ NoFault /\ UNCHANGED <<del, batch, cur>> /\ Stops(t, "stopped", "failed")
     \/ /\ Fault
        /\ UNCHANGED del \/ (Held(t) /\ del' = done)
        /\ Stops(t, "stopped", "failed") /\ UNCHANGED <<batch, cur>>
  /\ UNCHANGED <<mode, posted, offered, goal, token>>

(* A failure is tried again later, an uncertain outcome is for a person.   *)
SendStops(t) ==
  LET e == cur[t] IN
  /\ pc[t] = "stopped"
  /\ \/ /\ NoFault
        /\ del' = IF Held(t) THEN [del EXCEPT ![e].status = verdict[t]] ELSE del
     \/ Fault /\ UNCHANGED del
  /\ Skips(t, e)
  /\ UNCHANGED <<mode, posted, offered, goal, token>>

(* The request is killed, or a call that nothing catches throws.  A        *)
(* message under way still arrives, or not.                                *)
Kill(t) ==
  /\ pc[t] # "idle" /\ Fault
  /\ Returns(t)
  /\ \/ pc[t] \in Parts /\ Sends(t, pc[t]) /\ UNCHANGED offered
     \/ /\ pc[t] = "prompt" /\ UNCHANGED posted
        /\ offered' = (offered \/ token[t] = "now")
     \/ UNCHANGED <<posted, offered>>
  /\ UNCHANGED <<mode, del>>

-----------------------------------------------------------------------------
(* The steps of a request that is under way. *)
Step(t) ==
  \/ Expire(t) \/ ExpireRows(t) \/ Lookup(t) \/ Insert(t)
  \/ Find(t) \/ OpenWindow(t) \/ AckRows(t) \/ OpenWindowLegacy(t)
  \/ Sweep(t) \/ SelectMode(t) \/ ClaimMode(t)
  \/ SendPrompt(t) \/ CheckpointPrompt(t) \/ PromptStops(t)
  \/ Select(t) \/ BatchDone(t) \/ Requeue(t) \/ Claim(t) \/ Complete(t) \/ SendStops(t)
  \/ \E e \in Enquiries : ReadMode(t, e)
  \/ \E part \in Parts : Send(t, part) \/ RecordSent(t, part)

Next ==
  \/ SwitchOn \/ ModeLapses \/ WindowCloses
  \/ \E e \in Enquiries : Cancel(e)
  \/ \E t \in Tasks : \/ SwitchOff(t) \/ CronRuns(t) \/ Step(t) \/ Kill(t)
                      \/ \E e \in Enquiries : Enquire(t, e)
                      \/ \E k \in Token : Answer(t, k)

Spec == Init /\ [][Next]_vars

-----------------------------------------------------------------------------
(* Safety. *)

(* "Atomic single-worker claim": although requests select the same rows    *)
(* and compare a status only, which returns to "failed" between two        *)
(* claims, no two of them ever send one delivery.                          *)
OneSender == \A s, t \in Tasks :
  pc[s] \in Sending /\ pc[t] \in Sending /\ cur[s] = cur[t] => s = t

(* The label is never sent ahead of the content it belongs to. *)
LabelFollowsContent == \A e \in Enquiries : posted[e]["content"] >= posted[e]["label"]

(* Each part is open until its message id is recorded, the delivery is     *)
(* handed to a person or the mode expires.                                 *)
Messages == Enquiries \X Parts

Phase == [m \in Messages |->
  LET d == del[m[1]] IN
  CASE d.status = "absent" -> "none"
    [] d.status = "gone" -> "withdrawn"
    [] d.status \notin {"absent", "gone"} /\ m[2] \in d.ids -> "confirmed"
    [] d.status \in {"queued", "acknowledged", "failed", "processing"} /\ m[2] \notin d.ids -> "open"
    [] d.status \in {"manual_review", "content_sent"} /\ m[2] \notin d.ids -> "review"
    [] d.status = "expired" /\ m[2] \notin d.ids -> "withdrawn"]

Contract == INSTANCE OneSubmission
  WITH Jobs    <- Messages,
       phase   <- Phase,
       granted <- {m \in Messages : del[m[1]].attempts > 0},
       posted  <- [m \in Messages |-> posted[m[1]][m[2]]]

(* Neither part of a delivery is ever sent twice, or once a person has     *)
(* been asked to look at it ("stale claims ... are never retried           *)
(* automatically"), and a message id is recorded only if it was sent.      *)
ImplementsOneSubmission == Contract!Spec

-----------------------------------------------------------------------------
(* Liveness. *)

(* The sweep of t takes up the claim of e. *)
Sweeps(t, e) == Sweep(t) /\ ClaimIsOld(e) /\ del'[e].status # "processing"

(* A request that lives takes its next step; cron, which calls every       *)
(* minute, finds room now and again; and a claim that nobody works on any  *)
(* more is five minutes old at the latest when sweep after sweep has met   *)
(* it.                                                                     *)
Fairness ==
  /\ \A t \in Tasks : WF_vars(Step(t))
  /\ SF_vars(\E t \in Tasks : CronRuns(t))
  /\ \A e \in Enquiries : SF_vars(\E t \in Tasks : Sweeps(t, e))

FairSpec == Spec /\ Fairness

(* Sent, handed to a person, deleted, or expired with the mode it was      *)
(* copied for.                                                             *)
Settled(e) == del[e].status \in {"content_sent", "manual_review", "gone", "expired"}

(* While the window stays open no copy is forgotten, whoever is killed on  *)
(* the way: each one comes to be settled, and so does a claim that nobody  *)
(* works on; or it has used up its claims.                                 *)
ServedOrSpent == <>[]Serving =>
  \A e \in Enquiries : <>[](\/ del[e].status = "absent" \/ Settled(e)
                            \/ Open(e) /\ del[e].attempts = MaxAttempts)
===============================================================================
