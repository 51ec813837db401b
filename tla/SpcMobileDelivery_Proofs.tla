------------------------ MODULE SpcMobileDelivery_Proofs ------------------------
(***************************************************************************)
(* Proofs about SpcMobileDelivery for any number of enquiries, requests,   *)
(* faults and claims: its types, that no two requests send one delivery,   *)
(* that a label follows its content, that the parts of the deliveries      *)
(* implement OneSubmission, that a delivery recorded as complete is, that  *)
(* nothing is sent but under a claim, and what can leave after the mode    *)
(* has ended.                                                              *)
(***************************************************************************)
EXTENDS SpcMobileDelivery, TLAPS

-----------------------------------------------------------------------------
(* The strengthening. *)

Stopping == {"failed", "manual_review"}

(* What a request has at hand where it needs it. *)
AtHandOf(t) ==
  /\ \/ pc[t] \in Sending \cup {"claim", "requeue", "lookup", "insert"}
     \/ pc[t] \in {"expire", "expireRows"} /\ goal[t] = "enqueue"
     => cur[t] \in Enquiries
  /\ pc[t] = "claim" => batch[t][cur[t]].status # "absent"
  /\ pc[t] = "insert" => verdict[t] \in {"queued", "acknowledged"}
  /\ pc[t] \in {"stopped", "promptStopped"} => verdict[t] \in Stopping

AtHand == \A t \in Tasks : AtHandOf(t)

Sender(t, e) == pc[t] \in Sending /\ cur[t] = e

(* A sender holds the row, unless the enquiry is cancelled or it has       *)
(* completed it without knowing, and what it is about to send has not been *)
(* sent.                                                                   *)
SenderOK(t, e) ==
  /\ \/ del[e].status \in {"processing", "gone"}
     \/ del[e].status = "content_sent" /\ pc[t] = "stopped"
  /\ del[e].attempts > 0
  /\ \A p \in Parts : pc[t] = p => posted[e][p] = 0
  /\ \A p \in Parts : pc[t] = Checkpoint(p) => posted[e][p] = 1 /\ p \notin del[e].ids
  /\ pc[t] \in {"label", "labelCp"} => "content" \in del[e].ids

(* p has been sent without its id being recorded; nobody sends it again.   *)
Loose(e, p) ==
  \/ del[e].status \in {"manual_review", "gone"}
  \/ /\ del[e].status = "processing"
     /\ \A t \in Tasks : Sender(t, e) =>
          pc[t] = Checkpoint(p) \/ (pc[t] = "stopped" /\ verdict[t] = "manual_review")

RowOK(e) ==
  /\ \A p \in Parts : /\ posted[e][p] \in {0, 1}
                      /\ p \in del[e].ids => posted[e][p] = 1
                      /\ posted[e][p] = 1 => p \in del[e].ids \/ Loose(e, p)
  /\ del[e].attempts = 0 => del[e].ids = {}
  /\ del[e].status = "absent" => del[e].attempts = 0
  /\ posted[e]["label"] = 1 => "content" \in del[e].ids

SafeAt(e) ==
  /\ \A s, t \in Tasks : Sender(s, e) /\ Sender(t, e) => s = t
  /\ \A t \in Tasks : Sender(t, e) => SenderOK(t, e)
  /\ RowOK(e)

IInv == TypeOK /\ AtHand /\ \A e \in Enquiries : SafeAt(e)
-----------------------------------------------------------------------------
(* Types. *)

LocalsOK == /\ pc \in [Tasks -> PC]
            /\ goal \in [Tasks -> {"none", "look", "process", "enqueue", "answer"}]
            /\ token \in [Tasks -> Token]
            /\ batch \in [Tasks -> [Enquiries -> Snapshot]]
            /\ cur \in [Tasks -> Enquiries \cup {NoEnquiry}]
            /\ verdict \in [Tasks -> {"none", "queued", "acknowledged", "failed", "manual_review"}]

SharedOK == /\ mode \in Mode /\ del \in [Enquiries -> Delivery]
            /\ posted \in [Enquiries -> [Parts -> Nat]]
            /\ offered \in BOOLEAN /\ faults \in 0..MaxFaults

LEMMA TypeSplit == /\ TypeOK <=> SharedOK /\ LocalsOK
                   /\ TypeOK' <=> SharedOK' /\ LocalsOK'
  BY DEF TypeOK, SharedOK, LocalsOK

LEMMA PCIs ==
  /\ {"idle", "expire", "expireRows", "lookup", "insert", "find", "open", "openLegacy",
      "ackRows", "sweep", "selectMode", "claimMode", "select", "next", "requeue", "claim",
      "prompt", "promptCp", "promptStopped", "content", "contentCp", "label", "labelCp",
      "complete", "stopped"} \subseteq PC
  /\ {"idle", "expire", "expireRows", "lookup", "insert", "find", "open", "openLegacy",
      "ackRows", "sweep", "selectMode", "claimMode", "select", "next", "requeue", "claim",
      "prompt", "promptCp", "promptStopped"} \cap Sending = {}
  BY DEF PC, Sending, Prompting

LEMMA UnreadType == Unread \in Snapshot /\ NoBatch \in [Enquiries -> Snapshot]
  BY DEF Unread, NoBatch, Snapshot

LEMMA TurnsType ==
  ASSUME LocalsOK, NEW t \in Tasks, NEW place \in PC,
         NEW g \in {"none", "process"}, Turns(t, place, g)
  PROVE  LocalsOK'
<1>1. pc' \in [Tasks -> PC]
  BY DEF LocalsOK, Turns, Goes
<1>2. goal' \in [Tasks -> {"none", "look", "process", "enqueue", "answer"}]
  BY DEF LocalsOK, Turns
<1>3. token' \in [Tasks -> Token]
  BY DEF LocalsOK, Turns, Token
<1>4. batch' \in [Tasks -> [Enquiries -> Snapshot]]
  BY UnreadType DEF LocalsOK, Turns
<1>5. /\ cur' \in [Tasks -> Enquiries \cup {NoEnquiry}]
      /\ verdict' \in [Tasks -> {"none", "queued", "acknowledged", "failed", "manual_review"}]
  BY DEF LocalsOK, Turns
<1>6. QED
  BY <1>1, <1>2, <1>3, <1>4, <1>5 DEF LocalsOK

LEMMA ReturnsType == ASSUME LocalsOK, NEW t \in Tasks, Returns(t) \/ Works(t) PROVE LocalsOK'
  BY TurnsType, PCIs DEF Returns, Works

LEMMA ResumesType == ASSUME LocalsOK, NEW t \in Tasks, Resumes(t) PROVE LocalsOK'
<1>1. CASE Returns(t)
  BY <1>1, ReturnsType
<1>2. CASE UNCHANGED locals /\ \E place \in {"sweep", "lookup", "find"} : Goes(t, place)
  BY <1>2, PCIs DEF LocalsOK, locals, Goes
<1>3. QED
  BY <1>1, <1>2 DEF Resumes

LEMMA SkipsType ==
  ASSUME LocalsOK, NEW t \in Tasks, NEW e \in Enquiries, Skips(t, e), UNCHANGED goal,
         token' \in [Tasks -> Token]
  PROVE  LocalsOK'
<1>1. batch' \in [Tasks -> [Enquiries -> Snapshot]]
  BY UnreadType DEF LocalsOK, Skips
<1>2. QED
  BY <1>1, PCIs DEF LocalsOK, Skips, Goes

LEMMA NewTokenType == ASSUME LocalsOK, NewToken PROVE offered' \in BOOLEAN /\ token' \in [Tasks -> Token]
  BY DEF LocalsOK, NewToken, Token

LEMMA ModeType ==
  ASSUME NEW m \in Mode, NEW a \in Activation, NEW b \in BOOLEAN
  PROVE  /\ [m EXCEPT !.act = a] \in Mode /\ [m EXCEPT !.lapsed = b] \in Mode
         /\ [m EXCEPT !.open = b] \in Mode /\ [m EXCEPT !.act = a, !.open = b] \in Mode
  BY DEF Mode

LEMMA OffType == Off \in Mode /\ [Off EXCEPT !.enabled = TRUE, !.act = "queued"] \in Mode
  BY DEF Off, Mode, Activation

LEMMA StatusType ==
  ASSUME NEW d \in Delivery, NEW s \in Status
  PROVE  /\ [d EXCEPT !.status = s] \in Delivery
         /\ [d EXCEPT !.status = s].status = s
         /\ [d EXCEPT !.status = s].attempts = d.attempts
         /\ [d EXCEPT !.status = s].ids = d.ids
  BY DEF Delivery

LEMMA FaultType == ASSUME SharedOK, Fault \/ NoFault PROVE faults' \in 0..MaxFaults
  BY MobileAssumption DEF SharedOK, Fault, NoFault
(* The steps, part by part of a request's life. *)

Outside == \/ SwitchOn \/ ModeLapses \/ WindowCloses
           \/ \E e \in Enquiries : Cancel(e)
           \/ \E t \in Tasks : \/ SwitchOff(t) \/ CronRuns(t)
                               \/ \E e \in Enquiries : Enquire(t, e)
                               \/ \E k \in Token : Answer(t, k)

LEMMA OutsideType == ASSUME TypeOK, Outside PROVE TypeOK'
<1>1. SharedOK /\ LocalsOK /\ mode \in Mode /\ Off \in Mode
  BY TypeSplit, OffType DEF SharedOK
<1>2. CASE SwitchOn
  BY <1>1, <1>2, OffType, NewTokenType, TypeSplit DEF SwitchOn, SharedOK, LocalsOK
<1>3. CASE ModeLapses
  BY <1>1, <1>3, TypeSplit DEF ModeLapses, SharedOK, LocalsOK, locals, Mode
<1>4. CASE WindowCloses
  BY <1>1, <1>4, TypeSplit DEF WindowCloses, SharedOK, LocalsOK, locals, Mode
<1>5. ASSUME NEW e \in Enquiries, Cancel(e) PROVE TypeOK'
  <2>1. del' = [del EXCEPT ![e] = [del[e] EXCEPT !.status = "gone"]]
    BY <1>5 DEF Cancel
  <2>2. [del[e] EXCEPT !.status = "gone"] \in Delivery
    BY <1>1, StatusType DEF SharedOK, Status
  <2>3. del' \in [Enquiries -> Delivery]
    BY <1>1, <2>1, <2>2 DEF SharedOK
  <2>4. QED
    BY <1>1, <1>5, <2>3, TypeSplit DEF Cancel, SharedOK, LocalsOK, locals
<1>6. ASSUME NEW t \in Tasks, SwitchOff(t) PROVE TypeOK'
  BY <1>1, <1>6, NewTokenType, PCIs, TypeSplit DEF SwitchOff, Goes, SharedOK, LocalsOK
<1>7. ASSUME NEW t \in Tasks, CronRuns(t) PROVE TypeOK'
  BY <1>1, <1>7, ReturnsType, TypeSplit DEF CronRuns, SharedOK, shared
<1>8. ASSUME NEW t \in Tasks, NEW e \in Enquiries, Enquire(t, e) PROVE TypeOK'
  BY <1>1, <1>8, PCIs, TypeSplit DEF Enquire, Goes, SharedOK, LocalsOK, shared
<1>9. ASSUME NEW t \in Tasks, NEW k \in Token, Answer(t, k) PROVE TypeOK'
  BY <1>1, <1>9, PCIs, TypeSplit DEF Answer, Goes, SharedOK, LocalsOK, shared
<1>10. QED
  BY <1>2, <1>3, <1>4, <1>5, <1>6, <1>7, <1>8, <1>9 DEF Outside

Front(t) == \/ Expire(t) \/ ExpireRows(t) \/ Lookup(t) \/ Insert(t)
            \/ Find(t) \/ OpenWindow(t) \/ AckRows(t) \/ OpenWindowLegacy(t)

LEMMA FrontType == ASSUME TypeOK, AtHand, NEW t \in Tasks, Front(t) PROVE TypeOK'
<1>1. SharedOK /\ LocalsOK /\ mode \in Mode /\ Off \in Mode
  BY TypeSplit, OffType DEF SharedOK
<1>2. ASSUME NEW e \in Enquiries, NEW s \in Status
      PROVE  [del[e] EXCEPT !.status = s] \in Delivery /\ del[e] \in Delivery
  BY <1>1, StatusType DEF SharedOK
<1>3. CASE Expire(t)
  <2>1. CASE Resumes(t) /\ UNCHANGED <<mode, offered>>
    BY <1>1, <1>3, <2>1, ResumesType, TypeSplit DEF Expire, SharedOK
  <2>2. CASE mode' = Off /\ NewToken /\ Goes(t, "expireRows") /\ UNCHANGED <<goal, batch, cur, verdict>>
    BY <1>1, <1>3, <2>2, NewTokenType, PCIs, TypeSplit DEF Expire, SharedOK, LocalsOK, Goes
  <2>3. QED
    BY <1>3, <2>1, <2>2 DEF Expire
<1>4. CASE ExpireRows(t)
  <2>1. del' \in [Enquiries -> Delivery]
    BY <1>2, <1>4 DEF ExpireRows, Status
  <2>2. QED
    BY <1>1, <1>4, <2>1, ResumesType, TypeSplit DEF ExpireRows, SharedOK
<1>5. CASE Lookup(t)
  <2>1. LocalsOK'
    <3>1. CASE Returns(t)
      BY <1>1, <3>1, ReturnsType
    <3>2. CASE Goes(t, "insert") /\ UNCHANGED <<goal, token, batch, cur>>
               /\ verdict' = [verdict EXCEPT ![t] = IF mode.open THEN "acknowledged" ELSE "queued"]
      BY <1>1, <3>2, PCIs DEF LocalsOK, Goes
    <3>3. QED
      BY <1>5, <3>1, <3>2 DEF Lookup
  <2>2. QED
    BY <1>1, <1>5, <2>1, TypeSplit DEF Lookup, SharedOK, shared
<1>6. CASE Insert(t)
  <2>1. cur[t] \in Enquiries /\ verdict[t] \in Status
    BY <1>6 DEF Insert, AtHand, AtHandOf, Status
  <2>2. del' = [del EXCEPT ![cur[t]] = [del[cur[t]] EXCEPT !.status = verdict[t]]] \/ del' = del
    BY <1>6 DEF Insert
  <2>3. del' \in [Enquiries -> Delivery]
    BY <1>1, <1>2, <2>1, <2>2 DEF SharedOK
  <2>4. LocalsOK'
    BY <1>1, <1>6, ReturnsType DEF Insert
  <2>5. QED
    BY <1>1, <1>6, <2>3, <2>4, TypeSplit DEF Insert, SharedOK
<1>7. CASE Find(t)
  <2>1. LocalsOK'
    <3>1. CASE Returns(t)
      BY <1>1, <3>1, ReturnsType
    <3>2. CASE UNCHANGED locals /\ \E place \in {"open", "openLegacy"} : Goes(t, place)
      BY <1>1, <3>2, PCIs DEF LocalsOK, locals, Goes
    <3>3. QED
      BY <1>7, <3>1, <3>2 DEF Find
  <2>2. QED
    BY <1>1, <1>7, <2>1, TypeSplit DEF Find, SharedOK, shared
<1>8. CASE OpenWindow(t) \/ OpenWindowLegacy(t)
  <2>1. [mode EXCEPT !.act = "acknowledged", !.open = TRUE] \in Mode
    BY <1>1, ModeType DEF Activation
  <2>2. mode' \in Mode /\ faults' \in 0..MaxFaults
    BY <1>1, <1>8, <2>1, FaultType DEF OpenWindow, OpenWindowLegacy
  <2>3. LocalsOK'
    <3>1. CASE Works(t)
      BY <1>1, <3>1, ReturnsType
    <3>2. CASE UNCHANGED locals /\ Goes(t, "ackRows")
      BY <1>1, <3>2, PCIs DEF LocalsOK, locals, Goes
    <3>3. QED
      BY <1>8, <3>1, <3>2 DEF OpenWindow, OpenWindowLegacy
  <2>4. QED
    BY <1>1, <1>8, <2>2, <2>3, TypeSplit DEF OpenWindow, OpenWindowLegacy, SharedOK
<1>9. CASE AckRows(t)
  <2>1. del' \in [Enquiries -> Delivery] /\ faults' \in 0..MaxFaults
    BY <1>1, <1>2, <1>9, FaultType DEF AckRows, SharedOK, Status
  <2>2. QED
    BY <1>1, <1>9, <2>1, ReturnsType, TypeSplit DEF AckRows, SharedOK
<1>10. QED
  BY <1>3, <1>4, <1>5, <1>6, <1>7, <1>8, <1>9 DEF Front
Prompts(t) == \/ Sweep(t) \/ SelectMode(t) \/ ClaimMode(t)
              \/ SendPrompt(t) \/ CheckpointPrompt(t) \/ PromptStops(t)

LEMMA StopsType ==
  ASSUME LocalsOK, NEW t \in Tasks, NEW place \in PC, NEW v \in Stopping,
         Stops(t, place, v), UNCHANGED <<goal, token, batch, cur>>
  PROVE  LocalsOK'
  BY DEF LocalsOK, Stops, Goes, Stopping

LEMMA PromptsType == ASSUME TypeOK, AtHand, NEW t \in Tasks, Prompts(t) PROVE TypeOK'
<1>1. SharedOK /\ LocalsOK /\ mode \in Mode
  BY TypeSplit DEF SharedOK
<1>2. ASSUME NEW a \in Activation PROVE [mode EXCEPT !.act = a] \in Mode
  BY <1>1, ModeType DEF Mode
<1>3. CASE Sweep(t)
  <2>1. ASSUME NEW e \in Enquiries
        PROVE  [del[e] EXCEPT !.status = OldClaim] \in Delivery /\ del[e] \in Delivery
    BY <1>1, StatusType DEF SharedOK, Status, OldClaim
  <2>2. del' \in [Enquiries -> Delivery]
    BY <1>3, <2>1 DEF Sweep
  <2>3. mode' \in Mode
    BY <1>1, <1>2, <1>3 DEF Sweep, Activation
  <2>4. LocalsOK'
    BY <1>1, <1>3, PCIs DEF Sweep, LocalsOK, locals, Goes
  <2>5. QED
    BY <1>1, <1>3, <2>2, <2>3, <2>4, TypeSplit DEF Sweep, SharedOK
<1>4. CASE SelectMode(t)
  <2>1. LocalsOK'
    BY <1>1, <1>4, PCIs DEF SelectMode, LocalsOK, Goes
  <2>2. QED
    BY <1>1, <1>4, <2>1, TypeSplit DEF SelectMode, SharedOK, shared
<1>5. CASE ClaimMode(t)
  <2>1. pc' \in [Tasks -> PC] /\ token' \in [Tasks -> Token]
    BY <1>1, <1>5, PCIs DEF ClaimMode, LocalsOK, Goes, Token
  <2>2. LocalsOK'
    BY <1>1, <1>5, <2>1 DEF ClaimMode, LocalsOK
  <2>3. mode' \in Mode
    BY <1>1, <1>2, <1>5 DEF ClaimMode, Activation
  <2>4. QED
    BY <1>1, <1>5, <2>2, <2>3, TypeSplit DEF ClaimMode, SharedOK
<1>6. CASE SendPrompt(t)
  <2>1. LocalsOK'
    <3>1. CASE Goes(t, "promptCp") /\ UNCHANGED verdict
      BY <1>1, <1>6, <3>1, PCIs DEF SendPrompt, LocalsOK, Goes
    <3>2. CASE \E v \in Stopping : Stops(t, "promptStopped", v)
      BY <1>1, <1>6, <3>2, PCIs, StopsType DEF SendPrompt
    <3>3. QED
      BY <1>6, <3>1, <3>2 DEF SendPrompt, Stopping
  <2>2. offered' \in BOOLEAN
    BY <1>1, <1>6 DEF SendPrompt, SharedOK
  <2>3. QED
    BY <1>1, <1>6, <2>1, <2>2, TypeSplit DEF SendPrompt, SharedOK
<1>7. ASSUME PromptDone(t) PROVE LocalsOK'
  <2>1. pc' \in [Tasks -> PC] /\ token' \in [Tasks -> Token]
    BY <1>1, <1>7, PCIs DEF PromptDone, LocalsOK, Goes, Token
  <2>2. QED
    BY <1>1, <1>7, <2>1 DEF PromptDone, LocalsOK
<1>8. CASE CheckpointPrompt(t)
  <2>1. [mode EXCEPT !.act = "prompt_sent"] \in Mode
    BY <1>2 DEF Activation
  <2>2. mode' \in Mode
    BY <1>1, <1>8, <2>1 DEF CheckpointPrompt
  <2>3. faults' \in 0..MaxFaults
    BY <1>1, <1>8, FaultType DEF CheckpointPrompt
  <2>4. LocalsOK'
    BY <1>1, <1>7, <1>8, PCIs, StopsType DEF CheckpointPrompt, Stopping
  <2>5. QED
    BY <1>1, <1>8, <2>2, <2>3, <2>4, TypeSplit DEF CheckpointPrompt, SharedOK
<1>9. CASE PromptStops(t)
  <2>1. verdict[t] \in Activation
    BY <1>9 DEF PromptStops, AtHand, AtHandOf, Stopping, Activation
  <2>2. mode' \in Mode
    BY <1>1, <1>2, <1>9, <2>1 DEF PromptStops
  <2>3. faults' \in 0..MaxFaults
    BY <1>1, <1>9, FaultType DEF PromptStops
  <2>4. QED
    BY <1>1, <1>7, <1>9, <2>2, <2>3, TypeSplit DEF PromptStops, SharedOK
<1>10. QED
  BY <1>3, <1>4, <1>5, <1>6, <1>8, <1>9 DEF Prompts

Selects(t) == \/ Select(t) \/ BatchDone(t) \/ Requeue(t) \/ Claim(t)
              \/ \E e \in Enquiries : ReadMode(t, e)

LEMMA NextPartIs == ASSUME NEW ids PROVE NextPart(ids) \in Sending /\ Sending \subseteq PC
  BY DEF NextPart, Sending, PC

LEMMA DeliveryType ==
  ASSUME NEW d \in Delivery, NEW s \in Status, NEW n \in Nat, NEW i \in SUBSET Parts
  PROVE  [status |-> s, attempts |-> n, ids |-> i] \in Delivery
  BY DEF Delivery

LEMMA ClaimedIs ==
  ASSUME SharedOK, LocalsOK, NEW t \in Tasks, cur[t] \in Enquiries
  PROVE  /\ Claimed(t) \in [Enquiries -> Delivery]
         /\ Claimed(t)[cur[t]].status = "processing" /\ Claimed(t)[cur[t]].attempts > 0
         /\ Claimed(t)[cur[t]].ids = del[cur[t]].ids
         /\ \A e \in Enquiries : e # cur[t] => Claimed(t)[e] = del[e]
<1>1. batch[t][cur[t]].attempts + 1 \in Nat /\ batch[t][cur[t]].attempts + 1 > 0
  <2>1. batch[t][cur[t]] \in Snapshot
    BY DEF LocalsOK
  <2>2. QED
    BY <2>1 DEF Snapshot
<1>2. Claimed(t) = [del EXCEPT ![cur[t]] = [del[cur[t]] EXCEPT !.status = "processing",
                                    !.attempts = batch[t][cur[t]].attempts + 1]]
  BY DEF Claimed, SharedOK
<1>3. del \in [Enquiries -> Delivery] /\ del[cur[t]] \in Delivery
  BY DEF SharedOK
<1>4. /\ Claimed(t)[cur[t]] = [del[cur[t]] EXCEPT !.status = "processing",
                                    !.attempts = batch[t][cur[t]].attempts + 1]
      /\ \A e \in Enquiries : e # cur[t] => Claimed(t)[e] = del[e]
  BY <1>2, <1>3
<1>5. /\ Claimed(t)[cur[t]] \in Delivery
      /\ Claimed(t)[cur[t]].status = "processing"
      /\ Claimed(t)[cur[t]].attempts = batch[t][cur[t]].attempts + 1
      /\ Claimed(t)[cur[t]].ids = del[cur[t]].ids
  <2> DEFINE d == del[cur[t]]
             n == batch[t][cur[t]].attempts + 1
  <2>1. d \in Delivery /\ n \in Nat
    BY <1>1, <1>3
  <2>2. Claimed(t)[cur[t]] = [d EXCEPT !.status = "processing", !.attempts = n]
    BY <1>4
  <2> HIDE DEF d, n
  <2>3. /\ Claimed(t)[cur[t]] \in Delivery /\ Claimed(t)[cur[t]].status = "processing"
        /\ Claimed(t)[cur[t]].attempts = n /\ Claimed(t)[cur[t]].ids = d.ids
    BY <2>1, <2>2 DEF Delivery, Status
  <2>4. QED
    BY <2>3 DEF d, n
<1>6. Claimed(t) \in [Enquiries -> Delivery]
  BY <1>2, <1>3, <1>4, <1>5
<1>7. QED
  BY <1>1, <1>4, <1>5, <1>6

LEMMA SelectsType == ASSUME TypeOK, AtHand, NEW t \in Tasks, Selects(t) PROVE TypeOK'
<1>1. SharedOK /\ LocalsOK /\ mode \in Mode
  BY TypeSplit DEF SharedOK
<1>2. CASE Select(t)
  <2>1. ASSUME NEW e \in Enquiries, Selectable(e)
        PROVE  [status |-> del[e].status, attempts |-> del[e].attempts] \in Snapshot
    BY <1>1, <2>1 DEF Selectable, Open, SharedOK, Delivery, Snapshot
  <2>2. batch' \in [Tasks -> [Enquiries -> Snapshot]]
    BY <1>1, <1>2, <2>1, UnreadType DEF Select, LocalsOK
  <2>3. LocalsOK'
    BY <1>1, <1>2, <2>2, PCIs DEF Select, LocalsOK, Goes
  <2>4. QED
    BY <1>1, <1>2, <2>3, TypeSplit DEF Select, SharedOK, shared
<1>3. CASE BatchDone(t)
  BY <1>1, <1>3, ReturnsType, TypeSplit DEF BatchDone, SharedOK, shared
<1>4. CASE Requeue(t)
  <2>1. cur[t] \in Enquiries
    BY <1>4 DEF Requeue, AtHand, AtHandOf
  <2>2. token' \in [Tasks -> Token] /\ offered' \in BOOLEAN
    BY <1>1, <1>4, NewTokenType DEF Requeue, SharedOK, LocalsOK
  <2>3. mode' \in Mode /\ faults' \in 0..MaxFaults
    <3>1. [mode EXCEPT !.act = "queued"] \in Mode
      BY <1>1, ModeType DEF Activation
    <3>2. QED
      BY <1>1, <1>4, <3>1, FaultType DEF Requeue
  <2>4. LocalsOK'
    BY <1>1, <1>4, <2>1, <2>2, SkipsType DEF Requeue
  <2>5. QED
    BY <1>1, <1>4, <2>2, <2>3, <2>4, TypeSplit DEF Requeue, SharedOK
<1>5. CASE Claim(t)
  <2>1. cur[t] \in Enquiries
    BY <1>5 DEF Claim, AtHand, AtHandOf, Sending
  <2>2. del' \in [Enquiries -> Delivery]
    BY <1>1, <1>5, <2>1, ClaimedIs DEF Claim, SharedOK
  <2>3. LocalsOK'
    <3>1. CASE Skips(t, cur[t])
      BY <1>1, <1>5, <2>1, <3>1, SkipsType DEF Claim, LocalsOK
    <3>2. CASE Stops(t, "stopped", "failed") /\ UNCHANGED <<batch, cur>>
      BY <1>1, <1>5, <3>2, StopsType, PCIs DEF Claim, Stopping
    <3>3. CASE Goes(t, NextPart(del[cur[t]].ids)) /\ UNCHANGED <<batch, cur, verdict>>
      <4>1. NextPart(del[cur[t]].ids) \in PC
        BY NextPartIs
      <4>2. QED
        BY <1>1, <1>5, <3>3, <4>1 DEF Claim, Goes, LocalsOK
    <3>4. QED
      BY <1>5, <3>1, <3>2, <3>3 DEF Claim
  <2>4. faults' \in 0..MaxFaults
    BY <1>1, <1>5, FaultType DEF Claim
  <2>5. QED
    BY <1>1, <1>5, <2>2, <2>3, <2>4, TypeSplit DEF Claim, SharedOK
<1>6. ASSUME NEW e \in Enquiries, ReadMode(t, e) PROVE TypeOK'
  <2>1. LocalsOK'
    <3>1. CASE Skips(t, e)
      BY <1>1, <1>6, <3>1, SkipsType DEF ReadMode, LocalsOK
    <3>2. CASE \E place \in {"claim", "requeue"} : Picks(t, e, place)
      BY <1>1, <1>6, <3>2, PCIs DEF ReadMode, Picks, Goes, LocalsOK
    <3>3. QED
      BY <1>6, <3>1, <3>2 DEF ReadMode
  <2>2. faults' \in 0..MaxFaults
    BY <1>1, <1>6, FaultType DEF ReadMode
  <2>3. QED
    BY <1>1, <1>6, <2>1, <2>2, TypeSplit DEF ReadMode, SharedOK
<1>7. QED
  BY <1>2, <1>3, <1>4, <1>5, <1>6 DEF Selects
Delivers(t) == \/ Complete(t) \/ SendStops(t) \/ Kill(t)
             \/ \E part \in Parts : Send(t, part) \/ RecordSent(t, part)

(* What becomes of the row at hand when a part is recorded. *)
LEMMA RecordedIs ==
  ASSUME SharedOK, NEW t \in Tasks, cur[t] \in Enquiries, NEW part \in Parts
  PROVE  /\ Recorded(t, part) \in [Enquiries -> Delivery]
         /\ Recorded(t, part)[cur[t]].status = del[cur[t]].status
         /\ Recorded(t, part)[cur[t]].attempts = del[cur[t]].attempts
         /\ Recorded(t, part)[cur[t]].ids = del[cur[t]].ids \cup {part}
         /\ \A e \in Enquiries : e # cur[t] => Recorded(t, part)[e] = del[e]
<1>1. ASSUME NEW d \in Delivery
      PROVE  /\ [d EXCEPT !.ids = d.ids \cup {part}] \in Delivery
             /\ [d EXCEPT !.ids = d.ids \cup {part}].status = d.status
             /\ [d EXCEPT !.ids = d.ids \cup {part}].attempts = d.attempts
             /\ [d EXCEPT !.ids = d.ids \cup {part}].ids = d.ids \cup {part}
  BY DEF Delivery
<1>2. del \in [Enquiries -> Delivery] /\ del[cur[t]] \in Delivery
  BY DEF SharedOK
<1>3. Recorded(t, part) = [del EXCEPT ![cur[t]] =
                             [del[cur[t]] EXCEPT !.ids = del[cur[t]].ids \cup {part}]]
  BY <1>2 DEF Recorded
<1>4. /\ Recorded(t, part)[cur[t]] = [del[cur[t]] EXCEPT !.ids = del[cur[t]].ids \cup {part}]
      /\ \A e \in Enquiries : e # cur[t] => Recorded(t, part)[e] = del[e]
  BY <1>2, <1>3
<1>5. QED
  BY <1>1, <1>2, <1>3, <1>4

LEMMA SendsIs ==
  ASSUME SharedOK, NEW t \in Tasks, cur[t] \in Enquiries, NEW part \in Parts, Sends(t, part)
  PROVE  /\ posted' \in [Enquiries -> [Parts -> Nat]]
         /\ posted'[cur[t]][part] = posted[cur[t]][part] + 1
         /\ \A p \in Parts : p # part => posted'[cur[t]][p] = posted[cur[t]][p]
         /\ \A e \in Enquiries : e # cur[t] => posted'[e] = posted[e]
  BY DEF Sends, SharedOK

LEMMA DeliversType == ASSUME TypeOK, AtHand, NEW t \in Tasks, Delivers(t) PROVE TypeOK'
<1>1. /\ SharedOK /\ LocalsOK
      /\ UNCHANGED token => token' \in [Tasks -> Token]
  BY TypeSplit DEF LocalsOK
<1>2. pc[t] \in Sending => cur[t] \in Enquiries
  BY DEF AtHand, AtHandOf
<1>3. ASSUME NEW s \in Status, cur[t] \in Enquiries
      PROVE  [del EXCEPT ![cur[t]].status = s] \in [Enquiries -> Delivery]
  <2>1. [del[cur[t]] EXCEPT !.status = s] \in Delivery
    BY <1>1, <1>3, StatusType DEF SharedOK
  <2>2. QED
    BY <1>1, <1>3, <2>1 DEF SharedOK
<1>4. CASE Complete(t)
  <2>1. cur[t] \in Enquiries
    BY <1>2, <1>4 DEF Complete, Sending
  <2>2. del' \in [Enquiries -> Delivery] /\ faults' \in 0..MaxFaults
    BY <1>1, <1>3, <1>4, <2>1, FaultType DEF Complete, Status, SharedOK
  <2>3. LocalsOK'
    BY <1>1, <1>4, <2>1, SkipsType, StopsType, PCIs DEF Complete, Stopping, LocalsOK
  <2>4. QED
    BY <1>1, <1>4, <2>2, <2>3, TypeSplit DEF Complete, SharedOK
<1>5. CASE SendStops(t)
  <2>1. cur[t] \in Enquiries /\ verdict[t] \in Status
    BY <1>2, <1>5 DEF SendStops, Sending, AtHand, AtHandOf, Stopping, Status
  <2>2. del' \in [Enquiries -> Delivery] /\ faults' \in 0..MaxFaults
    BY <1>1, <1>3, <1>5, <2>1, FaultType DEF SendStops, SharedOK
  <2>3. LocalsOK'
    BY <1>1, <1>5, <2>1, SkipsType DEF SendStops, LocalsOK
  <2>4. QED
    BY <1>1, <1>5, <2>2, <2>3, TypeSplit DEF SendStops, SharedOK
<1>6. CASE Kill(t)
  <2>1. posted' \in [Enquiries -> [Parts -> Nat]]
    BY <1>1, <1>2, <1>6, SendsIs DEF Kill, Parts, Sending, SharedOK
  <2>2. offered' \in BOOLEAN
    BY <1>1, <1>6 DEF Kill, SharedOK
  <2>3. LocalsOK' /\ faults' \in 0..MaxFaults
    BY <1>1, <1>6, ReturnsType, FaultType DEF Kill
  <2>4. QED
    BY <1>1, <1>6, <2>1, <2>2, <2>3, TypeSplit DEF Kill, SharedOK
<1>7. ASSUME NEW part \in Parts, Send(t, part) PROVE TypeOK'
  <2>1. cur[t] \in Enquiries
    BY <1>2, <1>7 DEF Send, Parts, Sending
  <2>2. posted' \in [Enquiries -> [Parts -> Nat]]
    BY <1>1, <1>7, <2>1, SendsIs DEF Send, SharedOK
  <2>3. LocalsOK'
    <3>1. CASE Goes(t, Checkpoint(part)) /\ UNCHANGED verdict
      <4>1. Checkpoint(part) \in PC
        BY PCIs DEF Checkpoint
      <4>2. QED
        BY <1>1, <1>7, <3>1, <4>1 DEF Send, Goes, LocalsOK
    <3>2. CASE \E v \in Stopping : Stops(t, "stopped", v)
      BY <1>1, <1>7, <3>2, PCIs, StopsType DEF Send
    <3>3. QED
      BY <1>7, <3>1, <3>2 DEF Send, Stopping, Uncertain
  <2>4. QED
    BY <1>1, <1>7, <2>2, <2>3, TypeSplit DEF Send, SharedOK
<1>8. ASSUME NEW part \in Parts, RecordSent(t, part) PROVE TypeOK'
  <2>1. cur[t] \in Enquiries
    BY <1>2, <1>8 DEF RecordSent, Parts, Checkpoint, Sending
  <2>2. del' \in [Enquiries -> Delivery] /\ faults' \in 0..MaxFaults
    BY <1>1, <1>8, <2>1, RecordedIs, FaultType DEF RecordSent, SharedOK
  <2>3. LocalsOK'
    <3>1. CASE Goes(t, NextPart(del[cur[t]].ids \cup {part})) /\ UNCHANGED verdict
      <4>1. NextPart(del[cur[t]].ids \cup {part}) \in PC
        BY NextPartIs
      <4>2. QED
        BY <1>1, <1>8, <3>1, <4>1 DEF RecordSent, Goes, LocalsOK
    <3>2. CASE Stops(t, "stopped", Uncertain)
      BY <1>1, <1>8, <3>2, PCIs, StopsType DEF RecordSent, Stopping, Uncertain
    <3>3. QED
      BY <1>8, <3>1, <3>2 DEF RecordSent
  <2>4. QED
    BY <1>1, <1>8, <2>2, <2>3, TypeSplit DEF RecordSent, SharedOK
<1>9. QED
  BY <1>4, <1>5, <1>6, <1>7, <1>8 DEF Delivers
-----------------------------------------------------------------------------
(* What a request has at hand. *)

Starts(t) == \/ SwitchOff(t) \/ CronRuns(t)
             \/ \E e \in Enquiries : Enquire(t, e)
             \/ \E k \in Token : Answer(t, k)

(* The steps of one request leave the others alone. *)
Alone(t) == \A u \in Tasks : u # t =>
  /\ pc'[u] = pc[u] /\ goal'[u] = goal[u] /\ batch'[u] = batch[u]
  /\ cur'[u] = cur[u] /\ verdict'[u] = verdict[u]

LEMMA StartsAlone == ASSUME TypeOK, NEW t \in Tasks, Starts(t) PROVE Alone(t)
  BY DEF Starts, SwitchOff, CronRuns, Enquire, Answer, Works, Turns, Goes, Alone, TypeOK, NewToken

LEMMA FrontAlone == ASSUME TypeOK, NEW t \in Tasks, Front(t) PROVE Alone(t)
<1>1. ASSUME Returns(t) \/ Works(t) PROVE Alone(t)
  BY <1>1 DEF Returns, Works, Turns, Goes, Alone, TypeOK
<1>2. ASSUME NEW place, Goes(t, place), UNCHANGED <<goal, batch, cur>>,
             UNCHANGED verdict \/ \E v : verdict' = [verdict EXCEPT ![t] = v]
      PROVE  Alone(t)
  BY <1>2 DEF Goes, Alone, TypeOK
<1>3. ASSUME Resumes(t) PROVE Alone(t)
  BY <1>1, <1>2, <1>3 DEF Resumes, locals
<1>4. QED
  BY <1>1, <1>2, <1>3
     DEF Front, Expire, ExpireRows, Lookup, Insert, Find, OpenWindow, AckRows,
         OpenWindowLegacy, locals

LEMMA PromptsAlone == ASSUME TypeOK, NEW t \in Tasks, Prompts(t) PROVE Alone(t)
<1>1. ASSUME NEW place, Goes(t, place), UNCHANGED <<goal, batch, cur>>,
             UNCHANGED verdict \/ \E v : verdict' = [verdict EXCEPT ![t] = v]
      PROVE  Alone(t)
  BY <1>1 DEF Goes, Alone, TypeOK
<1>2. QED
  BY <1>1 DEF Prompts, Sweep, SelectMode, ClaimMode, SendPrompt, CheckpointPrompt, PromptStops,
              PromptDone, Stops, locals

LEMMA SelectsAlone == ASSUME TypeOK, NEW t \in Tasks, Selects(t) PROVE Alone(t)
<1>1. ASSUME NEW place, NEW v, Stops(t, place, v), UNCHANGED <<goal, batch, cur>>
      PROVE  Alone(t)
  BY <1>1 DEF Stops, Goes, Alone, TypeOK
<1>2. ASSUME NEW e, Skips(t, e), UNCHANGED goal PROVE Alone(t)
  BY <1>2 DEF Skips, Goes, Alone, TypeOK
<1>3. ASSUME NEW e, NEW place, Picks(t, e, place), UNCHANGED goal PROVE Alone(t)
  BY <1>3 DEF Picks, Goes, Alone, TypeOK
<1>4. ASSUME Returns(t) PROVE Alone(t)
  BY <1>4 DEF Returns, Turns, Goes, Alone, TypeOK
<1>5. ASSUME NEW place, Goes(t, place), UNCHANGED <<goal, cur, verdict>>,
             UNCHANGED batch \/ \E b : batch' = [batch EXCEPT ![t] = b]
      PROVE  Alone(t)
  BY <1>5 DEF Goes, Alone, TypeOK
<1>6. QED
  BY <1>1, <1>2, <1>3, <1>4, <1>5
     DEF Selects, Select, BatchDone, Requeue, Claim, ReadMode

LEMMA DeliversAlone == ASSUME TypeOK, NEW t \in Tasks, Delivers(t) PROVE Alone(t)
<1>1. ASSUME NEW place, NEW v, Stops(t, place, v), UNCHANGED <<goal, batch, cur>>
      PROVE  Alone(t)
  BY <1>1 DEF Stops, Goes, Alone, TypeOK
<1>2. ASSUME NEW e, Skips(t, e), UNCHANGED goal PROVE Alone(t)
  BY <1>2 DEF Skips, Goes, Alone, TypeOK
<1>3. ASSUME Returns(t) PROVE Alone(t)
  BY <1>3 DEF Returns, Turns, Goes, Alone, TypeOK
<1>4. ASSUME NEW place, Goes(t, place), UNCHANGED <<goal, batch, cur, verdict>>
      PROVE  Alone(t)
  BY <1>4 DEF Goes, Alone, TypeOK
<1>5. QED
  BY <1>1, <1>2, <1>3, <1>4 DEF Delivers, Complete, SendStops, Kill, Send, RecordSent

LEMMA AloneAtHand ==
  ASSUME AtHand, NEW t \in Tasks, Alone(t), AtHandOf(t)'
  PROVE  AtHand'
<1>1. ASSUME NEW u \in Tasks, u # t PROVE AtHandOf(u)'
  <2>1. AtHandOf(u)
    BY DEF AtHand
  <2>2. QED
    BY <1>1, <2>1 DEF Alone, AtHandOf
<1>2. QED
  BY <1>1 DEF AtHand
(* Nothing at hand is needed in these places. *)
Plain == {"idle", "find", "open", "openLegacy", "ackRows", "sweep", "selectMode", "claimMode",
          "select", "next", "prompt", "promptCp"}

LEMMA Elsewhere ==
  ASSUME TypeOK, NEW t \in Tasks, NEW place \in Plain, Goes(t, place)
  PROVE  AtHandOf(t)'
<1>1. pc'[t] \in Plain
  BY DEF Goes, TypeOK
<1>2. QED
  BY <1>1 DEF Plain, AtHandOf, Sending

LEMMA Begins ==
  ASSUME NEW t \in Tasks, pc'[t] \in {"expire", "expireRows"}, goal'[t] # "enqueue"
  PROVE  AtHandOf(t)'
  BY DEF AtHandOf, Sending

LEMMA StartsAtHand == ASSUME TypeOK, NEW t \in Tasks, Starts(t) PROVE AtHandOf(t)'
<1>1. CASE SwitchOff(t)
  BY <1>1, Begins DEF SwitchOff, Goes, TypeOK
<1>2. CASE CronRuns(t)
  BY <1>2, Begins DEF CronRuns, Works, Turns, Goes, TypeOK
<1>3. ASSUME NEW e \in Enquiries, Enquire(t, e) PROVE AtHandOf(t)'
  BY <1>3 DEF Enquire, Goes, TypeOK, AtHandOf
<1>4. ASSUME NEW k \in Token, Answer(t, k) PROVE AtHandOf(t)'
  BY <1>4, Begins DEF Answer, Goes, TypeOK
<1>5. QED
  BY <1>1, <1>2, <1>3, <1>4 DEF Starts

LEMMA FrontAtHand == ASSUME TypeOK, AtHand, NEW t \in Tasks, Front(t) PROVE AtHandOf(t)'
<1>1. ASSUME Returns(t) \/ Works(t) PROVE AtHandOf(t)'
  BY <1>1, Elsewhere, Begins DEF Returns, Works, Turns, Goes, Plain, TypeOK
<1>2. ASSUME pc[t] \in {"expire", "expireRows"}, Resumes(t) PROVE AtHandOf(t)'
  <2>1. CASE goal[t] = "enqueue" /\ Goes(t, "lookup") /\ UNCHANGED locals
    BY <1>2, <2>1 DEF AtHand, AtHandOf, Goes, locals, TypeOK
  <2>2. CASE \E place \in {"sweep", "find"} : Goes(t, place)
    BY <2>2, Elsewhere DEF Plain
  <2>3. QED
    BY <1>1, <1>2, <2>1, <2>2 DEF Resumes
<1>3. CASE Expire(t) \/ ExpireRows(t)
  <2>1. CASE Goes(t, "expireRows") /\ UNCHANGED <<goal, batch, cur, verdict>>
    <3>1. pc[t] \in {"expire", "expireRows"} /\ pc'[t] = "expireRows"
      BY <1>3, <2>1 DEF Expire, ExpireRows, Goes, TypeOK
    <3>2. goal[t] = "enqueue" => cur[t] \in Enquiries
      BY <3>1 DEF AtHand, AtHandOf
    <3>3. QED
      BY <2>1, <3>1, <3>2 DEF AtHandOf, Sending
  <2>2. QED
    BY <1>2, <1>3, <2>1 DEF Expire, ExpireRows
<1>4. CASE Lookup(t)
  <2>1. CASE /\ Goes(t, "insert") /\ UNCHANGED <<goal, token, batch, cur>>
             /\ verdict' = [verdict EXCEPT ![t] = IF mode.open THEN "acknowledged" ELSE "queued"]
    BY <1>4, <2>1 DEF Lookup, AtHand, AtHandOf, Goes, TypeOK
  <2>2. QED
    BY <1>1, <1>4, <2>1 DEF Lookup
<1>5. CASE Insert(t) \/ AckRows(t) \/ OpenWindowLegacy(t)
  BY <1>1, <1>5 DEF Insert, AckRows, OpenWindowLegacy
<1>6. CASE Find(t)
  BY <1>1, <1>6, Elsewhere DEF Find, Plain
<1>7. CASE OpenWindow(t)
  BY <1>7, Elsewhere DEF OpenWindow, Plain
<1>8. QED
  BY <1>3, <1>4, <1>5, <1>6, <1>7 DEF Front

LEMMA PromptsAtHand == ASSUME TypeOK, AtHand, NEW t \in Tasks, Prompts(t) PROVE AtHandOf(t)'
<1>1. CASE \E place \in Plain : Goes(t, place)
  BY <1>1, Elsewhere
<1>2. CASE \E v \in Stopping : Stops(t, "promptStopped", v)
  BY <1>2 DEF Stops, Goes, AtHandOf, Sending, TypeOK, Stopping
<1>3. QED
  BY <1>1, <1>2 DEF Prompts, Sweep, SelectMode, ClaimMode, SendPrompt, CheckpointPrompt,
                    PromptStops, PromptDone, Plain, Stopping

LEMMA SelectsAtHand == ASSUME TypeOK, AtHand, NEW t \in Tasks, Selects(t) PROVE AtHandOf(t)'
<1>1. ASSUME NEW e, Skips(t, e) PROVE AtHandOf(t)'
  BY <1>1, Elsewhere DEF Skips, Plain
<1>2. CASE Select(t) \/ BatchDone(t)
  BY <1>2, Elsewhere DEF Select, BatchDone, Returns, Turns, Plain
<1>3. CASE Requeue(t)
  BY <1>1, <1>3 DEF Requeue
<1>4. CASE Claim(t)
  <2>1. cur[t] \in Enquiries
    BY <1>4 DEF Claim, AtHand, AtHandOf
  <2>2. CASE Stops(t, "stopped", "failed") /\ UNCHANGED <<batch, cur>>
    BY <2>1, <2>2 DEF Stops, Goes, AtHandOf, Stopping, TypeOK
  <2>3. CASE Goes(t, NextPart(del[cur[t]].ids)) /\ UNCHANGED <<batch, cur, verdict>>
    BY <2>1, <2>3 DEF Goes, NextPart, AtHandOf, TypeOK
  <2>4. QED
    BY <1>1, <1>4, <2>2, <2>3 DEF Claim
<1>5. ASSUME NEW e \in Enquiries, ReadMode(t, e) PROVE AtHandOf(t)'
  <2>1. CASE \E place \in {"claim", "requeue"} : Picks(t, e, place)
    BY <1>5, <2>1 DEF ReadMode, Picks, Waiting, Goes, AtHandOf, Sending, TypeOK
  <2>2. QED
    BY <1>1, <1>5, <2>1 DEF ReadMode
<1>6. QED
  BY <1>2, <1>3, <1>4, <1>5 DEF Selects

LEMMA DeliversAtHand == ASSUME TypeOK, AtHand, NEW t \in Tasks, Delivers(t) PROVE AtHandOf(t)'
<1>1. ASSUME NEW e, Skips(t, e) PROVE AtHandOf(t)'
  BY <1>1, Elsewhere DEF Skips, Plain
<1>2. ASSUME cur[t] \in Enquiries, UNCHANGED <<batch, cur>>,
             \/ \E v \in Stopping : Stops(t, "stopped", v)
             \/ \E place \in {"contentCp", "labelCp"} : Goes(t, place)
             \/ \E ids : Goes(t, NextPart(ids))
      PROVE  AtHandOf(t)'
  BY <1>2 DEF Stops, Goes, NextPart, AtHandOf, Stopping, TypeOK
<1>3. pc[t] \in Sending => cur[t] \in Enquiries
  BY DEF AtHand, AtHandOf
<1>4. CASE Complete(t)
  BY <1>1, <1>2, <1>3, <1>4 DEF Complete, Sending, Stopping
<1>5. CASE SendStops(t)
  BY <1>1, <1>5 DEF SendStops
<1>6. CASE Kill(t)
  BY <1>6, Elsewhere DEF Kill, Returns, Turns, Plain
<1>7. ASSUME NEW part \in Parts, Send(t, part) PROVE AtHandOf(t)'
  BY <1>2, <1>3, <1>7 DEF Send, Sending, Parts, Checkpoint, Stopping, Uncertain
<1>8. ASSUME NEW part \in Parts, RecordSent(t, part) PROVE AtHandOf(t)'
  BY <1>2, <1>3, <1>8 DEF RecordSent, Sending, Parts, Checkpoint, Stopping, Uncertain
<1>9. QED
  BY <1>4, <1>5, <1>6, <1>7, <1>8 DEF Delivers
-----------------------------------------------------------------------------
(* Rows and senders. *)

SameSenders(e) == \A t \in Tasks :
  Sender(t, e)' => Sender(t, e) /\ pc'[t] = pc[t] /\ verdict'[t] = verdict[t]

Kept(e) == del'[e] = del[e] /\ posted'[e] = posted[e] /\ SameSenders(e)

LEMMA KeptSafe == ASSUME NEW e \in Enquiries, SafeAt(e), Kept(e) PROVE SafeAt(e)'
<1>1. \A s, t \in Tasks : Sender(s, e)' /\ Sender(t, e)' => s = t
  BY DEF SafeAt, Kept, SameSenders
<1>2. ASSUME NEW t \in Tasks, Sender(t, e)' PROVE SenderOK(t, e)'
  <2>1. SenderOK(t, e) /\ pc'[t] = pc[t]
    BY <1>2 DEF SafeAt, Kept, SameSenders
  <2>2. QED
    BY <2>1 DEF SenderOK, Kept
<1>3. ASSUME NEW p \in Parts, Loose(e, p) PROVE Loose(e, p)'
  BY <1>3 DEF Loose, Kept, SameSenders
<1>4. RowOK(e)'
  <2>1. RowOK(e)
    BY DEF SafeAt
  <2>2. QED
    BY <1>3, <2>1 DEF RowOK, Kept
<1>5. QED
  BY <1>1, <1>2, <1>4 DEF SafeAt

(* A request that is not sending after its step disturbs no other.         *)
LEMMA AsideSenders ==
  ASSUME NEW t \in Tasks, Alone(t), pc'[t] \notin Sending, NEW e
  PROVE  SameSenders(e)
  BY DEF Alone, SameSenders, Sender

(* A request disturbs nobody who sends another delivery. *)
LEMMA OtherSenders ==
  ASSUME NEW t \in Tasks, Alone(t), cur'[t] = cur[t] \/ pc'[t] \notin Sending,
         NEW e, e # cur[t]
  PROVE  SameSenders(e)
  BY DEF Alone, SameSenders, Sender

(* Nobody sends a delivery that waits. *)
LEMMA WaitingAlone ==
  ASSUME NEW e \in Enquiries, SafeAt(e),
         del[e].status \in {"absent", "queued", "acknowledged", "failed"}
  PROVE  /\ \A t \in Tasks : ~Sender(t, e)
         /\ \A p \in Parts : ~Loose(e, p)
  BY DEF SafeAt, SenderOK, Loose

(* The row changes its status only. *)
Restatus(e) ==
  /\ posted'[e] = posted[e] /\ del'[e].ids = del[e].ids /\ del'[e].attempts = del[e].attempts
  /\ \/ del'[e].status = "gone"
     \/ /\ del[e].status \in {"absent", "queued", "acknowledged", "failed"}
        /\ del'[e].status # "absent"
     \/ /\ del[e].status = "processing" /\ del'[e].status = "manual_review"
        /\ \A t \in Tasks : ~Sender(t, e)

LEMMA RestatusSafe ==
  ASSUME NEW e \in Enquiries, SafeAt(e), Restatus(e), SameSenders(e)
  PROVE  SafeAt(e)'
<1>1. \A s, t \in Tasks : Sender(s, e)' /\ Sender(t, e)' => s = t
  BY DEF SafeAt, SameSenders
<1>2. ASSUME NEW t \in Tasks, Sender(t, e)' PROVE SenderOK(t, e)'
  <2>1. SenderOK(t, e) /\ Sender(t, e) /\ pc'[t] = pc[t]
    BY <1>2 DEF SafeAt, SameSenders
  <2>2. del'[e].status = "gone"
    BY <2>1, WaitingAlone DEF Restatus
  <2>3. QED
    BY <2>1, <2>2 DEF SenderOK, Restatus
<1>3. ASSUME NEW p \in Parts, posted[e][p] = 1 PROVE p \in del[e].ids \/ Loose(e, p)'
  <2>1. p \in del[e].ids \/ Loose(e, p)
    BY <1>3 DEF SafeAt, RowOK
  <2>2. CASE del'[e].status \in {"gone", "manual_review"}
    BY <2>2 DEF Loose
  <2>3. CASE del[e].status \in {"absent", "queued", "acknowledged", "failed"}
    BY <2>1, <2>3, WaitingAlone
  <2>4. QED
    BY <2>2, <2>3 DEF Restatus
<1>4. RowOK(e)'
  <2>1. RowOK(e)
    BY DEF SafeAt
  <2>2. QED
    BY <1>3, <2>1 DEF RowOK, Restatus
<1>5. QED
  BY <1>1, <1>2, <1>4 DEF SafeAt

(* The one who sends, and nobody else, has changed. *)
LEMMA MineSafe ==
  ASSUME NEW e \in Enquiries, NEW t \in Tasks, \A u \in Tasks : Sender(u, e)' => u = t,
         Sender(t, e)' => SenderOK(t, e)', RowOK(e)'
  PROVE  SafeAt(e)'
  BY DEF SafeAt

LEMMA MineLoose ==
  ASSUME NEW e \in Enquiries, NEW t \in Tasks, \A u \in Tasks : Sender(u, e)' => u = t,
         NEW p \in Parts, del'[e].status \in {"processing", "gone"},
         Sender(t, e)' => pc'[t] = Checkpoint(p)
                            \/ (pc'[t] = "stopped" /\ verdict'[t] = "manual_review")
  PROVE  Loose(e, p)'
  BY DEF Loose
-----------------------------------------------------------------------------
(* Each step leaves every delivery safe. *)

LEMMA StatusSet ==
  ASSUME TypeOK, NEW e \in Enquiries, NEW s \in Status,
         del'[e] = [del[e] EXCEPT !.status = s]
  PROVE  del'[e].status = s /\ del'[e].ids = del[e].ids /\ del'[e].attempts = del[e].attempts
<1>1. del[e] \in Delivery
  BY DEF TypeOK
<1>2. QED
  BY <1>1, StatusType

LEMMA OutsideSafe == ASSUME IInv, Outside, NEW e \in Enquiries PROVE SafeAt(e)'
<1>1. TypeOK /\ SafeAt(e)
  BY DEF IInv
<1>2. CASE SwitchOn \/ ModeLapses \/ WindowCloses
  BY <1>1, <1>2, KeptSafe
     DEF SwitchOn, ModeLapses, WindowCloses, locals, Kept, SameSenders, Sender
<1>3. ASSUME NEW k \in Enquiries, Cancel(k) PROVE SafeAt(e)'
  <2>1. SameSenders(e) /\ posted'[e] = posted[e]
    BY <1>3 DEF Cancel, locals, SameSenders, Sender
  <2>2. CASE k # e
    BY <1>1, <1>3, <2>1, <2>2, KeptSafe DEF Cancel, Kept, TypeOK
  <2>3. CASE k = e
    <3>1. del'[e] = [del[e] EXCEPT !.status = "gone"]
      BY <1>1, <1>3, <2>3 DEF Cancel, TypeOK
    <3>2. Restatus(e)
      BY <1>1, <2>1, <3>1, StatusSet DEF Restatus, Status
    <3>3. QED
      BY <1>1, <2>1, <3>2, RestatusSafe
  <2>4. QED
    BY <2>2, <2>3
<1>4. ASSUME NEW t \in Tasks, Starts(t) PROVE SafeAt(e)'
  <2>1. Alone(t)
    BY <1>1, <1>4, StartsAlone
  <2>2. pc'[t] \notin Sending
    BY <1>1, <1>4, PCIs
       DEF Starts, SwitchOff, CronRuns, Enquire, Answer, Works, Turns, Goes, TypeOK, Sending
  <2>3. del' = del /\ posted' = posted
    BY <1>4 DEF Starts, SwitchOff, CronRuns, Enquire, Answer, shared
  <2>4. QED
    BY <1>1, <2>1, <2>2, <2>3, AsideSenders, KeptSafe DEF Kept
<1>5. QED
  BY <1>2, <1>3, <1>4 DEF Outside, Starts

LEMMA FrontSafe ==
  ASSUME IInv, NEW t \in Tasks, Front(t), NEW e \in Enquiries
  PROVE  SafeAt(e)'
<1>1. TypeOK /\ AtHand /\ SafeAt(e) /\ Alone(t)
  BY FrontAlone DEF IInv
<1>2. pc'[t] \notin Sending
  <2>1. ASSUME Resumes(t) PROVE pc'[t] \notin Sending
    BY <1>1, <2>1 DEF Resumes, Returns, Turns, Goes, TypeOK, Sending
  <2>2. QED
    BY <1>1, <2>1 DEF Front, Expire, ExpireRows, Lookup, Insert, Find, OpenWindow, AckRows,
                      OpenWindowLegacy, Returns, Works, Turns, Goes, TypeOK, Sending
<1>3. SameSenders(e)
  BY <1>1, <1>2, AsideSenders
<1>4. posted' = posted
  BY DEF Front, Expire, ExpireRows, Lookup, Insert, Find, OpenWindow, AckRows,
         OpenWindowLegacy, shared
<1>5. CASE del'[e] = del[e]
  BY <1>1, <1>3, <1>4, <1>5, KeptSafe DEF Kept
<1>6. CASE ExpireRows(t) /\ del'[e] # del[e]
  <2>1. Open(e) /\ del'[e] = [del[e] EXCEPT !.status = "expired"]
    BY <1>6 DEF ExpireRows
  <2>2. Restatus(e)
    BY <1>1, <1>4, <2>1, StatusSet DEF Restatus, Status, Open
  <2>3. QED
    BY <1>1, <1>3, <2>2, RestatusSafe
<1>7. CASE Insert(t) /\ del'[e] # del[e]
  <2>1. verdict[t] \in {"queued", "acknowledged"}
    BY <1>1, <1>7 DEF Insert, AtHand, AtHandOf
  <2>2. del[e].status = "absent" /\ del'[e] = [del[e] EXCEPT !.status = verdict[t]]
    BY <1>1, <1>7 DEF Insert, TypeOK
  <2>3. Restatus(e)
    BY <1>1, <1>4, <2>1, <2>2, StatusSet DEF Restatus, Status
  <2>4. QED
    BY <1>1, <1>3, <2>3, RestatusSafe
<1>8. CASE AckRows(t) /\ del'[e] # del[e]
  <2>1. del[e].status \in {"queued", "failed"}
        /\ del'[e] = [del[e] EXCEPT !.status = "acknowledged"]
    BY <1>8 DEF AckRows
  <2>2. Restatus(e)
    BY <1>1, <1>4, <2>1, StatusSet DEF Restatus, Status
  <2>3. QED
    BY <1>1, <1>3, <2>2, RestatusSafe
<1>9. QED
  BY <1>5, <1>6, <1>7, <1>8 DEF Front, Expire, Lookup, Find, OpenWindow, OpenWindowLegacy, shared

LEMMA PromptsSafe ==
  ASSUME IInv, NEW t \in Tasks, Prompts(t), NEW e \in Enquiries
  PROVE  SafeAt(e)'
<1>1. TypeOK /\ AtHand /\ SafeAt(e) /\ Alone(t)
  BY PromptsAlone DEF IInv
<1>2. pc'[t] \notin Sending
  BY <1>1 DEF Prompts, Sweep, SelectMode, ClaimMode, SendPrompt, CheckpointPrompt, PromptStops,
              PromptDone, Stops, Goes, TypeOK, Sending
<1>3. SameSenders(e)
  BY <1>1, <1>2, AsideSenders
<1>4. posted' = posted
  BY DEF Prompts, Sweep, SelectMode, ClaimMode, SendPrompt, CheckpointPrompt, PromptStops, shared
<1>5. CASE del'[e] = del[e]
  BY <1>1, <1>3, <1>4, <1>5, KeptSafe DEF Kept
<1>6. CASE Sweep(t) /\ del'[e] # del[e]
  <2>1. ClaimIsOld(e) /\ del'[e] = [del[e] EXCEPT !.status = "manual_review"]
    BY <1>6 DEF Sweep, OldClaim
  <2>2. Restatus(e)
    BY <1>1, <1>4, <2>1, StatusSet DEF Restatus, Status, ClaimIsOld, Sender
  <2>3. QED
    BY <1>1, <1>3, <2>2, RestatusSafe
<1>7. QED
  BY <1>5, <1>6 DEF Prompts, SelectMode, ClaimMode, SendPrompt, CheckpointPrompt, PromptStops,
                    shared

LEMMA NextPartFits ==
  ASSUME NEW ids
  PROVE  /\ \A p \in Parts : NextPart(ids) = p => p \notin ids
         /\ NextPart(ids) = "label" => "content" \in ids
         /\ NextPart(ids) \in {"content", "label", "complete"}
  BY DEF NextPart, Parts

LEMMA SelectsSafe ==
  ASSUME IInv, NEW t \in Tasks, Selects(t), NEW e \in Enquiries
  PROVE  SafeAt(e)'
<1>1. TypeOK /\ AtHand /\ SafeAt(e) /\ Alone(t) /\ posted' = posted
  BY SelectsAlone DEF IInv, Selects, Select, BatchDone, Requeue, Claim, ReadMode, shared
<1>2. CASE del'[e] = del[e] /\ pc'[t] \notin Sending
  BY <1>1, <1>2, AsideSenders, KeptSafe DEF Kept
<1>3. CASE Select(t) \/ BatchDone(t) \/ Requeue(t) \/ \E k \in Enquiries : ReadMode(t, k)
  BY <1>1, <1>2, <1>3
     DEF Select, BatchDone, Requeue, ReadMode, Skips, Picks, Returns, Turns, Goes, TypeOK,
         Sending, shared
<1>4. CASE Claim(t)
  <2>1. /\ cur[t] \in Enquiries /\ batch[t][cur[t]].status # "absent"
        /\ batch[t][cur[t]] \in Snapshot
    BY <1>1, <1>4 DEF Claim, AtHand, AtHandOf, TypeOK
  <2>2. CASE del' = del /\ Skips(t, cur[t])
    BY <1>1, <1>2, <2>2 DEF Skips, Goes, TypeOK, Sending
  <2>3. CASE StillAsRead(t) /\ del' = Claimed(t) /\ e # cur[t]
    <3>1. del'[e] = del[e]
      BY <1>1, <2>1, <2>3, ClaimedIs, TypeSplit
    <3>2. cur'[t] = cur[t] \/ pc'[t] \notin Sending
      BY <1>1, <1>4 DEF Claim, Stops, Skips, Goes, TypeOK, Sending
    <3>3. QED
      BY <1>1, <2>3, <3>1, <3>2, OtherSenders, KeptSafe DEF Kept
  <2>4. CASE StillAsRead(t) /\ del' = Claimed(t) /\ e = cur[t]
    <3>1. /\ del'[e].status = "processing" /\ del'[e].attempts > 0
          /\ del'[e].ids = del[e].ids
      BY <1>1, <2>1, <2>4, ClaimedIs, TypeSplit
    <3>2. del[e].status \in {"queued", "acknowledged", "failed"}
      BY <2>1, <2>4 DEF StillAsRead, Snapshot
    <3>3. /\ \A u \in Tasks : ~Sender(u, e)
          /\ \A p \in Parts : ~Loose(e, p)
      BY <1>1, <3>2, WaitingAlone
    <3>4. \A u \in Tasks : Sender(u, e)' => u = t
      BY <1>1, <3>3 DEF Alone, Sender
    <3>5. \A p \in Parts : /\ posted[e][p] \in {0, 1}
                           /\ p \in del[e].ids <=> posted[e][p] = 1
      BY <1>1, <3>3 DEF SafeAt, RowOK
    <3>6. RowOK(e)'
      <4>1. del'[e].attempts # 0
        <5>1. del'[e] \in Delivery
          BY <1>1, <2>1, <2>4, ClaimedIs, TypeSplit
        <5>2. QED
          BY <3>1, <5>1 DEF Delivery
      <4>2. QED
        BY <1>1, <3>1, <3>5, <4>1 DEF SafeAt, RowOK
    <3>7. pc'[t] \in {"stopped", "next", NextPart(del[e].ids)}
      BY <1>1, <1>4, <2>4 DEF Claim, Stops, Skips, Goes, TypeOK
    <3>8. ASSUME Sender(t, e)' PROVE SenderOK(t, e)'
      <4>1. CASE pc'[t] = "stopped"
        BY <3>1, <4>1 DEF SenderOK, Parts, Checkpoint
      <4>2. CASE pc'[t] = NextPart(del[e].ids)
        <5>1. ASSUME NEW p \in Parts, pc'[t] = p PROVE posted[e][p] = 0
          <6>1. p \notin del[e].ids
            BY <4>2, <5>1, NextPartFits
          <6>2. QED
            BY <3>5, <6>1
        <5>2. \A p \in Parts : pc'[t] # Checkpoint(p)
          BY <4>2, NextPartFits DEF Parts, Checkpoint
        <5>3. pc'[t] \in {"label", "labelCp"} => "content" \in del[e].ids
          BY <4>2, NextPartFits
        <5>4. QED
          BY <1>1, <3>1, <5>1, <5>2, <5>3 DEF SenderOK
      <4>3. QED
        BY <3>7, <3>8, <4>1, <4>2 DEF Sender, Sending
    <3>9. QED
      BY <3>4, <3>6, <3>8, MineSafe
  <2>5. QED
    BY <1>4, <2>2, <2>3, <2>4 DEF Claim
<1>5. QED
  BY <1>3, <1>4 DEF Selects

(* What is sent and not recorded at a delivery that somebody sends.        *)
LEMMA SenderRow ==
  ASSUME NEW e \in Enquiries, SafeAt(e), NEW t \in Tasks, Sender(t, e)
  PROVE  /\ SenderOK(t, e)
         /\ \A p \in Parts : posted[e][p] = 1 =>
              \/ p \in del[e].ids \/ del[e].status = "gone" \/ pc[t] = Checkpoint(p)
              \/ pc[t] = "stopped" /\ del[e].status = "processing"
                                   /\ verdict[t] = "manual_review"
<1>1. SenderOK(t, e) /\ RowOK(e)
  BY DEF SafeAt
<1>2. QED
  BY <1>1 DEF SenderOK, RowOK, Loose

(* The row is left as it is but for its status. *)
LEMMA RowKept ==
  ASSUME NEW e \in Enquiries, SafeAt(e), posted'[e] = posted[e],
         del'[e].ids = del[e].ids, del'[e].attempts = del[e].attempts,
         del'[e].status # "absent",
         \A p \in Parts : posted[e][p] = 1 => p \in del[e].ids \/ Loose(e, p)'
  PROVE  RowOK(e)'
<1>1. RowOK(e)
  BY DEF SafeAt
<1>2. QED
  BY <1>1 DEF RowOK

LEMMA CheckpointIs ==
  ASSUME NEW part \in Parts
  PROVE  /\ \A p \in Parts : Checkpoint(p) = Checkpoint(part) => p = part
         /\ \A p \in Parts : Checkpoint(p) # p /\ Checkpoint(p) # part
         /\ Checkpoint(part) \notin Parts \cup {"stopped", "complete"}
         /\ part \notin {"stopped", "complete"}
         /\ Checkpoint(part) \in {"contentCp", "labelCp"}
         /\ Checkpoint(part) = "labelCp" => part = "label"
  BY DEF Checkpoint, Parts

LEMMA SendSafe ==
  ASSUME IInv, NEW t \in Tasks, NEW part \in Parts, Send(t, part),
         NEW e \in Enquiries, e = cur[t],
         \A u \in Tasks : Sender(u, e)' => u = t
  PROVE  SafeAt(e)'
<1>1. TypeOK /\ SafeAt(e) /\ Sender(t, e) /\ RowOK(e) /\ SharedOK
  BY CheckpointIs, TypeSplit DEF IInv, SafeAt, Send, Sender, Sending, Parts
<1>2. /\ SenderOK(t, e) /\ pc[t] = part /\ part \notin {"stopped", "complete"}
      /\ \A p \in Parts : posted[e][p] = 1 => p \in del[e].ids \/ del[e].status = "gone"
  BY <1>1, SenderRow, CheckpointIs DEF Send
<1>3. /\ del[e].status \in {"processing", "gone"} /\ del[e].attempts > 0
      /\ posted[e][part] = 0 /\ part \notin del[e].ids
      /\ part = "label" => "content" \in del[e].ids
  BY <1>1, <1>2 DEF SenderOK, RowOK
<1>4. del' = del /\ pc'[t] \in {Checkpoint(part), "stopped"}
  BY <1>1 DEF Send, Stops, Goes, TypeOK
<1>5. CASE posted' = posted
  <2>1. pc'[t] = "stopped"
    BY <1>1, <1>3, <1>5, SendsIs DEF Send, Stops, Goes, TypeOK
  <2>2. Sender(t, e)' => SenderOK(t, e)'
    BY <1>3, <1>4, <2>1 DEF SenderOK, Parts, Checkpoint
  <2>3. RowOK(e)'
    BY <1>1, <1>2, <1>3, <1>4, <1>5, RowKept DEF Loose
  <2>4. QED
    BY <2>2, <2>3, MineSafe
<1>6. CASE Sends(t, part) /\ (Goes(t, Checkpoint(part)) \/ Stops(t, "stopped", Uncertain))
  <2>1. /\ posted'[e][part] = 1
        /\ \A p \in Parts : p # part => posted'[e][p] = posted[e][p]
    BY <1>1, <1>3, <1>6, SendsIs
  <2>2. Loose(e, part)'
    BY <1>1, <1>3, <1>4, <1>6, MineLoose DEF Stops, Goes, Uncertain, TypeOK
  <2>3. RowOK(e)'
    <3>1. ASSUME NEW p \in Parts
          PROVE  /\ posted'[e][p] \in {0, 1}
                 /\ p \in del'[e].ids => posted'[e][p] = 1
                 /\ posted'[e][p] = 1 => p \in del'[e].ids \/ Loose(e, p)'
      <4>1. CASE p = part
        BY <2>1, <2>2, <4>1
      <4>2. CASE p # part
        BY <1>1, <1>2, <1>4, <2>1, <4>2 DEF RowOK, Loose
      <4>3. QED
        BY <4>1, <4>2
    <3>2. posted'[e]["label"] = 1 => "content" \in del'[e].ids
      BY <1>1, <1>3, <1>4, <2>1 DEF RowOK, Parts
    <3>3. QED
      BY <1>1, <1>4, <3>1, <3>2 DEF RowOK
  <2>4. SenderOK(t, e)'
    <3>1. \A p \in Parts : pc'[t] # p
      BY <1>4, CheckpointIs
    <3>2. \A p \in Parts : pc'[t] = Checkpoint(p) => p = part
      BY <1>4, CheckpointIs
    <3>3. pc'[t] \in {"label", "labelCp"} => part = "label"
      BY <1>4, CheckpointIs DEF Parts
    <3>4. QED
      BY <1>3, <1>4, <2>1, <3>1, <3>2, <3>3 DEF SenderOK
  <2>5. QED
    BY <2>3, <2>4, MineSafe
<1>7. QED
  BY <1>5, <1>6 DEF Send

LEMMA RecordSafe ==
  ASSUME IInv, NEW t \in Tasks, NEW part \in Parts, RecordSent(t, part),
         NEW e \in Enquiries, e = cur[t],
         \A u \in Tasks : Sender(u, e)' => u = t
  PROVE  SafeAt(e)'
<1>1. TypeOK /\ SafeAt(e) /\ Sender(t, e) /\ RowOK(e) /\ SharedOK
  BY TypeSplit, CheckpointIs DEF IInv, SafeAt, RecordSent, Sender, Sending
<1>2. /\ SenderOK(t, e) /\ pc[t] = Checkpoint(part)
      /\ pc[t] # "stopped" /\ posted[e][part] = 1
  BY <1>1, SenderRow, CheckpointIs DEF RecordSent, SenderOK
<1>3. \A p \in Parts : posted[e][p] = 1 =>
        p \in del[e].ids \cup {part} \/ del[e].status = "gone"
  BY <1>1, <1>2, SenderRow, CheckpointIs
<1>4. del[e].status \in {"processing", "gone"} /\ del[e].attempts > 0
  BY <1>2 DEF SenderOK
<1>5. posted' = posted
  BY DEF RecordSent
<1>6. CASE Stops(t, "stopped", Uncertain) /\ del' = del
  <2>1. pc'[t] = "stopped" /\ verdict'[t] = "manual_review"
    BY <1>1, <1>6 DEF Stops, Goes, Uncertain, TypeOK
  <2>2. \A p \in Parts : Loose(e, p)'
    BY <1>4, <1>6, <2>1, MineLoose
  <2>3. RowOK(e)'
    BY <1>1, <1>4, <1>5, <1>6, <2>2, RowKept
  <2>4. SenderOK(t, e)'
    BY <1>4, <1>6, <2>1 DEF SenderOK, Parts, Checkpoint
  <2>5. QED
    BY <2>3, <2>4, MineSafe
<1>7. CASE Held(t) /\ del' = Recorded(t, part)
           /\ (Goes(t, NextPart(del[e].ids \cup {part})) \/ Stops(t, "stopped", Uncertain))
  <2>1. /\ del'[e].status = "processing" /\ del[e].status = "processing"
        /\ del'[e].attempts = del[e].attempts
        /\ del'[e].ids = del[e].ids \cup {part}
    BY <1>1, <1>7, RecordedIs DEF Held
  <2>2. \A p \in Parts : p \in del'[e].ids <=> posted'[e][p] = 1
    BY <1>1, <1>2, <1>3, <1>5, <2>1 DEF RowOK
  <2>3. RowOK(e)'
    BY <1>1, <1>4, <1>5, <2>1, <2>2 DEF RowOK
  <2>4. SenderOK(t, e)'
    <3>1. pc'[t] \in {"stopped", NextPart(del'[e].ids)}
      BY <1>1, <1>7, <2>1 DEF Stops, Goes, TypeOK
    <3>2. CASE pc'[t] = "stopped"
      BY <1>4, <2>1, <3>2 DEF SenderOK, Parts, Checkpoint
    <3>3. CASE pc'[t] = NextPart(del'[e].ids)
      <4>1. ASSUME NEW p \in Parts, pc'[t] = p PROVE posted'[e][p] = 0
        <5>1. p \notin del'[e].ids
          BY <3>3, <4>1, NextPartFits
        <5>2. posted[e][p] \in {0, 1}
          BY <1>1 DEF RowOK
        <5>3. QED
          BY <1>5, <2>2, <5>1, <5>2
      <4>2. \A p \in Parts : pc'[t] # Checkpoint(p)
        BY <3>3, NextPartFits DEF Parts, Checkpoint
      <4>3. pc'[t] \in {"label", "labelCp"} => "content" \in del'[e].ids
        BY <3>3, NextPartFits
      <4>4. QED
        BY <1>4, <2>1, <4>1, <4>2, <4>3 DEF SenderOK
    <3>4. QED
      BY <3>1, <3>2, <3>3
  <2>5. QED
    BY <2>3, <2>4, MineSafe
<1>8. QED
  BY <1>6, <1>7 DEF RecordSent

LEMMA CompleteSafe ==
  ASSUME IInv, NEW t \in Tasks, Complete(t), NEW e \in Enquiries, e = cur[t],
         \A u \in Tasks : Sender(u, e)' => u = t
  PROVE  SafeAt(e)'
<1>1. TypeOK /\ SafeAt(e) /\ Sender(t, e) /\ pc[t] = "complete"
  BY DEF IInv, Complete, Sender, Sending
<1>2. /\ SenderOK(t, e)
      /\ \A p \in Parts : posted[e][p] = 1 => p \in del[e].ids \/ del[e].status = "gone"
  BY <1>1, SenderRow, CheckpointIs
<1>3. del[e].status \in {"processing", "gone"} /\ del[e].attempts > 0
  BY <1>1, <1>2 DEF SenderOK
<1>4. posted' = posted /\ pc'[t] \in {"next", "stopped"}
  BY <1>1 DEF Complete, Skips, Stops, Goes, TypeOK
<1>5. /\ del'[e].status \in {"processing", "gone", "content_sent"}
      /\ del'[e].ids = del[e].ids /\ del'[e].attempts = del[e].attempts
      /\ del[e].status = "gone" => del'[e].status = "gone"
  <2>1. CASE del' = del
    BY <1>3, <2>1
  <2>2. CASE Held(t) /\ del' = [del EXCEPT ![e].status = "content_sent"]
    <3>1. del'[e] = [del[e] EXCEPT !.status = "content_sent"] /\ del[e].status = "processing"
      BY <1>1, <2>2 DEF Held, TypeOK
    <3>2. QED
      BY <1>1, <3>1, StatusSet DEF Status
  <2>3. QED
    BY <2>1, <2>2 DEF Complete
<1>6. RowOK(e)'
  BY <1>1, <1>2, <1>4, <1>5, RowKept DEF Loose
<1>7. Sender(t, e)' => SenderOK(t, e)'
  BY <1>3, <1>4, <1>5 DEF Sender, Sending, SenderOK, Parts, Checkpoint
<1>8. QED
  BY <1>6, <1>7, MineSafe

(* A request leaves its delivery, sent and unrecorded or not.              *)
LEMMA LeavesSafe ==
  ASSUME IInv, NEW t \in Tasks, SendStops(t) \/ Kill(t), pc[t] \in Sending,
         NEW e \in Enquiries, e = cur[t],
         \A u \in Tasks : Sender(u, e)' => u = t
  PROVE  SafeAt(e)'
<1>1. TypeOK /\ AtHand /\ SafeAt(e) /\ Sender(t, e) /\ RowOK(e) /\ SharedOK
  BY TypeSplit DEF IInv, Sender, SafeAt
<1>2. pc'[t] \notin Sending
  BY <1>1 DEF SendStops, Kill, Skips, Returns, Turns, Goes, TypeOK, Sending
<1>3. /\ \A u \in Tasks : ~Sender(u, e)'
      /\ SenderOK(t, e)
  BY <1>1, <1>2 DEF Sender, SafeAt
<1>4. ASSUME NEW p \in Parts, Loose(e, p), del'[e].status = del[e].status PROVE Loose(e, p)'
  BY <1>3, <1>4 DEF Loose
<1>5. CASE del' = del /\ posted' = posted
  <2>1. RowOK(e)'
    BY <1>1, <1>4, <1>5 DEF RowOK
  <2>2. QED
    BY <1>3, <2>1 DEF SafeAt
<1>6. CASE SendStops(t) /\ Held(t) /\ del' = [del EXCEPT ![e].status = verdict[t]]
  <2>1. pc[t] = "stopped" /\ verdict[t] \in Stopping /\ posted' = posted
        /\ del[e].status = "processing"
    BY <1>1, <1>6 DEF SendStops, AtHand, AtHandOf, Held
  <2>2. del'[e] = [del[e] EXCEPT !.status = verdict[t]] /\ verdict[t] \in Status
    BY <1>1, <1>6, <2>1 DEF TypeOK, Stopping, Status
  <2>3. /\ del'[e].status = verdict[t] /\ del'[e].ids = del[e].ids
        /\ del'[e].attempts = del[e].attempts
    BY <1>1, <2>2, StatusSet
  <2>4. \A p \in Parts : posted[e][p] = 1 => p \in del[e].ids \/ verdict[t] = "manual_review"
    BY <1>1, <2>1, SenderRow DEF Parts, Checkpoint
  <2>5. RowOK(e)'
    BY <1>1, <2>1, <2>3, <2>4, RowKept DEF Loose, Stopping
  <2>6. QED
    BY <1>3, <2>5 DEF SafeAt
<1>7. CASE del' = del /\ pc[t] \in Parts /\ Sends(t, pc[t])
  <2> DEFINE part == pc[t]
  <2>1. /\ del[e].status \in {"processing", "gone"} /\ del[e].attempts > 0
        /\ posted[e][part] = 0
        /\ part = "label" => "content" \in del[e].ids
    BY <1>3, <1>7 DEF SenderOK, Parts
  <2>2. /\ posted'[e][part] = 1
        /\ \A p \in Parts : p # part => posted'[e][p] = posted[e][p]
    BY <1>1, <1>7, <2>1, SendsIs
  <2>3. \A p \in Parts : Loose(e, p)'
    BY <1>3, <1>7, <2>1 DEF Loose
  <2>4. \A p \in Parts : posted'[e][p] \in {0, 1} /\ (p \in del[e].ids => posted'[e][p] = 1)
    BY <1>1, <2>2 DEF RowOK
  <2>5. posted'[e]["label"] = 1 => "content" \in del[e].ids
    BY <1>1, <2>1, <2>2 DEF RowOK, Parts
  <2>6. RowOK(e)'
    BY <1>1, <1>7, <2>3, <2>4, <2>5 DEF RowOK
  <2>7. QED
    BY <1>3, <2>6 DEF SafeAt
<1>8. QED
  BY <1>5, <1>6, <1>7 DEF SendStops, Kill

LEMMA DeliversSafe ==
  ASSUME IInv, NEW t \in Tasks, Delivers(t), NEW e \in Enquiries
  PROVE  SafeAt(e)'
<1>1. TypeOK /\ AtHand /\ SafeAt(e) /\ Alone(t) /\ SharedOK
  BY DeliversAlone, TypeSplit DEF IInv
<1>2. cur'[t] = cur[t] \/ pc'[t] \notin Sending
  BY <1>1 DEF Delivers, Complete, SendStops, Kill, Send, RecordSent, Returns, Turns, Skips, Stops,
              Goes, Sending, TypeOK
<1>3. pc[t] \in Sending \/ Kill(t)
  BY CheckpointIs DEF Delivers, Complete, SendStops, Send, RecordSent, Sending, Parts
<1>4. CASE e # cur[t]
  <2>1. SameSenders(e)
    BY <1>1, <1>2, <1>4, OtherSenders
  <2>2. cur[t] \in Enquiries => del'[e] = del[e] /\ posted'[e] = posted[e]
    <3>1. ASSUME NEW part \in Parts, Sends(t, part), cur[t] \in Enquiries
          PROVE  posted'[e] = posted[e]
      BY <1>1, <1>4, <3>1, SendsIs
    <3>2. ASSUME NEW part \in Parts, del' = Recorded(t, part), cur[t] \in Enquiries
          PROVE  del'[e] = del[e]
      BY <1>1, <1>4, <3>2, RecordedIs
    <3>3. ASSUME NEW s, del' = [del EXCEPT ![cur[t]].status = s] PROVE del'[e] = del[e]
      BY <1>1, <1>4, <3>3 DEF TypeOK
    <3>4. QED
      BY <3>1, <3>2, <3>3 DEF Delivers, Complete, SendStops, Kill, Send, RecordSent
  <2>3. cur[t] \notin Enquiries => del'[e] = del[e] /\ posted'[e] = posted[e]
    BY <1>1, <1>3 DEF AtHand, AtHandOf, Kill, Parts, Sending
  <2>4. QED
    BY <1>1, <2>1, <2>2, <2>3, KeptSafe DEF Kept
<1>5. CASE pc[t] \notin Sending
  <2>1. del' = del /\ posted' = posted /\ pc'[t] \notin Sending
    BY <1>1, <1>3, <1>5 DEF Kill, Returns, Turns, Goes, Sending, Parts, TypeOK
  <2>2. QED
    BY <1>1, <2>1, AsideSenders, KeptSafe DEF Kept
<1>6. CASE e = cur[t] /\ pc[t] \in Sending
  <2>1. \A u \in Tasks : Sender(u, e)' => u = t
    BY <1>1, <1>6 DEF Alone, Sender, SafeAt
  <2>2. QED
    BY <1>6, <2>1, SendSafe, RecordSafe, CompleteSafe, LeavesSafe DEF Delivers
<1>7. QED
  BY <1>4, <1>5, <1>6
-----------------------------------------------------------------------------
(* The inductive invariant. *)

LEMMA InitIInv == Init => IInv
<1> SUFFICES ASSUME Init PROVE IInv
  OBVIOUS
<1>1. TypeOK
  <2>1. SharedOK
    <3>1. [status |-> "absent", attempts |-> 0, ids |-> {}] \in Delivery
      BY DEF Delivery, Status
    <3>2. posted \in [Enquiries -> [Parts -> Nat]]
      <4>1. [p \in Parts |-> 0] \in [Parts -> Nat]
        OBVIOUS
      <4>2. QED
        BY <4>1 DEF Init
    <3>3. mode \in Mode /\ del \in [Enquiries -> Delivery]
      BY <3>1, OffType DEF Init
    <3>4. offered \in BOOLEAN
      BY DEF Init
    <3>5. faults \in 0..MaxFaults
      BY MobileAssumption DEF Init
    <3>6. QED
      BY <3>2, <3>3, <3>4, <3>5 DEF SharedOK
  <2>2. LocalsOK
    BY PCIs, UnreadType DEF Init, LocalsOK, Token
  <2>3. QED
    BY <2>1, <2>2, TypeSplit
<1>2. AtHand /\ \A t \in Tasks, e \in Enquiries : ~Sender(t, e)
  BY DEF Init, AtHand, AtHandOf, Sender, Sending
<1>3. ASSUME NEW e \in Enquiries PROVE RowOK(e)
  BY DEF Init, RowOK, Parts
<1>4. QED
  BY <1>1, <1>2, <1>3 DEF IInv, SafeAt

LEMMA NextIs ==
  Next => Outside \/ \E t \in Tasks : Front(t) \/ Prompts(t) \/ Selects(t) \/ Delivers(t)
  BY DEF Next, Step, Outside, Front, Prompts, Selects, Delivers

LEMMA StepIInv == IInv /\ [Next]_vars => IInv'
<1>1. ASSUME IInv, Outside PROVE IInv'
  <2>1. TypeOK' /\ \A e \in Enquiries : SafeAt(e)'
    BY <1>1, OutsideType, OutsideSafe DEF IInv
  <2>2. AtHand'
    <3>1. CASE \E t \in Tasks : Starts(t)
      BY <1>1, <3>1, StartsAlone, StartsAtHand, AloneAtHand DEF IInv
    <3>2. CASE SwitchOn \/ ModeLapses \/ WindowCloses \/ \E e \in Enquiries : Cancel(e)
      BY <1>1, <3>2 DEF SwitchOn, ModeLapses, WindowCloses, Cancel, locals, IInv, AtHand, AtHandOf
    <3>3. QED
      BY <1>1, <3>1, <3>2 DEF Outside, Starts
  <2>3. QED
    BY <2>1, <2>2 DEF IInv
<1>2. ASSUME IInv, NEW t \in Tasks, Front(t) PROVE IInv'
  BY <1>2, FrontType, FrontAlone, FrontAtHand, AloneAtHand, FrontSafe DEF IInv
<1>3. ASSUME IInv, NEW t \in Tasks, Prompts(t) PROVE IInv'
  BY <1>3, PromptsType, PromptsAlone, PromptsAtHand, AloneAtHand, PromptsSafe DEF IInv
<1>4. ASSUME IInv, NEW t \in Tasks, Selects(t) PROVE IInv'
  BY <1>4, SelectsType, SelectsAlone, SelectsAtHand, AloneAtHand, SelectsSafe DEF IInv
<1>5. ASSUME IInv, NEW t \in Tasks, Delivers(t) PROVE IInv'
  BY <1>5, DeliversType, DeliversAlone, DeliversAtHand, AloneAtHand, DeliversSafe DEF IInv
<1>6. ASSUME IInv, UNCHANGED vars PROVE IInv'
  BY <1>6 DEF vars, shared, locals, IInv, TypeOK, AtHand, AtHandOf, SafeAt, Sender, SenderOK,
              RowOK, Loose
<1>7. QED
  BY <1>1, <1>2, <1>3, <1>4, <1>5, <1>6, NextIs

(* The variables of SpcMobileDelivery have their types in every reachable  *)
(* state.                                                                  *)
THEOREM TypeCorrect == Spec => []TypeOK
<1>1. IInv => TypeOK
  BY DEF IInv
<1>2. QED
  BY <1>1, InitIInv, StepIInv, PTL DEF Spec

(* Whoever sends holds the row, and a part that was accepted is recorded,  *)
(* about to be recorded by the one who sent it, or out of reach.           *)
THEOREM Invariance == Spec => []IInv
  BY InitIInv, StepIInv, PTL DEF Spec

(* A claim compares a status that can come back, and still no two requests *)
(* send one delivery: a status that can be claimed has no sender left.     *)
THEOREM OneSenderAlways == Spec => []OneSender
<1>1. ASSUME IInv PROVE OneSender
  <2>1. ASSUME NEW s \in Tasks, NEW t \in Tasks,
               pc[s] \in Sending, pc[t] \in Sending, cur[s] = cur[t]
        PROVE  s = t
    <3>1. cur[s] \in Enquiries
      BY <1>1, <2>1 DEF IInv, AtHand, AtHandOf
    <3>2. QED
      BY <1>1, <2>1, <3>1 DEF IInv, SafeAt, Sender
  <2>2. QED
    BY <2>1 DEF OneSender
<1>2. QED
  BY <1>1, Invariance, PTL

(* Whichever requests resume a delivery, and wherever one of them stopped, *)
(* its label is sent only when its content was.                            *)
THEOREM LabelFollowsContentAlways == Spec => []LabelFollowsContent
<1>1. ASSUME IInv, NEW e \in Enquiries PROVE posted[e]["content"] >= posted[e]["label"]
  <2>1. RowOK(e) /\ "content" \in Parts /\ "label" \in Parts
    BY <1>1 DEF IInv, SafeAt, Parts
  <2>2. posted[e]["content"] \in {0, 1} /\ posted[e]["label"] \in {0, 1}
        /\ (posted[e]["label"] = 1 => posted[e]["content"] = 1)
    BY <2>1 DEF RowOK
  <2>3. QED
    BY <2>2
<1>2. IInv => LabelFollowsContent
  BY <1>1 DEF LabelFollowsContent
<1>3. QED
  BY <1>2, Invariance, PTL
-----------------------------------------------------------------------------
(* The refinement. *)

PhaseOf(d, p) ==
  IF d.status = "absent" THEN "none"
  ELSE IF d.status = "gone" THEN "withdrawn"
  ELSE IF p \in d.ids THEN "confirmed"
  ELSE IF d.status = "expired" THEN "withdrawn"
  ELSE IF d.status \in {"manual_review", "content_sent"} THEN "review" ELSE "open"

ByCases(d, p) ==
  CASE d.status = "absent" -> "none"
    [] d.status = "gone" -> "withdrawn"
    [] d.status \notin {"absent", "gone"} /\ p \in d.ids -> "confirmed"
    [] d.status \in {"queued", "acknowledged", "failed", "processing"} /\ p \notin d.ids -> "open"
    [] d.status \in {"manual_review", "content_sent"} /\ p \notin d.ids -> "review"
    [] d.status = "expired" /\ p \notin d.ids -> "withdrawn"

LEMMA PhaseIs ==
  /\ TypeOK => Phase = [m \in Messages |-> PhaseOf(del[m[1]], m[2])]
  /\ TypeOK' => Phase' = [m \in Messages |-> PhaseOf(del'[m[1]], m[2])]
<1>1. ASSUME NEW d, d.status \in Status, NEW p PROVE ByCases(d, p) = PhaseOf(d, p)
  BY <1>1 DEF ByCases, PhaseOf, Status
<1>2. ASSUME NEW rows \in [Enquiries -> Delivery]
      PROVE  \A m \in Messages : ByCases(rows[m[1]], m[2]) = PhaseOf(rows[m[1]], m[2])
  BY <1>1 DEF Messages, Delivery
<1>3. /\ Phase = [m \in Messages |-> ByCases(del[m[1]], m[2])]
      /\ Phase' = [m \in Messages |-> ByCases(del'[m[1]], m[2])]
  BY DEF Phase, ByCases
<1>4. QED
  BY <1>2, <1>3 DEF TypeOK

(* The state of the contract. *)
Granted == {m \in Messages : del[m[1]].attempts > 0}
Posted  == [m \in Messages |-> posted[m[1]][m[2]]]

ContractStep == Contract!Next \/ UNCHANGED <<Phase, Granted, Posted>>

(* Only statuses change, and with them the phases in one direction.        *)
LEMMA MovesStep ==
  ASSUME TypeOK, TypeOK', posted' = posted, NEW from, NEW to,
         \A e \in Enquiries : del'[e].attempts = del[e].attempts,
         \A e \in Enquiries, p \in Parts :
           \/ PhaseOf(del'[e], p) = PhaseOf(del[e], p)
           \/ PhaseOf(del[e], p) \in from /\ PhaseOf(del'[e], p) = to
  PROVE  Contract!Moves(from, to)
<1>1. \A m \in Messages : Phase'[m] = Phase[m] \/ (Phase[m] \in from /\ Phase'[m] = to)
  BY PhaseIs DEF Messages
<1>2. Phase' \in [Messages -> Contract!Phases]
  BY PhaseIs DEF PhaseOf, Contract!Phases
<1>3. Granted' = Granted /\ Posted' = Posted
  BY DEF Granted, Posted, Messages
<1>4. QED
  BY <1>1, <1>2, <1>3 DEF Contract!Moves, Granted, Posted

LEMMA StutterStep == ASSUME del' = del, posted' = posted PROVE UNCHANGED <<Phase, Granted, Posted>>
  BY DEF Phase, Granted, Posted

(* Statuses change, and with them phases, in one direction.                *)
Restates(e, was, is) ==
  \/ del'[e] = del[e]
  \/ /\ del[e].status \in was /\ del'[e].status = is
     /\ del'[e].ids = del[e].ids /\ del'[e].attempts = del[e].attempts

Untried == {"queued", "acknowledged", "failed"}

LEMMA RestatesStep ==
  ASSUME TypeOK, TypeOK', posted' = posted, NEW was, NEW is,
         \/ is = "gone"
         \/ was = Untried /\ is = "expired"
         \/ was \subseteq Untried \cup {"processing"} /\ is \in Untried
         \/ was = {"processing"} /\ is \in {"content_sent", "manual_review"}
         \/ /\ was = {"absent"} /\ is \in Untried
            /\ \A e \in Enquiries : del[e].status = "absent" => del[e].ids = {},
         \A e \in Enquiries : Restates(e, was, is)
  PROVE  ContractStep
<1>1. \A e \in Enquiries : del'[e].attempts = del[e].attempts
  BY DEF Restates
<1>2. ASSUME NEW from, NEW to,
             \A e \in Enquiries, p \in Parts : del'[e] # del[e] =>
               \/ PhaseOf(del'[e], p) = PhaseOf(del[e], p)
               \/ PhaseOf(del[e], p) \in from /\ PhaseOf(del'[e], p) = to
      PROVE  Contract!Moves(from, to)
  BY <1>1, <1>2, MovesStep
<1>3. CASE is = "gone" \/ (was = Untried /\ is = "expired")
  <2>1. ASSUME NEW e \in Enquiries, NEW p \in Parts, del'[e] # del[e]
        PROVE  \/ PhaseOf(del'[e], p) = PhaseOf(del[e], p)
               \/ /\ PhaseOf(del[e], p) \in {"none", "open", "confirmed", "review"}
                  /\ PhaseOf(del'[e], p) = "withdrawn"
    BY <1>3, <2>1 DEF Restates, PhaseOf, Untried
  <2>2. Contract!Withdraw
    BY <1>2, <2>1 DEF Contract!Withdraw
  <2>3. QED
    BY <2>2 DEF ContractStep, Contract!Next
<1>4. CASE /\ was = {"absent"} /\ is \in Untried
           /\ \A e \in Enquiries : del[e].status = "absent" => del[e].ids = {}
  <2>1. ASSUME NEW e \in Enquiries, NEW p \in Parts, del'[e] # del[e]
        PROVE  PhaseOf(del[e], p) = "none" /\ PhaseOf(del'[e], p) = "open"
    BY <1>4, <2>1 DEF Restates, PhaseOf, Untried
  <2>2. Contract!Ask
    BY <1>2, <2>1 DEF Contract!Ask
  <2>3. QED
    BY <2>2 DEF ContractStep, Contract!Next
<1>5. CASE \/ was = {"processing"} /\ is \in {"content_sent", "manual_review"}
           \/ was \subseteq Untried \cup {"processing"} /\ is \in Untried
  <2>1. ASSUME NEW e \in Enquiries, NEW p \in Parts, del'[e] # del[e]
        PROVE  \/ PhaseOf(del'[e], p) = PhaseOf(del[e], p)
               \/ PhaseOf(del[e], p) = "open" /\ PhaseOf(del'[e], p) = "review"
    BY <1>5, <2>1 DEF Restates, PhaseOf, Untried
  <2>2. Contract!Review
    BY <1>2, <2>1 DEF Contract!Review
  <2>3. QED
    BY <2>2 DEF ContractStep, Contract!Next
<1>6. QED
  BY <1>3, <1>4, <1>5

(* Claiming a delivery permits its messages to be sent.                    *)
LEMMA ClaimStep == ASSUME IInv, TypeOK', NEW t \in Tasks, Claim(t) PROVE ContractStep
<1>1. /\ TypeOK /\ SharedOK /\ LocalsOK /\ cur[t] \in Enquiries /\ posted' = posted
      /\ batch[t][cur[t]].status # "absent" /\ batch[t][cur[t]] \in Snapshot
      /\ RowOK(cur[t])
  BY TypeSplit DEF IInv, Claim, AtHand, AtHandOf, SafeAt, TypeOK
<1>2. CASE del' = del
  BY <1>1, <1>2, StutterStep DEF ContractStep
<1>3. CASE StillAsRead(t) /\ del' = Claimed(t)
  <2> DEFINE c == cur[t]
  <2>1. /\ del[c].status \in {"queued", "failed", "acknowledged"}
        /\ del'[c].status = "processing" /\ del'[c].attempts > 0 /\ del'[c].ids = del[c].ids
        /\ \A e \in Enquiries : e # c => del'[e] = del[e]
    BY <1>1, <1>3, ClaimedIs DEF StillAsRead, Snapshot
  <2>2. ASSUME NEW e \in Enquiries, NEW p \in Parts
        PROVE  PhaseOf(del'[e], p) = PhaseOf(del[e], p)
    BY <2>1 DEF PhaseOf
  <2>3. Phase' = Phase
    BY <1>1, <2>2, PhaseIs DEF Messages
  <2>4. Posted' = Posted
    BY <1>1 DEF Posted
  <2>5. Granted \subseteq Granted' /\ Granted' \subseteq Messages
    BY <2>1 DEF Granted, Messages
  <2>6. ASSUME NEW m \in Granted' \ Granted PROVE Phase[m] = "open"
    <3>1. m \in Messages /\ m[1] = c /\ del[c].attempts = 0
      <4>1. m \in Messages /\ ~(del[m[1]].attempts > 0) /\ del'[m[1]].attempts > 0
        BY <2>6 DEF Granted
      <4>2. m[1] = c
        BY <2>1, <4>1 DEF Messages
      <4>3. del[c].attempts \in Nat
        BY <1>1 DEF TypeOK, Delivery
      <4>4. QED
        BY <4>1, <4>2, <4>3
    <3>2. del[c].ids = {}
      BY <1>1, <3>1 DEF RowOK
    <3>3. Phase[m] = PhaseOf(del[c], m[2])
      BY <1>1, <3>1, PhaseIs
    <3>4. QED
      BY <2>1, <3>2, <3>3 DEF PhaseOf
  <2>7. Contract!Grant
    BY <2>3, <2>4, <2>5, <2>6 DEF Contract!Grant, Granted, Posted
  <2>8. QED
    BY <2>7 DEF ContractStep, Contract!Next
<1>4. QED
  BY <1>2, <1>3 DEF Claim

(* A message is sent by someone who may, and for the first time.           *)
LEMMA PostStep ==
  ASSUME IInv, TypeOK', NEW t \in Tasks, NEW part \in Parts, pc[t] = part,
         Sends(t, part), del' = del
  PROVE  ContractStep
<1>1. TypeOK /\ SharedOK /\ cur[t] \in Enquiries /\ Sender(t, cur[t])
  BY TypeSplit DEF IInv, AtHand, AtHandOf, Sending, Parts, Sender
<1>2. SenderOK(t, cur[t]) /\ RowOK(cur[t])
  BY <1>1 DEF IInv, SafeAt
<1>3. /\ del[cur[t]].status \in {"processing", "gone"} /\ del[cur[t]].attempts > 0
      /\ posted[cur[t]][part] = 0 /\ part \notin del[cur[t]].ids
  BY <1>2 DEF SenderOK, RowOK, Parts
<1>4. <<cur[t], part>> \in Messages
  BY <1>1 DEF Messages
<1>5. Phase[<<cur[t], part>>] \in {"open", "withdrawn"}
  BY <1>1, <1>3, <1>4, PhaseIs DEF PhaseOf
<1>6. <<cur[t], part>> \in Granted /\ Posted[<<cur[t], part>>] = 0
  BY <1>3, <1>4 DEF Granted, Posted
<1>7. Phase' = Phase /\ Granted' = Granted
  BY DEF Phase, Granted
<1>8. Posted' = [Posted EXCEPT ![<<cur[t], part>>] = 1]
  <2>1. ASSUME NEW e \in Enquiries, NEW p \in Parts
        PROVE  posted'[e][p] = IF <<e, p>> = <<cur[t], part>> THEN 1 ELSE posted[e][p]
    BY <1>1, <1>3, SendsIs
  <2>2. ASSUME NEW m \in Messages
        PROVE  Posted'[m] = IF m = <<cur[t], part>> THEN 1 ELSE Posted[m]
    <3>1. PICK e \in Enquiries, p \in Parts : m = <<e, p>>
      BY <2>2 DEF Messages
    <3>2. Posted'[m] = posted'[e][p] /\ Posted[m] = posted[e][p]
      BY <2>2, <3>1 DEF Posted
    <3>3. QED
      BY <2>1, <3>1, <3>2
  <2>3. Posted' = [m \in Messages |-> Posted'[m]] /\ Posted = [m \in Messages |-> Posted[m]]
    BY DEF Posted
  <2>4. QED
    BY <1>4, <2>2, <2>3
<1>9. ASSUME NEW m \in Messages, m = <<cur[t], part>> PROVE ContractStep
  <2>1. Contract!Post(m)
    BY <1>5, <1>6, <1>7, <1>8, <1>9 DEF Contract!Post, Granted, Posted
  <2>2. QED
    BY <2>1 DEF ContractStep, Contract!Next
<1>10. QED
  BY <1>4, <1>9

(* A message id is recorded of what was sent and is still open.            *)
LEMMA ConfirmStep ==
  ASSUME IInv, TypeOK', NEW t \in Tasks, NEW part \in Parts, pc[t] = Checkpoint(part),
         Held(t), del' = Recorded(t, part), posted' = posted
  PROVE  ContractStep
<1>1. TypeOK /\ SharedOK /\ cur[t] \in Enquiries /\ Sender(t, cur[t])
  BY TypeSplit, CheckpointIs DEF IInv, AtHand, AtHandOf, Sending, Sender
<1>2. posted[cur[t]][part] = 1 /\ part \notin del[cur[t]].ids
      /\ del[cur[t]].status = "processing"
  BY <1>1 DEF IInv, SafeAt, SenderOK, Held
<1>3. <<cur[t], part>> \in Messages
  BY <1>1 DEF Messages
<1>4. Phase[<<cur[t], part>>] = "open" /\ Posted[<<cur[t], part>>] = 1
  BY <1>1, <1>2, <1>3, PhaseIs DEF PhaseOf, Posted
<1>5. ASSUME NEW e \in Enquiries, NEW p \in Parts
      PROVE  PhaseOf(del'[e], p) = IF <<e, p>> = <<cur[t], part>> THEN "confirmed"
                                   ELSE PhaseOf(del[e], p)
  BY <1>1, <1>2, RecordedIs DEF PhaseOf
<1>6. Phase' = [Phase EXCEPT ![<<cur[t], part>>] = "confirmed"]
  BY <1>1, <1>3, <1>5, PhaseIs DEF Messages
<1>7. Posted' = Posted /\ Granted' = Granted
  BY <1>1, RecordedIs DEF Posted, Granted, Messages
<1>8. Contract!Confirm(<<cur[t], part>>)
  BY <1>4, <1>6, <1>7 DEF Contract!Confirm, Granted, Posted
<1>9. QED
  BY <1>3, <1>8 DEF ContractStep, Contract!Next

LEMMA StepMaps == ASSUME IInv, TypeOK', Next PROVE ContractStep
<1>1. TypeOK /\ AtHand
  BY DEF IInv
<1>2. CASE del' = del /\ posted' = posted
  BY <1>2, StutterStep DEF ContractStep
<1>3. ASSUME NEW e \in Enquiries, NEW was, NEW is \in Status, posted' = posted,
             del[e].status \in was, del' = [del EXCEPT ![e].status = is]
      PROVE  \A k \in Enquiries : Restates(k, was, is)
  <2>1. \A k \in Enquiries : k # e => del'[k] = del[k]
    BY <1>1, <1>3 DEF TypeOK
  <2>2. del'[e] = [del[e] EXCEPT !.status = is]
    BY <1>1, <1>3 DEF TypeOK
  <2>3. QED
    BY <1>1, <1>3, <2>1, <2>2, StatusSet DEF Restates
<1>4. CASE Outside
  <2>1. ASSUME NEW e \in Enquiries, Cancel(e) PROVE ContractStep
    <3>1. \A k \in Enquiries : Restates(k, Status, "gone")
      BY <1>1, <1>3, <2>1 DEF Cancel, Status, TypeOK, Delivery
    <3>2. QED
      BY <1>1, <2>1, <3>1, RestatesStep DEF Cancel
  <2>2. QED
    BY <1>2, <1>4, <2>1
       DEF Outside, SwitchOn, ModeLapses, WindowCloses, SwitchOff, CronRuns, Enquire, Answer,
           shared
<1>5. ASSUME NEW t \in Tasks, Front(t) PROVE ContractStep
  <2>1. CASE ExpireRows(t)
    <3>1. \A e \in Enquiries : Restates(e, Untried, "expired")
      <4>1. ASSUME NEW e \in Enquiries PROVE Restates(e, Untried, "expired")
        <5>1. CASE Open(e)
          <6>1. del'[e] = [del[e] EXCEPT !.status = "expired"]
            BY <2>1, <5>1 DEF ExpireRows
          <6>2. QED
            BY <1>1, <5>1, <6>1, StatusSet DEF Restates, Status, Open, Untried
        <5>2. CASE ~Open(e)
          BY <2>1, <5>2 DEF ExpireRows, Restates
        <5>3. QED
          BY <5>1, <5>2
      <4>2. QED
        BY <4>1
    <3>2. QED
      BY <1>1, <2>1, <3>1, RestatesStep DEF ExpireRows
  <2>2. CASE AckRows(t) /\ del' # del
    <3>1. ASSUME NEW e \in Enquiries PROVE Restates(e, {"queued", "failed"}, "acknowledged")
      <4>1. CASE del[e].status \in {"queued", "failed"}
        <5>1. del'[e] = [del[e] EXCEPT !.status = "acknowledged"]
          BY <2>2, <4>1 DEF AckRows
        <5>2. QED
          BY <1>1, <4>1, <5>1, StatusSet DEF Restates, Status
      <4>2. CASE del[e].status \notin {"queued", "failed"}
        BY <2>2, <4>2 DEF AckRows, Restates
      <4>3. QED
        BY <4>1, <4>2
    <3>2. QED
      BY <1>1, <2>2, <3>1, RestatesStep DEF AckRows, Untried
  <2>3. CASE Insert(t) /\ del' # del
    <3>1. /\ cur[t] \in Enquiries /\ verdict[t] \in Untried /\ verdict[t] \in Status
          /\ del[cur[t]].status = "absent" /\ posted' = posted
          /\ del' = [del EXCEPT ![cur[t]].status = verdict[t]]
      BY <1>1, <2>3 DEF Insert, AtHand, AtHandOf, Untried, Status
    <3>2. \A e \in Enquiries : Restates(e, {"absent"}, verdict[t])
      BY <1>3, <3>1
    <3>3. \A e \in Enquiries : del[e].status = "absent" => del[e].ids = {}
      BY DEF IInv, SafeAt, RowOK
    <3>4. QED
      BY <1>1, <3>1, <3>2, <3>3, RestatesStep
  <2>4. QED
    BY <1>2, <1>5, <2>1, <2>2, <2>3
       DEF Front, Expire, Lookup, Insert, Find, OpenWindow, AckRows, OpenWindowLegacy, shared
<1>6. ASSUME NEW t \in Tasks, Prompts(t) PROVE ContractStep
  <2>1. CASE Sweep(t)
    <3>1. ASSUME NEW e \in Enquiries PROVE Restates(e, {"processing"}, "manual_review")
      <4>1. CASE del'[e] = del[e]
        BY <4>1 DEF Restates
      <4>2. CASE del'[e] # del[e]
        <5>1. del'[e] = [del[e] EXCEPT !.status = "manual_review"] /\ ClaimIsOld(e)
          BY <2>1, <4>2 DEF Sweep, OldClaim
        <5>2. QED
          BY <1>1, <5>1, StatusSet DEF Restates, Status, ClaimIsOld
      <4>3. QED
        BY <4>1, <4>2
    <3>2. QED
      BY <1>1, <2>1, <3>1, RestatesStep DEF Sweep
  <2>2. QED
    BY <1>2, <1>6, <2>1
       DEF Prompts, SelectMode, ClaimMode, SendPrompt, CheckpointPrompt, PromptStops, shared
<1>7. ASSUME NEW t \in Tasks, Selects(t) PROVE ContractStep
  BY <1>2, <1>7, ClaimStep DEF Selects, Select, BatchDone, Requeue, ReadMode, shared
<1>8. ASSUME NEW t \in Tasks, Delivers(t) PROVE ContractStep
  <2>1. CASE Complete(t) /\ del' # del
    <3>1. /\ cur[t] \in Enquiries /\ del[cur[t]].status \in {"processing"} /\ posted' = posted
          /\ del' = [del EXCEPT ![cur[t]].status = "content_sent"]
      BY <1>1, <2>1 DEF Complete, Held, AtHand, AtHandOf, Sending
    <3>2. \A e \in Enquiries : Restates(e, {"processing"}, "content_sent")
      BY <1>3, <3>1 DEF Status
    <3>3. QED
      BY <1>1, <3>1, <3>2, RestatesStep
  <2>2. CASE SendStops(t) /\ del' # del
    <3>1. /\ cur[t] \in Enquiries /\ del[cur[t]].status \in {"processing"} /\ posted' = posted
          /\ verdict[t] \in Stopping
          /\ del' = [del EXCEPT ![cur[t]].status = verdict[t]]
      BY <1>1, <2>2 DEF SendStops, Held, AtHand, AtHandOf, Sending
    <3>2. \A e \in Enquiries : Restates(e, {"processing"}, verdict[t])
      BY <1>3, <3>1 DEF Status, Stopping
    <3>3. QED
      BY <1>1, <3>1, <3>2, RestatesStep DEF Stopping, Untried
  <2>3. CASE Kill(t) /\ ~(posted' = posted)
    BY <2>3, PostStep DEF Kill
  <2>4. ASSUME NEW part \in Parts, Send(t, part) PROVE ContractStep
    BY <1>2, <2>4, PostStep DEF Send
  <2>5. ASSUME NEW part \in Parts, RecordSent(t, part) PROVE ContractStep
    BY <1>2, <2>5, ConfirmStep DEF RecordSent
  <2>6. QED
    BY <1>2, <1>8, <2>1, <2>2, <2>3, <2>4, <2>5 DEF Delivers, Complete, SendStops, Kill
<1>9. QED
  BY <1>4, <1>5, <1>6, <1>7, <1>8, NextIs

(* The two messages of each delivery implement OneSubmission: sent at most *)
(* once, with a claim, and never again once they are with a person; their  *)
(* ids are recorded only if they were sent.                                *)
THEOREM DeliveryImplementsOneSubmission == Spec => ImplementsOneSubmission
<1>1. ASSUME Init PROVE Contract!Init
  <2>1. TypeOK
    BY <1>1, InitIInv DEF IInv
  <2>2. Phase = [m \in Messages |-> "none"]
    <3>1. \A e \in Enquiries : del[e].status = "absent" /\ del[e].attempts = 0
      BY <1>1 DEF Init
    <3>2. QED
      BY <2>1, <3>1, PhaseIs DEF PhaseOf, Messages
  <2>3. Granted = {} /\ Posted = [m \in Messages |-> 0]
    BY <1>1 DEF Init, Granted, Posted, Messages
  <2>4. QED
    BY <2>2, <2>3 DEF Contract!Init, Granted, Posted
<1>2. IInv /\ IInv' /\ [Next]_vars => [Contract!Next]_<<Phase, Granted, Posted>>
  <2>1. UNCHANGED vars => UNCHANGED <<Phase, Granted, Posted>>
    BY StutterStep DEF vars, shared
  <2>2. QED
    BY <2>1, StepMaps DEF ContractStep, IInv
<1>3. QED
  BY <1>1, <1>2, Invariance, PTL
     DEF Spec, ImplementsOneSubmission, Contract!Spec, Contract!vars, Granted, Posted


-----------------------------------------------------------------------------
(* A delivery that is complete is whole.                                   *)

CompletedIsWhole == \A e \in Enquiries : del[e].status = "content_sent" =>
  \A p \in Parts : p \in del[e].ids /\ posted[e][p] = 1

(* Who completes a delivery has the ids of both messages in its row.       *)
Whole == /\ \A t \in Tasks : pc[t] = "complete" => del[cur[t]].ids = Parts
         /\ \A e \in Enquiries : del[e].status = "content_sent" => del[e].ids = Parts

(* Ids are never dropped, and a row is completed by a request that is about *)
(* to do so.                                                               *)
RowOnward(e) ==
  /\ del[e].ids \subseteq del'[e].ids
  /\ del'[e].status = "content_sent" =>
       \/ del[e].status = "content_sent"
       \/ \E t \in Tasks : pc[t] = "complete" /\ cur[t] = e

(* A request goes on to complete a row when both ids are there.            *)
TaskOnward(t) == pc'[t] = "complete" =>
  \/ pc[t] = "complete" /\ cur'[t] = cur[t]
  \/ Parts \subseteq del'[cur'[t]].ids

LEMMA WholeKept ==
  ASSUME IInv, IInv', Whole, \A e \in Enquiries : RowOnward(e), \A t \in Tasks : TaskOnward(t)
  PROVE  Whole'
<1>1. \A e \in Enquiries : del'[e].ids \subseteq Parts
  BY DEF IInv, TypeOK, Delivery
<1>2. \A t \in Tasks : /\ pc[t] = "complete" => cur[t] \in Enquiries
                       /\ pc'[t] = "complete" => cur'[t] \in Enquiries
  BY DEF IInv, AtHand, AtHandOf, Sending
<1>3. ASSUME NEW t \in Tasks, pc'[t] = "complete" PROVE Parts \subseteq del'[cur'[t]].ids
  <2>1. CASE pc[t] = "complete" /\ cur'[t] = cur[t]
    BY <1>2, <2>1 DEF Whole, RowOnward
  <2>2. QED
    BY <1>3, <2>1 DEF TaskOnward
<1>4. ASSUME NEW e \in Enquiries, del'[e].status = "content_sent"
      PROVE  Parts \subseteq del'[e].ids
  BY <1>4 DEF Whole, RowOnward
<1>5. \A e \in Enquiries : Parts \subseteq del'[e].ids => del'[e].ids = Parts
  BY <1>1
<1>6. \A t \in Tasks : pc'[t] = "complete" => del'[cur'[t]].ids = Parts
  BY <1>2, <1>3, <1>5
<1>7. \A e \in Enquiries : del'[e].status = "content_sent" => del'[e].ids = Parts
  BY <1>4, <1>5
<1>8. Parts' = Parts
  BY DEF Parts
<1>9. QED
  BY <1>6, <1>7, <1>8 DEF Whole

(* Steps that leave the ids alone and complete nothing. *)
LEMMA RowStays ==
  ASSUME TypeOK, NEW e \in Enquiries,
         \/ del'[e] = del[e]
         \/ \E s \in Status \ {"content_sent"} : del'[e] = [del[e] EXCEPT !.status = s]
  PROVE  RowOnward(e)
<1>1. CASE del'[e] = del[e]
  BY <1>1 DEF RowOnward
<1>2. ASSUME NEW s \in Status \ {"content_sent"}, del'[e] = [del[e] EXCEPT !.status = s]
      PROVE  RowOnward(e)
  BY <1>2, StatusSet DEF RowOnward
<1>3. QED
  BY <1>1, <1>2

LEMMA OutsideWhole ==
  ASSUME IInv, Outside
  PROVE  (\A e \in Enquiries : RowOnward(e)) /\ \A t \in Tasks : TaskOnward(t)
<1>1. TypeOK
  BY DEF IInv
<1>2. ASSUME NEW e \in Enquiries PROVE RowOnward(e)
  <2>1. \/ del'[e] = del[e]
        \/ \E s \in Status \ {"content_sent"} : del'[e] = [del[e] EXCEPT !.status = s]
    <3>1. ASSUME NEW k \in Enquiries, Cancel(k)
          PROVE  del'[e] = del[e] \/ del'[e] = [del[e] EXCEPT !.status = "gone"]
      BY <1>1, <3>1 DEF Cancel, TypeOK
    <3>2. CASE ~\E k \in Enquiries : Cancel(k)
      BY <3>2 DEF Outside, SwitchOn, ModeLapses, WindowCloses, SwitchOff, CronRuns, Enquire,
                  Answer, shared
    <3>3. "gone" \in Status \ {"content_sent"}
      BY DEF Status
    <3>4. QED
      BY <3>1, <3>2, <3>3
  <2>2. QED
    BY <1>1, <2>1, RowStays
<1>3. ASSUME SwitchOn \/ ModeLapses \/ WindowCloses \/ \E e \in Enquiries : Cancel(e)
      PROVE  \A t \in Tasks : TaskOnward(t)
  BY <1>3 DEF SwitchOn, ModeLapses, WindowCloses, Cancel, locals, TaskOnward
<1>4. ASSUME NEW t \in Tasks, Starts(t) PROVE \A u \in Tasks : TaskOnward(u)
  <2>1. Alone(t) /\ pc'[t] # "complete"
    BY <1>1, <1>4, StartsAlone
       DEF Starts, SwitchOff, CronRuns, Enquire, Answer, Works, Turns, Goes, TypeOK
  <2>2. QED
    BY <2>1 DEF Alone, TaskOnward
<1>5. QED
  BY <1>2, <1>3, <1>4 DEF Outside, Starts

LEMMA FrontWhole ==
  ASSUME IInv, NEW t \in Tasks, Front(t)
  PROVE  (\A e \in Enquiries : RowOnward(e)) /\ \A u \in Tasks : TaskOnward(u)
<1>1. TypeOK /\ AtHand /\ Alone(t)
  BY FrontAlone DEF IInv
<1>2. ASSUME NEW e \in Enquiries PROVE RowOnward(e)
  <2>1. \/ del'[e] = del[e]
        \/ \E s \in Status \ {"content_sent"} : del'[e] = [del[e] EXCEPT !.status = s]
    <3>1. CASE ExpireRows(t)
      BY <3>1 DEF ExpireRows, Status
    <3>2. CASE Insert(t)
      <4>1. verdict[t] \in {"queued", "acknowledged"}
        BY <1>1, <3>2 DEF Insert, AtHand, AtHandOf
      <4>2. del'[e] = del[e] \/ del'[e] = [del[e] EXCEPT !.status = verdict[t]]
        BY <1>1, <3>2 DEF Insert, TypeOK
      <4>3. QED
        BY <4>1, <4>2 DEF Status
    <3>3. CASE AckRows(t)
      BY <3>3 DEF AckRows, Status
    <3>4. QED
      BY <3>1, <3>2, <3>3
         DEF Front, Expire, Lookup, Find, OpenWindow, OpenWindowLegacy, shared
  <2>2. QED
    BY <1>1, <2>1, RowStays
<1>3. pc'[t] # "complete"
  <2>1. ASSUME Resumes(t) PROVE pc'[t] # "complete"
    BY <1>1, <2>1 DEF Resumes, Returns, Turns, Goes, TypeOK
  <2>2. QED
    BY <1>1, <2>1 DEF Front, Expire, ExpireRows, Lookup, Insert, Find, OpenWindow, AckRows,
                      OpenWindowLegacy, Returns, Works, Turns, Goes, TypeOK
<1>4. QED
  BY <1>1, <1>2, <1>3 DEF Alone, TaskOnward

LEMMA PromptsWhole ==
  ASSUME IInv, NEW t \in Tasks, Prompts(t)
  PROVE  (\A e \in Enquiries : RowOnward(e)) /\ \A u \in Tasks : TaskOnward(u)
<1>1. TypeOK /\ Alone(t)
  BY PromptsAlone DEF IInv
<1>2. ASSUME NEW e \in Enquiries PROVE RowOnward(e)
  <2>1. CASE Sweep(t)
    <3>1. del'[e] = del[e] \/ del'[e] = [del[e] EXCEPT !.status = "manual_review"]
      BY <2>1 DEF Sweep, OldClaim
    <3>2. QED
      BY <1>1, <3>1, RowStays DEF Status
  <2>2. CASE del' = del
    BY <1>1, <2>2, RowStays
  <2>3. QED
    BY <2>1, <2>2
       DEF Prompts, SelectMode, ClaimMode, SendPrompt, CheckpointPrompt, PromptStops, shared
<1>3. pc'[t] # "complete"
  BY <1>1 DEF Prompts, Sweep, SelectMode, ClaimMode, SendPrompt, CheckpointPrompt, PromptStops,
              PromptDone, Stops, Goes, TypeOK
<1>4. QED
  BY <1>1, <1>2, <1>3 DEF Alone, TaskOnward

LEMMA AllParts == ASSUME NEW ids, NextPart(ids) = "complete" PROVE Parts \subseteq ids
  BY DEF NextPart, Parts

LEMMA SelectsWhole ==
  ASSUME IInv, NEW t \in Tasks, Selects(t)
  PROVE  (\A e \in Enquiries : RowOnward(e)) /\ \A u \in Tasks : TaskOnward(u)
<1>1. TypeOK /\ AtHand /\ Alone(t)
  BY SelectsAlone DEF IInv
<1>2. CASE Claim(t)
  <2>1. cur[t] \in Enquiries /\ SharedOK /\ LocalsOK
    BY <1>1, <1>2, TypeSplit DEF Claim, AtHand, AtHandOf
  <2>2. ASSUME NEW e \in Enquiries PROVE RowOnward(e)
    <3>1. CASE del' = del
      BY <1>1, <3>1, RowStays
    <3>2. CASE del' = Claimed(t)
      BY <2>1, <3>2, ClaimedIs DEF RowOnward
    <3>3. QED
      BY <1>2, <3>1, <3>2 DEF Claim
  <2>3. ASSUME pc'[t] = "complete" PROVE Parts \subseteq del'[cur'[t]].ids
    <3>1. pc'[t] = NextPart(del[cur[t]].ids) /\ cur' = cur /\ del' = Claimed(t)
      BY <1>1, <1>2, <2>3 DEF Claim, Stops, Skips, Goes, TypeOK
    <3>2. QED
      BY <2>1, <2>3, <3>1, AllParts, ClaimedIs
  <2>4. QED
    BY <1>1, <2>2, <2>3 DEF Alone, TaskOnward
<1>3. CASE Select(t) \/ BatchDone(t) \/ Requeue(t) \/ \E k \in Enquiries : ReadMode(t, k)
  <2>1. del' = del /\ pc'[t] # "complete"
    BY <1>1, <1>3
       DEF Select, BatchDone, Requeue, ReadMode, Skips, Picks, Returns, Turns, Goes, TypeOK,
           shared
  <2>2. QED
    BY <1>1, <2>1, RowStays DEF Alone, TaskOnward
<1>4. QED
  BY <1>2, <1>3 DEF Selects

LEMMA DeliversWhole ==
  ASSUME IInv, NEW t \in Tasks, Delivers(t)
  PROVE  (\A e \in Enquiries : RowOnward(e)) /\ \A u \in Tasks : TaskOnward(u)
<1>1. TypeOK /\ AtHand /\ Alone(t) /\ SharedOK
  BY DeliversAlone, TypeSplit DEF IInv
<1>2. pc[t] \in Sending => cur[t] \in Enquiries
  BY <1>1 DEF AtHand, AtHandOf
<1>3. CASE Complete(t)
  <2>1. cur[t] \in Enquiries /\ pc[t] = "complete"
    BY <1>2, <1>3 DEF Complete, Sending
  <2>2. ASSUME NEW e \in Enquiries PROVE RowOnward(e)
    <3>1. del' = del \/ del' = [del EXCEPT ![cur[t]].status = "content_sent"]
      BY <1>3 DEF Complete
    <3>2. CASE e = cur[t] /\ del'[e] = [del[e] EXCEPT !.status = "content_sent"]
      <4>1. del'[e].ids = del[e].ids
        BY <1>1, <3>2, StatusSet DEF Status
      <4>2. QED
        BY <2>1, <3>2, <4>1 DEF RowOnward
    <3>3. CASE del'[e] = del[e]
      BY <1>1, <3>3, RowStays
    <3>4. QED
      BY <1>1, <3>1, <3>2, <3>3 DEF TypeOK
  <2>3. pc'[t] # "complete"
    BY <1>1, <1>3 DEF Complete, Skips, Stops, Goes, TypeOK
  <2>4. QED
    BY <1>1, <2>2, <2>3 DEF Alone, TaskOnward
<1>4. CASE SendStops(t)
  <2>1. ASSUME NEW e \in Enquiries PROVE RowOnward(e)
    <3>1. verdict[t] \in Stopping
      BY <1>1, <1>4 DEF SendStops, AtHand, AtHandOf
    <3>2. del'[e] = del[e] \/ del'[e] = [del[e] EXCEPT !.status = verdict[t]]
      BY <1>1, <1>4 DEF SendStops, TypeOK
    <3>3. QED
      BY <1>1, <3>1, <3>2, RowStays DEF Stopping, Status
  <2>2. pc'[t] # "complete"
    BY <1>1, <1>4 DEF SendStops, Skips, Goes, TypeOK
  <2>3. QED
    BY <1>1, <2>1, <2>2 DEF Alone, TaskOnward
<1>5. ASSUME NEW part \in Parts, Send(t, part) \/ Kill(t)
      PROVE  (\A e \in Enquiries : RowOnward(e)) /\ \A u \in Tasks : TaskOnward(u)
  <2>1. del' = del /\ pc'[t] # "complete"
    BY <1>1, <1>5 DEF Send, Kill, Returns, Turns, Stops, Goes, Checkpoint, TypeOK
  <2>2. QED
    BY <1>1, <2>1, RowStays DEF Alone, TaskOnward
<1>6. ASSUME NEW part \in Parts, RecordSent(t, part)
      PROVE  (\A e \in Enquiries : RowOnward(e)) /\ \A u \in Tasks : TaskOnward(u)
  <2>1. cur[t] \in Enquiries
    BY <1>2, <1>6 DEF RecordSent, Checkpoint, Sending
  <2>2. ASSUME NEW e \in Enquiries PROVE RowOnward(e)
    <3>1. CASE del' = del
      BY <1>1, <3>1, RowStays
    <3>2. CASE del' = Recorded(t, part)
      <4>1. del[e].ids \subseteq del'[e].ids /\ del'[e].status = del[e].status
        BY <1>1, <2>1, <3>2, RecordedIs
      <4>2. QED
        BY <4>1 DEF RowOnward
    <3>3. QED
      BY <1>6, <3>1, <3>2 DEF RecordSent
  <2>3. ASSUME pc'[t] = "complete" PROVE Parts \subseteq del'[cur'[t]].ids
    <3>1. /\ pc'[t] = NextPart(del[cur[t]].ids \cup {part}) /\ cur' = cur
          /\ del' = Recorded(t, part)
      BY <1>1, <1>6, <2>3 DEF RecordSent, Stops, Goes, TypeOK
    <3>2. QED
      BY <1>1, <2>1, <2>3, <3>1, AllParts, RecordedIs
  <2>4. QED
    BY <1>1, <2>2, <2>3 DEF Alone, TaskOnward
<1>7. \E part : part \in Parts
  BY DEF Parts
<1>8. QED
  BY <1>3, <1>4, <1>5, <1>6, <1>7 DEF Delivers

(* A delivery that is recorded as complete has been sent whole: both       *)
(* messages once, and both ids are recorded, although a request that is    *)
(* resumed knows of the other parts only what the row says.                *)
THEOREM CompletedIsWholeAlways == Spec => []CompletedIsWhole
<1>1. ASSUME Init PROVE Whole
  BY <1>1 DEF Init, Whole
<1>2. ASSUME IInv, IInv', Whole, [Next]_vars PROVE Whole'
  <2>1. CASE UNCHANGED vars
    BY <1>2, <2>1 DEF Whole, vars, shared, locals
  <2>2. CASE Next
    BY <1>2, <2>2, NextIs, OutsideWhole, FrontWhole, PromptsWhole, SelectsWhole, DeliversWhole,
       WholeKept
  <2>3. QED
    BY <1>2, <2>1, <2>2
<1>3. ASSUME IInv, Whole PROVE CompletedIsWhole
  <2>1. ASSUME NEW e \in Enquiries, del[e].status = "content_sent", NEW p \in Parts
        PROVE  p \in del[e].ids /\ posted[e][p] = 1
    BY <1>3, <2>1 DEF IInv, SafeAt, RowOK, Whole
  <2>2. QED
    BY <2>1 DEF CompletedIsWhole
<1>4. QED
  BY <1>1, <1>2, <1>3, Invariance, PTL DEF Spec

(* A message is sent by a request that is at this part of its delivery.    *)
LEMMA SentByParts ==
  ASSUME [Next]_vars
  PROVE  \/ UNCHANGED posted
         \/ \E t \in Tasks, part \in Parts : pc[t] = part /\ Sends(t, part)
<1>1. CASE UNCHANGED vars
  BY <1>1 DEF vars, shared
<1>2. ASSUME NEW t \in Tasks, Delivers(t)
      PROVE  \/ UNCHANGED posted
             \/ \E part \in Parts : pc[t] = part /\ Sends(t, part)
  BY <1>2 DEF Delivers, Complete, SendStops, Kill, Send, RecordSent
<1>3. ASSUME NEW t \in Tasks, Front(t) \/ Prompts(t) \/ Selects(t) PROVE UNCHANGED posted
  BY <1>3 DEF Front, Expire, ExpireRows, Lookup, Insert, Find, OpenWindow, AckRows,
              OpenWindowLegacy, Prompts, Sweep, SelectMode, ClaimMode, SendPrompt,
              CheckpointPrompt, PromptStops, Selects, Select, BatchDone, Requeue, Claim,
              ReadMode, shared
<1>4. CASE Outside
  BY <1>4 DEF Outside, SwitchOn, ModeLapses, WindowCloses, Cancel, SwitchOff, CronRuns,
              Enquire, Answer, shared
<1>5. QED
  BY <1>1, <1>2, <1>3, <1>4, NextIs

(* A message leaves only while its claim holds the row, or after the       *)
(* enquiry was deleted under it: never behind a person who was asked to    *)
(* look, behind a new attempt, or of a delivery that is complete.          *)
SendsUnderClaim == [][\A e \in Enquiries : posted'[e] # posted[e]
                        => del[e].status \in {"processing", "gone"}]_vars

(* Backup Mode sends under a claim that is in force, or under one whose    *)
(* row went with its enquiry.                                              *)
THEOREM SendsUnderClaimAlways == Spec => SendsUnderClaim
<1>1. ASSUME IInv, [Next]_vars
      PROVE  [\A e \in Enquiries : posted'[e] # posted[e]
                => del[e].status \in {"processing", "gone"}]_vars
  <2>1. TypeOK /\ AtHand /\ SharedOK
    BY <1>1, TypeSplit DEF IInv
  <2>2. ASSUME NEW t \in Tasks, NEW part \in Parts, pc[t] = part, Sends(t, part),
               NEW e \in Enquiries, posted'[e] # posted[e]
        PROVE  del[e].status \in {"processing", "gone"}
    <3>1. pc[t] \in Sending /\ pc[t] # "stopped" /\ cur[t] \in Enquiries
      BY <2>1, <2>2 DEF Parts, Sending, AtHand, AtHandOf
    <3>2. e = cur[t]
      BY <2>1, <2>2, <3>1, SendsIs
    <3>3. QED
      BY <1>1, <3>1, <3>2 DEF IInv, SafeAt, Sender, SenderOK
  <2>3. \/ UNCHANGED posted
        \/ \E t \in Tasks, part \in Parts : pc[t] = part /\ Sends(t, part)
    BY <1>1, SentByParts
  <2>4. QED
    BY <2>2, <2>3
<1>2. QED
  BY <1>1, Invariance, PTL DEF Spec, SendsUnderClaim
-----------------------------------------------------------------------------
(* The end of the mode. *)

AtTheRow(t, e) == pc[t] \in Sending \cup {"claim"} /\ cur[t] = e

(* The mode is read before the claim and not again.  What can leave after  *)
(* it was switched off, ran out or lost its window is therefore what the   *)
(* requests had at hand by then, one delivery each: as long as it does not *)
(* serve no request takes up another, and only who is at one sends it.     *)
LeavesOnlyAtHand == [][\A e \in Enquiries :
  /\ ~Serving => \A t \in Tasks : AtTheRow(t, e)' => AtTheRow(t, e)
  /\ posted'[e] # posted[e] => \E t \in Tasks : AtTheRow(t, e)]_vars

(* Where a request is after a step of its own. *)
LEMMA TakesUp ==
  ASSUME TypeOK, NEW t \in Tasks, Starts(t) \/ Front(t) \/ Prompts(t) \/ Selects(t) \/ Delivers(t),
         pc'[t] \in Sending \cup {"claim"}
  PROVE  \/ pc[t] \in Sending \cup {"claim"} /\ cur'[t] = cur[t]
         \/ pc[t] = "next" /\ Serving
<1>1. pc \in [Tasks -> PC] /\ cur \in [Tasks -> Enquiries \cup {NoEnquiry}]
  BY DEF TypeOK
<1>2. ASSUME NEW place, Goes(t, place), place \notin Sending \cup {"claim"} PROVE FALSE
  BY <1>1, <1>2 DEF Goes
<1>3. ASSUME Returns(t) \/ Works(t) PROVE FALSE
  BY <1>2, <1>3 DEF Returns, Works, Turns, Sending
<1>4. ASSUME Resumes(t) PROVE FALSE
  BY <1>2, <1>3, <1>4 DEF Resumes, Sending
<1>5. ASSUME NEW e, Skips(t, e) PROVE FALSE
  BY <1>2, <1>5 DEF Skips, Sending
<1>6. ~Starts(t)
  BY <1>2, <1>3 DEF Starts, SwitchOff, CronRuns, Enquire, Answer, Sending
<1>7. ~Front(t)
  BY <1>2, <1>3, <1>4 DEF Front, Expire, ExpireRows, Lookup, Insert, Find, OpenWindow, AckRows,
                          OpenWindowLegacy, Sending
<1>8. ~Prompts(t)
  BY <1>2 DEF Prompts, Sweep, SelectMode, ClaimMode, SendPrompt, CheckpointPrompt, PromptStops,
              PromptDone, Stops, Sending
<1>9. CASE Selects(t)
  <2>1. ASSUME NEW e \in Enquiries, ReadMode(t, e) PROVE pc[t] = "next" /\ Serving
    BY <1>2, <1>5, <2>1 DEF ReadMode, Picks, Sending
  <2>2. CASE Claim(t)
    BY <1>5, <2>2 DEF Claim
  <2>3. ~(Select(t) \/ BatchDone(t) \/ Requeue(t))
    BY <1>2, <1>3, <1>5 DEF Select, BatchDone, Requeue, Sending
  <2>4. QED
    BY <1>9, <2>1, <2>2, <2>3 DEF Selects
<1>10. CASE Delivers(t)
  <2>1. ASSUME NEW part \in Parts, Send(t, part) \/ RecordSent(t, part)
        PROVE  pc[t] \in Sending /\ cur'[t] = cur[t]
    BY <2>1 DEF Send, RecordSent, Parts, Checkpoint, Sending
  <2>2. CASE Complete(t)
    BY <1>5, <2>2 DEF Complete, Sending
  <2>3. ~(SendStops(t) \/ Kill(t))
    BY <1>3, <1>5 DEF SendStops, Kill
  <2>4. QED
    BY <1>10, <2>1, <2>2, <2>3 DEF Delivers
<1>11. QED
  BY <1>6, <1>7, <1>8, <1>9, <1>10

(* Only a request that is at a row sends it. *)
LEMMA SentByHand ==
  ASSUME IInv, [Next]_vars, NEW e \in Enquiries, posted'[e] # posted[e]
  PROVE  \E t \in Tasks : AtTheRow(t, e)
<1>1. TypeOK /\ AtHand /\ SharedOK
  BY TypeSplit DEF IInv
<1>2. ASSUME NEW t \in Tasks, NEW part \in Parts, pc[t] = part, Sends(t, part)
      PROVE  AtTheRow(t, e)
  <2>1. pc[t] \in Sending /\ cur[t] \in Enquiries
    BY <1>1, <1>2 DEF Parts, Sending, AtHand, AtHandOf
  <2>2. e = cur[t]
    BY <1>1, <1>2, <2>1, SendsIs
  <2>3. QED
    BY <2>1, <2>2 DEF AtTheRow
<1>3. \E t \in Tasks, part \in Parts : pc[t] = part /\ Sends(t, part)
  BY SentByParts
<1>4. QED
  BY <1>2, <1>3

(* Switching Backup Mode off, its 24 hours and its window stop the copies  *)
(* of a trader, but for one delivery in the hands of each request.         *)
THEOREM LeavesOnlyAtHandAlways == Spec => LeavesOnlyAtHand
<1>1. ASSUME IInv, [Next]_vars, NEW e \in Enquiries, ~Serving, NEW t \in Tasks, AtTheRow(t, e)'
      PROVE  AtTheRow(t, e)
  <2>1. TypeOK
    BY <1>1 DEF IInv
  <2>2. CASE UNCHANGED <<pc, cur>>
    BY <1>1, <2>2 DEF AtTheRow
  <2>3. ASSUME NEW u \in Tasks,
               Starts(u) \/ Front(u) \/ Prompts(u) \/ Selects(u) \/ Delivers(u)
        PROVE  AtTheRow(t, e)
    <3>1. CASE u = t
      BY <1>1, <2>1, <2>3, <3>1, TakesUp DEF AtTheRow
    <3>2. CASE u # t
      <4>1. Alone(u)
        BY <2>1, <2>3, StartsAlone, FrontAlone, PromptsAlone, SelectsAlone, DeliversAlone
      <4>2. QED
        BY <1>1, <3>2, <4>1 DEF Alone, AtTheRow
    <3>3. QED
      BY <3>1, <3>2
  <2>4. CASE SwitchOn \/ ModeLapses \/ WindowCloses \/ \E k \in Enquiries : Cancel(k)
    BY <2>2, <2>4 DEF SwitchOn, ModeLapses, WindowCloses, Cancel, locals
  <2>5. CASE UNCHANGED vars
    BY <2>2, <2>5 DEF vars, locals
  <2>6. QED
    BY <1>1, <2>3, <2>4, <2>5, NextIs DEF Outside, Starts
<1>2. ASSUME IInv, [Next]_vars
      PROVE  [\A e \in Enquiries :
                /\ ~Serving => \A t \in Tasks : AtTheRow(t, e)' => AtTheRow(t, e)
                /\ posted'[e] # posted[e] => \E t \in Tasks : AtTheRow(t, e)]_vars
  BY <1>1, <1>2, SentByHand
<1>3. QED
  BY <1>2, Invariance, PTL DEF Spec, LeavesOnlyAtHand
=============================================================================
