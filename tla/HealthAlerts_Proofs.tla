------------------------- MODULE HealthAlerts_Proofs -------------------------
(***************************************************************************)
(* Proofs about HealthAlerts for any number of checks, runs and faults:    *)
(* its types, that nobody writes beside another about one incident, that a *)
(* level counts as notified only after a mail and is never taken back, that*)
(* a mail goes under a claim, that a repetition takes a fault, and that    *)
(* late readings neither open nor close an incident.                       *)
(***************************************************************************)
EXTENDS HealthAlerts, TLAPS

Readings == 0..2 \cup {Unsure}

-----------------------------------------------------------------------------
(* The strengthening. *)

(* A run that writes about an incident holds its lease, and the level it   *)
(* writes about has not been notified.                                     *)
Writing == \A s \in Runs : \A c \in about[s] :
  /\ row[c].by = s /\ pc[s] \in {"send", "delivered", "failed"}
  /\ row[c].level \in Levels /\ row[c].level > row[c].notified
  /\ ~row[c].expired

(* A lease belongs to a run that writes, or to nobody who lives. *)
Leased == \A c \in Checks : row[c].by \in Runs => c \in about[row[c].by]

(* The level l of c has been delivered and waits to be acknowledged. *)
Delivered(c, l) ==
  row[c].by \in Runs /\ pc[row[c].by] = "delivered" /\ row[c].level = l

Arrived == \A c \in Checks : \A l \in Levels : Delivered(c, l) => mails[c][l] > 0

(* Whatever is not notified yet has been mailed by faults only. *)
Counted == \A c \in Checks : \A l \in Levels :
  l > row[c].notified /\ ~Delivered(c, l) => mails[c][l] <= faults

IInv == /\ TypeOK /\ Writing /\ Leased /\ Arrived /\ Counted
        /\ NoRepeat /\ NotifiedTruly /\ OpenAsReadLast

-----------------------------------------------------------------------------
(* What the operators return. *)

LEMMA RowTypes ==
  ASSUME NEW r \in Row
  PROVE  /\ r.open \in BOOLEAN /\ r.notified \in 0..2
         /\ r.by \in Runs \cup {Nobody, Gone} /\ r.level \in 0..2
         /\ r.expired \in BOOLEAN
         /\ [r EXCEPT !.expired = TRUE] \in Row
<1>1. [r EXCEPT !.expired = TRUE] \in Row
  BY DEF Row
<1>2. QED
  BY <1>1 DEF Row

LEMMA NoRowType == NoRow \in Row
  BY DEF Row, NoRow

LEMMA ReportedIs ==
  ASSUME NEW s \in Runs, NEW r \in Row, NEW v \in Readings
  PROVE  /\ Reported(s, r, v) \in Row
         /\ v = Unsure => Reported(s, r, v) = r
         /\ v = 0 => Reported(s, r, v) = NoRow
         /\ v \in Levels /\ Due(r, v) =>
              /\ Reported(s, r, v).by = s /\ Reported(s, r, v).level = v
              /\ ~Reported(s, r, v).expired
              /\ Reported(s, r, v).notified = r.notified /\ Reported(s, r, v).open
         /\ v \in Levels /\ ~Due(r, v) =>
              /\ Reported(s, r, v).by = r.by /\ Reported(s, r, v).level = r.level
              /\ Reported(s, r, v).expired = r.expired
              /\ Reported(s, r, v).notified = r.notified /\ Reported(s, r, v).open
<1>1. v = Unsure \/ (v # Unsure /\ v = 0) \/ (v # Unsure /\ v # 0 /\ v \in Levels)
  BY DEF Readings, Levels
<1>2. Unsure # 0 /\ Unsure \notin Levels /\ 0 \notin Levels
  BY AlertsAssumption DEF Levels
<1>3. CASE v = Unsure
  BY <1>2, <1>3 DEF Reported
<1>4. CASE v # Unsure /\ v = 0
  BY <1>2, <1>4, NoRowType DEF Reported, Resolved
<1>5. CASE v # Unsure /\ v # 0 /\ v \in Levels /\ Due(r, v)
  <2>1. Reported(s, r, v)
          = [r EXCEPT !.open = TRUE, !.by = s, !.level = v, !.expired = FALSE]
    BY <1>5 DEF Reported
  <2>2. v \in 0..2
    BY <1>5 DEF Levels
  <2>3. QED
    BY <1>5, <2>1, <2>2 DEF Row
<1>6. CASE v # Unsure /\ v # 0 /\ v \in Levels /\ ~Due(r, v)
  <2>1. Reported(s, r, v) = [r EXCEPT !.open = TRUE]
    BY <1>6 DEF Reported
  <2>2. QED
    BY <1>6, <2>1 DEF Row
<1>7. QED
  BY <1>1, <1>3, <1>4, <1>5, <1>6

LEMMA FinishedIs ==
  ASSUME NEW r \in Row, NEW d \in BOOLEAN
  PROVE  /\ Finished(r, d) \in Row
         /\ Finished(r, d).by = Nobody /\ Finished(r, d).open = r.open
         /\ d /\ r.level > r.notified => Finished(r, d).notified = r.level
         /\ ~d => Finished(r, d).notified = r.notified
<1>1. /\ LevelAfter(r, d) \in 0..2
      /\ d /\ r.level > r.notified => LevelAfter(r, d) = r.level
      /\ ~d => LevelAfter(r, d) = r.notified
  BY DEF LevelAfter, Row
<1>2. QED
  BY <1>1 DEF Finished, Row

LEMMA LeftIs ==
  ASSUME NEW s \in Runs, NEW rows \in [Checks -> Row]
  PROVE  /\ Left(s, rows) \in [Checks -> Row]
         /\ \A c \in Checks :
              /\ Left(s, rows)[c].open = rows[c].open
              /\ Left(s, rows)[c].notified = rows[c].notified
              /\ Left(s, rows)[c].level = rows[c].level
              /\ Left(s, rows)[c].expired = rows[c].expired
              /\ rows[c].by # s => Left(s, rows)[c].by = rows[c].by
              /\ rows[c].by = s => Left(s, rows)[c].by = Gone
<1>1. ASSUME NEW c \in Checks
      PROVE  /\ Left(s, rows)[c] \in Row
             /\ Left(s, rows)[c].open = rows[c].open
             /\ Left(s, rows)[c].notified = rows[c].notified
             /\ Left(s, rows)[c].level = rows[c].level
             /\ Left(s, rows)[c].expired = rows[c].expired
             /\ rows[c].by # s => Left(s, rows)[c].by = rows[c].by
             /\ rows[c].by = s => Left(s, rows)[c].by = Gone
  BY DEF Left, Row
<1>2. QED
  BY <1>1 DEF Left

-----------------------------------------------------------------------------
(* What a report does to each check. *)

Same(c) == /\ row'[c].by = row[c].by /\ row'[c].level = row[c].level
           /\ row'[c].notified = row[c].notified /\ row'[c].expired = row[c].expired

(* Nothing, but that it may open the incident; *)
KeptAt(c) == /\ Same(c) /\ mails'[c] = mails[c]
             /\ \A u \in Runs : c \in about'[u] <=> c \in about[u]

(* it resolves the incident; *)
SolvedAt(c) == /\ row'[c] = NoRow /\ mails'[c] = NoMail
               /\ \A u \in Runs : c \notin about'[u]

(* it takes the lease; *)
TakenAt(s, c) == /\ row[c].by \notin Runs
                 /\ row'[c].by = s /\ row'[c].level \in Levels
                 /\ row'[c].level > row'[c].notified /\ ~row'[c].expired
                 /\ row'[c].notified = row[c].notified /\ mails'[c] = mails[c]
                 /\ pc'[s] = "send" /\ \A u \in Runs : c \in about'[u] <=> u = s

(* or the lease it takes is left behind, as the answer is lost. *)
LostAt(c) == /\ row[c].by \notin Runs /\ row'[c].by = Gone
             /\ row'[c].notified = row[c].notified /\ mails'[c] = mails[c]
             /\ \A u \in Runs : c \notin about'[u]

(* A run that reads writes about nothing, and an incident that is due has  *)
(* nobody who writes about it.                                             *)
LEMMA Readers ==
  ASSUME TypeOK, Writing, Leased, NEW s \in Runs, pc[s] = "read"
  PROVE  /\ about[s] = {} /\ \A c \in Checks : row[c].by # s
<1>1. about[s] = {}
  BY DEF Writing
<1>2. QED
  BY <1>1 DEF Leased

LEMMA FreeIsFree ==
  ASSUME TypeOK, Writing, Leased, NEW c \in Checks, IsFree(row[c])
  PROVE  /\ row[c].by \notin Runs /\ \A u \in Runs : c \notin about[u]
<1>1. ASSUME NEW u \in Runs, c \in about[u] PROVE FALSE
  BY <1>1, AlertsAssumption DEF Writing, IsFree
<1>2. QED
  BY <1>1 DEF Leased

LEMMA ClaimAt ==
  ASSUME TypeOK, Writing, Leased, NEW s \in Runs, Claim(s), NEW c \in Checks
  PROVE  /\ row'[c] \in Row
         /\ KeptAt(c) \/ SolvedAt(c) \/ TakenAt(s, c) \/ LostAt(c)
<1> DEFINE solved == {k \in Checks : s \notin late /\ reading[s][k] = 0}
           mine == Claimed(s)
           after == [k \in Checks |->
                       IF Fresh(s) THEN Reported(s, row[k], reading[s][k]) ELSE row[k]]
<1>1. /\ pc[s] = "read" /\ reading[s][c] \in Readings /\ row[c] \in Row
      /\ mails' = [k \in Checks |-> IF k \in solved THEN NoMail ELSE mails[k]]
      /\ about[s] = {} /\ row[c].by # s
      /\ Nobody # s /\ Gone # s /\ 0 \notin Levels /\ Unsure \notin Levels /\ Unsure # 0
  BY Readers, AlertsAssumption DEF Claim, TypeOK, Readings, Levels
<1>2. \/ /\ row' = after /\ pc' = [pc EXCEPT ![s] = IF mine = {} THEN "idle" ELSE "send"]
         /\ about' = [u \in Runs |-> IF u = s THEN mine ELSE about[u] \ solved]
      \/ /\ row' = Left(s, after) /\ about' = [u \in Runs |-> about[u] \ solved]
  BY DEF Claim
<1>3. after \in [Checks -> Row]
  <2>1. ASSUME NEW k \in Checks PROVE after[k] \in Row
    <3>1. reading[s][k] \in Readings /\ row[k] \in Row
      BY DEF Claim, TypeOK, Readings
    <3>2. QED
      BY <3>1, ReportedIs
  <2>2. QED
    BY <2>1
<1>4. /\ Left(s, after)[c].notified = after[c].notified
      /\ Left(s, after)[c].level = after[c].level
      /\ Left(s, after)[c].expired = after[c].expired
      /\ after[c].by # s => Left(s, after)[c].by = after[c].by
      /\ after[c].by # s => Left(s, after)[c] = after[c]
      /\ after[c].by = s => Left(s, after)[c].by = Gone
      /\ Left(s, after)[c] \in Row
  <2>1. after[c].by # s => Left(s, after)[c] = after[c]
    BY DEF Left
  <2>2. QED
    BY <1>3, <2>1, LeftIs
<1>5. mails'[c] = IF c \in solved THEN NoMail ELSE mails[c]
  BY <1>1
<1>6. row'[c] = after[c] \/ row'[c] = Left(s, after)[c]
  BY <1>2
<1>7. row'[c] \in Row
  BY <1>3, <1>4, <1>6
<1>8. CASE c \in solved
  <2>1. after[c] = NoRow /\ c \notin mine /\ NoRow.by # s
    <3>1. Fresh(s) /\ reading[s][c] = 0
      BY <1>8 DEF Fresh
    <3>2. Reported(s, row[c], 0) = NoRow
      BY <1>1, <3>1, ReportedIs
    <3>3. after[c] = NoRow
      BY <3>1, <3>2
    <3>4. c \notin mine
      BY <1>1, <3>1 DEF Claimed
    <3>5. QED
      BY <1>1, <3>3, <3>4 DEF NoRow
  <2>2. row'[c] = NoRow
    BY <1>4, <1>6, <2>1
  <2>3. \A u \in Runs : c \notin about'[u]
    BY <1>2, <1>8, <2>1
  <2>4. QED
    BY <1>5, <1>7, <1>8, <2>2, <2>3 DEF SolvedAt
<1>9. CASE c \in mine
  <2>1. /\ Fresh(s) /\ reading[s][c] \in Levels /\ Due(row[c], reading[s][c])
        /\ c \notin solved
    BY <1>1, <1>9 DEF Claimed
  <2>2. /\ after[c].by = s /\ after[c].level = reading[s][c] /\ ~after[c].expired
        /\ after[c].notified = row[c].notified
        /\ after[c].level > after[c].notified /\ after[c].level \in Levels
    BY <1>1, <2>1, ReportedIs DEF Due
  <2>3. row[c].by \notin Runs /\ \A u \in Runs : c \notin about[u]
    BY <2>1, FreeIsFree DEF Due
  <2>4. CASE /\ row' = after /\ pc' = [pc EXCEPT ![s] = IF mine = {} THEN "idle" ELSE "send"]
             /\ about' = [u \in Runs |-> IF u = s THEN mine ELSE about[u] \ solved]
    <3>1. pc'[s] = "send"
      BY <1>9, <2>4 DEF TypeOK
    <3>2. \A u \in Runs : c \in about'[u] <=> u = s
      BY <1>9, <2>3, <2>4
    <3>3. QED
      BY <1>5, <1>7, <2>1, <2>2, <2>3, <2>4, <3>1, <3>2 DEF TakenAt
  <2>5. CASE row' = Left(s, after) /\ about' = [u \in Runs |-> about[u] \ solved]
    BY <1>4, <1>5, <1>7, <2>1, <2>2, <2>3, <2>5 DEF LostAt
  <2>6. QED
    BY <1>2, <2>4, <2>5
<1>10. CASE c \notin solved /\ c \notin mine
  <2>1. /\ after[c].by = row[c].by /\ after[c].level = row[c].level
        /\ after[c].notified = row[c].notified /\ after[c].expired = row[c].expired
    <3>1. CASE ~Fresh(s)
      BY <3>1
    <3>2. CASE Fresh(s)
      <4>1. reading[s][c] = Unsure
              \/ (reading[s][c] \in Levels /\ ~Due(row[c], reading[s][c]))
        BY <1>1, <1>10, <3>2 DEF Claimed, Fresh, Readings, Levels
      <4>2. QED
        BY <1>1, <3>2, <4>1, ReportedIs
    <3>3. QED
      BY <3>1, <3>2
  <2>2. Same(c)
    BY <1>1, <1>4, <1>6, <2>1 DEF Same
  <2>3. \A u \in Runs : c \in about'[u] <=> c \in about[u]
    BY <1>1, <1>2, <1>10
  <2>4. QED
    BY <1>5, <1>7, <1>10, <2>2, <2>3 DEF KeptAt
<1>11. QED
  BY <1>8, <1>9, <1>10

-----------------------------------------------------------------------------
(* Types. *)

LEMMA FaultType == ASSUME TypeOK, Fault \/ NoFault PROVE faults' \in 0..MaxFaults /\ faults' >= faults
  BY AlertsAssumption DEF TypeOK, Fault, NoFault

LEMMA ArrivesType ==
  ASSUME TypeOK, NEW s \in Runs, Arrives(s) \/ UNCHANGED mails,
         \A c \in about[s] : row[c].level \in Levels
  PROVE  mails' \in [Checks -> [Levels -> Nat]]
<1>1. CASE UNCHANGED mails
  BY <1>1 DEF TypeOK
<1>2. CASE Arrives(s)
  <2>1. ASSUME NEW c \in Checks PROVE mails'[c] \in [Levels -> Nat]
    BY <1>2 DEF Arrives, TypeOK
  <2>2. QED
    BY <1>2, <2>1 DEF Arrives
<1>3. QED
  BY <1>1, <1>2

LEMMA ClaimType ==
  ASSUME TypeOK, Writing, Leased, NEW s \in Runs, Claim(s)
  PROVE  TypeOK'
<1>1. row' \in [Checks -> Row]
  <2>1. \A c \in Checks : row'[c] \in Row
    BY ClaimAt
  <2>2. row' = [c \in Checks |-> row'[c]]
    BY DEF Claim, Left
  <2>3. QED
    BY <2>1, <2>2
<1>2. pc' \in [Runs -> {"idle", "read", "send", "delivered", "failed"}]
  BY DEF Claim, TypeOK
<1>3. reading' \in [Runs -> [Checks -> 0..2 \cup {Unread, Unsure}]]
  BY DEF Claim, IsReported, Nothing, TypeOK
<1>4. before' \in [Runs -> SUBSET Runs] /\ late' \in SUBSET Runs
  BY DEF Claim, IsReported, TypeOK
<1>5. newest' \in [Checks -> 0..2]
  BY DEF Claim, TypeOK
<1>6. about' \in [Runs -> SUBSET Checks]
  BY DEF Claim, Claimed, TypeOK
<1>7. mails' \in [Checks -> [Levels -> Nat]]
  BY DEF Claim, NoMail, TypeOK
<1>8. faults' \in 0..MaxFaults
  BY FaultType DEF Claim
<1>9. health' \in [Checks -> 0..2]
  BY DEF Claim, TypeOK
<1>10. QED
  BY <1>1, <1>2, <1>3, <1>4, <1>5, <1>6, <1>7, <1>8, <1>9 DEF TypeOK

LEMMA FinishType ==
  ASSUME TypeOK, NEW s \in Runs, Finish(s)
  PROVE  TypeOK'
<1>1. row' \in [Checks -> Row]
  <2>1. CASE row' = Left(s, row)
    BY <2>1, LeftIs DEF TypeOK
  <2>2. CASE row' = [c \in Checks |-> IF row[c].by = s
                       THEN Finished(row[c], pc[s] = "delivered") ELSE row[c]]
    <3>1. \A c \in Checks : row[c] \in Row /\ Finished(row[c], pc[s] = "delivered") \in Row
      BY FinishedIs DEF TypeOK
    <3>2. QED
      BY <2>2, <3>1
  <2>3. QED
    BY <2>1, <2>2 DEF Finish
<1>2. pc' \in [Runs -> {"idle", "read", "send", "delivered", "failed"}]
  BY DEF Finish, Ends, TypeOK
<1>3. about' \in [Runs -> SUBSET Checks]
  BY DEF Finish, Ends, TypeOK
<1>4. faults' \in 0..MaxFaults
  BY FaultType DEF Finish
<1>5. QED
  BY <1>1, <1>2, <1>3, <1>4 DEF Finish, TypeOK

LEMMA KillType ==
  ASSUME TypeOK, Writing, NEW s \in Runs, Kill(s)
  PROVE  TypeOK'
<1>1. row' \in [Checks -> Row]
  BY LeftIs DEF Kill, TypeOK
<1>2. pc' \in [Runs -> {"idle", "read", "send", "delivered", "failed"}]
  BY DEF Kill, Ends, TypeOK
<1>3. about' \in [Runs -> SUBSET Checks]
  BY DEF Kill, Ends, TypeOK
<1>4. faults' \in 0..MaxFaults
  BY FaultType DEF Kill
<1>5. mails' \in [Checks -> [Levels -> Nat]]
  <2>1. \A c \in about[s] : row[c].level \in Levels
    BY DEF Writing
  <2>2. QED
    BY <2>1, ArrivesType DEF Kill
<1>6. reading' \in [Runs -> [Checks -> 0..2 \cup {Unread, Unsure}]]
  BY DEF Kill, Nothing, TypeOK
<1>7. before' \in [Runs -> SUBSET Runs] /\ late' \in SUBSET Runs
  BY DEF Kill, TypeOK
<1>8. QED
  BY <1>1, <1>2, <1>3, <1>4, <1>5, <1>6, <1>7 DEF Kill, TypeOK

LEMMA MailType ==
  ASSUME TypeOK, Writing, NEW s \in Runs, Accepted(s) \/ Refused(s)
  PROVE  TypeOK'
<1>1. \A c \in about[s] : row[c].level \in Levels
  BY DEF Writing
<1>2. mails' \in [Checks -> [Levels -> Nat]]
  BY <1>1, ArrivesType DEF Accepted, Refused
<1>3. faults' \in 0..MaxFaults
  BY FaultType DEF Accepted, Refused
<1>4. pc' \in [Runs -> {"idle", "read", "send", "delivered", "failed"}]
  BY DEF Accepted, Refused, TypeOK
<1>5. QED
  BY <1>2, <1>3, <1>4 DEF Accepted, Refused, TypeOK

Quiet == \/ \E c \in Checks : LeaseExpires(c) \/ \E l \in 0..2 : Turns(c, l)
         \/ \E s \in Runs : Begin(s) \/ \E c \in Checks : Read(s, c)

LEMMA QuietType == ASSUME TypeOK, Quiet PROVE TypeOK'
<1>1. ASSUME NEW c \in Checks, NEW l \in 0..2, Turns(c, l) PROVE TypeOK'
  BY <1>1 DEF Turns, TypeOK
<1>2. ASSUME NEW s \in Runs, Begin(s) PROVE TypeOK'
  BY <1>2 DEF Begin, TypeOK
<1>3. ASSUME NEW s \in Runs, NEW c \in Checks, Read(s, c) PROVE TypeOK'
  <2>1. PICK v \in {health[c], Unsure, 2} : reading' = [reading EXCEPT ![s][c] = v]
    BY <1>3 DEF Read
  <2>2. v \in 0..2 \cup {Unread, Unsure}
    <3>1. health[c] \in 0..2 /\ 2 \in 0..2
      BY DEF TypeOK
    <3>2. QED
      BY <2>1, <3>1
  <2>3. reading' \in [Runs -> [Checks -> 0..2 \cup {Unread, Unsure}]]
    BY <2>1, <2>2 DEF TypeOK
  <2>4. QED
    BY <1>3, <2>3 DEF Read, TypeOK
<1>4. ASSUME NEW c \in Checks, LeaseExpires(c) PROVE TypeOK'
  <2>1. [row[c] EXCEPT !.expired = TRUE] \in Row
    BY RowTypes DEF TypeOK
  <2>2. row' = [row EXCEPT ![c] = [row[c] EXCEPT !.expired = TRUE]]
    BY <1>4 DEF LeaseExpires
  <2>3. row' \in [Checks -> Row]
    BY <2>1, <2>2 DEF TypeOK
  <2>4. QED
    BY <1>4, <2>3 DEF LeaseExpires, TypeOK
<1>5. QED
  BY <1>1, <1>2, <1>3, <1>4 DEF Quiet

-----------------------------------------------------------------------------
(* A report. *)

(* The incidents, the leases and the mails agree after it at each check.   *)
LEMMA ClaimKeeps ==
  ASSUME IInv, NEW s \in Runs, Claim(s)
  PROVE  Writing' /\ Leased' /\ Arrived' /\ Counted' /\ NoRepeat' /\ NotifiedTruly'
<1>1. TypeOK /\ Writing /\ Leased /\ Arrived /\ Counted /\ NoRepeat /\ NotifiedTruly
  BY DEF IInv
<1>2. /\ \A u \in Runs : u # s => pc'[u] = pc[u]
      /\ pc[s] = "read" /\ about[s] = {} /\ \A c \in Checks : row[c].by # s
      /\ Nobody \notin Runs /\ Gone \notin Runs
  BY <1>1, Readers, AlertsAssumption DEF Claim, TypeOK
<1>3. faults \in Nat /\ faults' \in Nat /\ faults' >= faults
  <2>1. faults' \in 0..MaxFaults /\ faults' >= faults
    BY <1>1, FaultType DEF Claim
  <2>2. QED
    BY <1>1, <2>1 DEF TypeOK
<1>4. \A c \in Checks : KeptAt(c) \/ SolvedAt(c) \/ TakenAt(s, c) \/ LostAt(c)
  BY <1>1, ClaimAt
<1>5. TypeOK'
  BY <1>1, ClaimType
<1>6. Writing'
  <2>1. ASSUME NEW u \in Runs, NEW c \in about'[u]
        PROVE  /\ row'[c].by = u /\ pc'[u] \in {"send", "delivered", "failed"}
               /\ row'[c].level \in Levels /\ row'[c].level > row'[c].notified
               /\ ~row'[c].expired
    <3>1. c \in Checks
      BY <1>5, <2>1 DEF TypeOK
    <3>2. CASE KeptAt(c)
      <4>1. c \in about[u] /\ u # s
        BY <1>2, <2>1, <3>2 DEF KeptAt
      <4>2. QED
        BY <1>1, <1>2, <3>2, <4>1 DEF KeptAt, Same, Writing
    <3>3. CASE TakenAt(s, c)
      BY <2>1, <3>3 DEF TakenAt
    <3>4. QED
      BY <1>4, <2>1, <3>1, <3>2, <3>3 DEF SolvedAt, LostAt
  <2>2. QED
    BY <2>1 DEF Writing
<1>7. Leased'
  <2>1. ASSUME NEW c \in Checks, row'[c].by \in Runs
        PROVE  c \in about'[row'[c].by]
    <3>1. CASE KeptAt(c)
      BY <1>1, <2>1, <3>1 DEF KeptAt, Same, Leased
    <3>2. CASE SolvedAt(c)
      BY <1>2, <2>1, <3>2 DEF SolvedAt, NoRow
    <3>3. CASE TakenAt(s, c)
      BY <3>3 DEF TakenAt
    <3>4. CASE LostAt(c)
      BY <1>2, <2>1, <3>4 DEF LostAt
    <3>5. QED
      BY <1>4, <3>1, <3>2, <3>3, <3>4
  <2>2. QED
    BY <2>1 DEF Leased
<1>8. ASSUME NEW c \in Checks, NEW l \in Levels
      PROVE  /\ Delivered(c, l)' => mails'[c][l] > 0
             /\ l > row'[c].notified /\ ~Delivered(c, l)' => mails'[c][l] <= faults'
             /\ mails'[c][l] <= 1 + faults'
  <2>1. mails[c][l] \in Nat /\ mails[c][l] <= 1 + faults
    BY <1>1 DEF TypeOK, NoRepeat
  <2>2. CASE KeptAt(c)
    <3>1. Delivered(c, l)' <=> Delivered(c, l)
      BY <1>2, <2>2 DEF KeptAt, Same, Delivered
    <3>2. mails'[c][l] = mails[c][l] /\ row'[c].notified = row[c].notified
      BY <2>2 DEF KeptAt, Same
    <3>3. Delivered(c, l) => mails[c][l] > 0
      BY <1>1 DEF Arrived
    <3>4. l > row[c].notified /\ ~Delivered(c, l) => mails[c][l] <= faults
      BY <1>1 DEF Counted
    <3>5. QED
      BY <1>3, <2>1, <3>1, <3>2, <3>3, <3>4
  <2>3. CASE SolvedAt(c)
    <3>1. ~Delivered(c, l)' /\ mails'[c][l] = 0
      BY <1>2, <2>3 DEF SolvedAt, NoRow, NoMail, Delivered
    <3>2. mails'[c][l] <= faults' /\ mails'[c][l] <= 1 + faults'
      <4>1. mails'[c][l] = 0 /\ faults' \in Nat
        BY <1>3, <3>1
      <4>2. \A k \in Nat : 0 <= k /\ 0 <= 1 + k
        OBVIOUS
      <4>3. QED
        BY <4>1, <4>2
    <3>3. QED
      BY <3>1, <3>2
  <2>4. CASE TakenAt(s, c) \/ LostAt(c)
    <3>1. ~Delivered(c, l)' /\ ~Delivered(c, l)
      BY <1>2, <2>4 DEF TakenAt, LostAt, Delivered
    <3>2. mails'[c][l] = mails[c][l] /\ row'[c].notified = row[c].notified
      BY <2>4 DEF TakenAt, LostAt
    <3>3. l > row[c].notified => mails[c][l] <= faults
      BY <1>1, <3>1 DEF Counted
    <3>4. QED
      BY <1>3, <2>1, <3>1, <3>2, <3>3
  <2>5. QED
    BY <1>4, <2>2, <2>3, <2>4
<1>9. NotifiedTruly'
  <2>1. ASSUME NEW c \in Checks, row'[c].notified # 0
        PROVE  mails'[c][row'[c].notified] > 0
    <3>1. row'[c].notified = row[c].notified /\ mails'[c] = mails[c]
      BY <1>4, <2>1 DEF KeptAt, Same, SolvedAt, NoRow, TakenAt, LostAt
    <3>2. QED
      BY <1>1, <2>1, <3>1 DEF NotifiedTruly
  <2>2. QED
    BY <2>1 DEF NotifiedTruly
<1>10. Arrived' /\ Counted' /\ NoRepeat'
  BY <1>8 DEF Arrived, Counted, NoRepeat
<1>11. QED
  BY <1>6, <1>7, <1>9, <1>10

(* A report that is late opens and closes nothing; another does as it says.*)
LEMMA ClaimOpens ==
  ASSUME IInv, NEW s \in Runs, Claim(s)
  PROVE  OpenAsReadLast'
<1>1. ASSUME NEW c \in Checks
      PROVE  row'[c].open <=> newest'[c] > 0
  <2> DEFINE after == [k \in Checks |->
                         IF Fresh(s) THEN Reported(s, row[k], reading[s][k]) ELSE row[k]]
  <2>1. TypeOK /\ reading[s][c] \in Readings /\ row[c] \in Row
    BY DEF IInv, Claim, TypeOK, Readings
  <2>2. row' = after \/ row' = Left(s, after)
    BY DEF Claim
  <2>3. after \in [Checks -> Row]
    <3>1. ASSUME NEW k \in Checks PROVE after[k] \in Row
      <4>1. reading[s][k] \in Readings /\ row[k] \in Row
        BY DEF IInv, Claim, TypeOK, Readings
      <4>2. QED
        BY <4>1, ReportedIs
    <3>2. QED
      BY <3>1
  <2>4. row'[c].open = after[c].open
    BY <2>2, <2>3, LeftIs
  <2>5. newest'[c] = IF s \in late \/ reading[s][c] = Unsure THEN newest[c] ELSE reading[s][c]
    BY DEF Claim
  <2>6. CASE s \in late
    <3>1. after[c] = row[c] /\ newest'[c] = newest[c]
      BY <2>5, <2>6 DEF Fresh
    <3>2. QED
      BY <1>1, <2>4, <3>1 DEF IInv, OpenAsReadLast
  <2>7. CASE s \notin late
    <3>1. /\ after[c] = Reported(s, row[c], reading[s][c])
          /\ reading[s][c] # Unsure => newest'[c] = reading[s][c]
          /\ Unsure # 0 /\ Unsure \notin Levels
      BY <2>5, <2>7, AlertsAssumption DEF Fresh, Levels
    <3>2. CASE reading[s][c] = 0
      <4>1. after[c] = NoRow
        BY <2>1, <3>1, <3>2, ReportedIs
      <4>2. QED
        BY <2>4, <3>1, <3>2, <4>1 DEF NoRow
    <3>3. CASE reading[s][c] \in Levels
      <4>1. after[c].open
        BY <2>1, <3>1, <3>3, ReportedIs
      <4>2. QED
        BY <2>4, <3>1, <3>3, <4>1 DEF Levels
    <3>4. CASE reading[s][c] = Unsure
      <4>1. after[c] = row[c] /\ newest'[c] = newest[c]
        BY <2>1, <2>5, <3>1, <3>4, ReportedIs
      <4>2. QED
        BY <2>4, <4>1 DEF IInv, OpenAsReadLast
    <3>5. QED
      BY <2>1, <3>2, <3>3, <3>4 DEF Readings, Levels
  <2>8. QED
    BY <2>6, <2>7
<1>2. QED
  BY <1>1 DEF OpenAsReadLast
-----------------------------------------------------------------------------
(* A mail, its acknowledgement, and a run that ends. *)

(* Each of them leaves the incidents open or closed as they are.           *)
LEMMA RunOpens ==
  ASSUME IInv, NEW s \in Runs, Accepted(s) \/ Refused(s) \/ Finish(s) \/ Kill(s)
  PROVE  OpenAsReadLast'
<1>1. TypeOK /\ newest' = newest
  BY DEF IInv, Accepted, Refused, Finish, Kill
<1>2. ASSUME NEW c \in Checks PROVE row'[c].open = row[c].open
  <2>1. CASE UNCHANGED row
    BY <2>1
  <2>2. CASE row' = Left(s, row)
    BY <1>1, <2>2, LeftIs DEF TypeOK
  <2>3. CASE row' = [k \in Checks |-> IF row[k].by = s
                       THEN Finished(row[k], pc[s] = "delivered") ELSE row[k]]
    <3>1. row[c] \in Row
      BY <1>1 DEF TypeOK
    <3>2. Finished(row[c], pc[s] = "delivered").open = row[c].open
      BY <3>1, FinishedIs
    <3>3. QED
      BY <2>3, <3>2
  <2>4. QED
    BY <2>1, <2>2, <2>3 DEF Accepted, Refused, Finish, Kill
<1>3. QED
  BY <1>1, <1>2 DEF IInv, OpenAsReadLast

(* What arrives is a mail more about each incident the run writes about,   *)
(* at the level it claimed.                                                *)
LEMMA ArrivesIs ==
  ASSUME TypeOK, Writing, NEW s \in Runs, Arrives(s), NEW c \in Checks, NEW l \in Levels
  PROVE  /\ mails'[c][l] \in Nat
         /\ c \in about[s] /\ row[c].level = l => mails'[c][l] = mails[c][l] + 1
         /\ ~(c \in about[s] /\ row[c].level = l) => mails'[c][l] = mails[c][l]
<1>1. mails[c] \in [Levels -> Nat] /\ mails[c][l] \in Nat
  BY DEF TypeOK
<1>2. mails'[c] = IF c \in about[s]
                  THEN [mails[c] EXCEPT ![row[c].level] = @ + 1] ELSE mails[c]
  BY DEF Arrives
<1>3. CASE c \in about[s]
  <2>1. row[c].level \in Levels
    BY <1>3 DEF Writing
  <2>2. QED
    BY <1>1, <1>2, <1>3, <2>1
<1>4. CASE c \notin about[s]
  BY <1>1, <1>2, <1>4
<1>5. QED
  BY <1>3, <1>4

(* An answer to a mail, good or bad, keeps the leases.                     *)
LEMMA MailKeeps ==
  ASSUME IInv, NEW s \in Runs, Accepted(s) \/ Refused(s)
  PROVE  Writing' /\ Leased' /\ Arrived' /\ Counted' /\ NoRepeat' /\ NotifiedTruly'
<1>1. TypeOK /\ Writing /\ Leased /\ Arrived /\ Counted /\ NoRepeat /\ NotifiedTruly
  BY DEF IInv
<1>2. /\ row' = row /\ about' = about /\ pc[s] = "send"
      /\ \A u \in Runs : u # s => pc'[u] = pc[u]
      /\ pc'[s] \in {"delivered", "failed"}
  BY <1>1 DEF Accepted, Refused, TypeOK
<1>3. /\ faults \in Nat /\ faults' \in Nat /\ faults' >= faults
      /\ Fault => faults' = faults + 1
  <2>1. faults' \in 0..MaxFaults /\ faults' >= faults
    BY <1>1, FaultType DEF Accepted, Refused
  <2>2. QED
    BY <1>1, <2>1 DEF TypeOK, Fault
<1>4. \/ Arrives(s) /\ (pc'[s] = "delivered" \/ faults' = faults + 1)
      \/ UNCHANGED mails /\ pc'[s] = "failed"
  BY <1>1, <1>3 DEF Accepted, Refused, TypeOK
<1>5. Writing' /\ Leased'
  BY <1>1, <1>2 DEF Writing, Leased
<1>6. ASSUME NEW c \in Checks, NEW l \in Levels
      PROVE  /\ mails'[c][l] >= mails[c][l]
             /\ Delivered(c, l)' => mails'[c][l] > 0
             /\ l > row[c].notified /\ ~Delivered(c, l)' => mails'[c][l] <= faults'
             /\ mails'[c][l] <= 1 + faults'
  <2>1. /\ mails[c][l] \in Nat /\ mails[c][l] <= 1 + faults
        /\ Delivered(c, l) => mails[c][l] > 0
        /\ l > row[c].notified /\ ~Delivered(c, l) => mails[c][l] <= faults
    BY <1>1 DEF TypeOK, NoRepeat, Arrived, Counted
  <2>2. row[c].by # s => (Delivered(c, l)' <=> Delivered(c, l))
    BY <1>2 DEF Delivered
  <2>3. row[c].by = s => ~Delivered(c, l) /\ c \in about[s]
    BY <1>1, <1>2 DEF Delivered, Leased
  <2>4. row[c].by = s => (Delivered(c, l)' <=> pc'[s] = "delivered" /\ row[c].level = l)
    BY <1>2 DEF Delivered
  <2>5. c \in about[s] => row[c].by = s /\ row[c].level > row[c].notified
    BY <1>1 DEF Writing
  <2>6. CASE UNCHANGED mails /\ pc'[s] = "failed"
    <3>1. mails'[c][l] = mails[c][l] /\ (Delivered(c, l)' <=> Delivered(c, l))
      BY <2>2, <2>3, <2>4, <2>6
    <3>2. QED
      BY <1>3, <2>1, <3>1
  <2>7. CASE Arrives(s) /\ (pc'[s] = "delivered" \/ faults' = faults + 1)
    <3>1. CASE row[c].by = s /\ row[c].level = l
      <4>1. mails'[c][l] = mails[c][l] + 1
        BY <1>1, <2>3, <2>7, <3>1, ArrivesIs
      <4>2. mails[c][l] <= faults
        BY <2>1, <2>3, <2>5, <3>1
      <4>3. Delivered(c, l)' \/ faults' = faults + 1
        BY <2>4, <2>7, <3>1
      <4>4. QED
        BY <1>3, <2>1, <4>1, <4>2, <4>3
    <3>2. CASE row[c].by # s \/ row[c].level # l
      <4>1. mails'[c][l] = mails[c][l]
        BY <1>1, <2>5, <2>7, <3>2, ArrivesIs
      <4>2. Delivered(c, l)' <=> Delivered(c, l)
        BY <2>2, <2>3, <2>4, <3>2
      <4>3. QED
        BY <1>3, <2>1, <4>1, <4>2
    <3>3. QED
      BY <3>1, <3>2
  <2>8. QED
    BY <1>4, <2>6, <2>7
<1>7. Arrived' /\ Counted' /\ NoRepeat'
  BY <1>2, <1>6 DEF Arrived, Counted, NoRepeat
<1>8. NotifiedTruly'
  <2>1. ASSUME NEW c \in Checks, row[c].notified # 0
        PROVE  mails'[c][row[c].notified] > 0
    <3>1. row[c].notified \in Levels
      <4>1. row[c] \in Row
        BY <1>1 DEF TypeOK
      <4>2. row[c].notified \in 0..2
        BY <4>1, RowTypes
      <4>3. QED
        BY <2>1, <4>2 DEF Levels
    <3>2. mails[c][row[c].notified] \in Nat /\ mails[c][row[c].notified] > 0
      BY <1>1, <2>1, <3>1 DEF TypeOK, NotifiedTruly
    <3>3. mails'[c][row[c].notified] >= mails[c][row[c].notified]
      BY <1>6, <3>1
    <3>4. mails'[c][row[c].notified] \in Nat
      <4>1. CASE Arrives(s)
        BY <1>1, <3>1, <4>1, ArrivesIs
      <4>2. CASE UNCHANGED mails
        BY <3>2, <4>2
      <4>3. QED
        BY <1>4, <4>1, <4>2
    <3>5. QED
      BY <3>2, <3>3, <3>4
  <2>2. QED
    BY <1>2, <2>1 DEF NotifiedTruly
<1>9. QED
  BY <1>5, <1>7, <1>8
(* A run that ends writes about nothing more.  Its claims are acknowledged *)
(* or left behind, and a mail that is not acknowledged has cost a fault.   *)
LEMMA EndKeeps ==
  ASSUME IInv, NEW s \in Runs, Finish(s) \/ Kill(s)
  PROVE  Writing' /\ Leased' /\ Arrived' /\ Counted' /\ NoRepeat' /\ NotifiedTruly'
<1>1. TypeOK /\ Writing /\ Leased /\ Arrived /\ Counted /\ NoRepeat /\ NotifiedTruly
  BY DEF IInv
<1>2. /\ \A u \in Runs : u # s => pc'[u] = pc[u] /\ about'[u] = about[u]
      /\ about'[s] = {} /\ pc'[s] = "idle" /\ Nobody \notin Runs /\ Gone \notin Runs
  BY <1>1, AlertsAssumption DEF Finish, Kill, Ends, TypeOK
<1>3. faults \in Nat /\ faults' \in Nat /\ (NoFault \/ Fault)
      /\ (NoFault => faults' = faults) /\ (Fault => faults' = faults + 1)
  BY <1>1 DEF Finish, Kill, TypeOK, Fault, NoFault
<1>4. ASSUME NEW c \in Checks
      PROVE  /\ row[c].by # s => Same(c)
             /\ row[c].by = s =>
                  \/ /\ row'[c].by = Gone /\ row'[c].notified = row[c].notified /\ Fault
                  \/ /\ row'[c].by = Nobody /\ NoFault /\ pc[s] = "delivered"
                     /\ row'[c].notified = row[c].level
                  \/ /\ row'[c].by = Nobody /\ NoFault /\ pc[s] = "failed"
                     /\ row'[c].notified = row[c].notified
  <2>1. CASE Fault /\ row' = Left(s, row)
    <3>1. row \in [Checks -> Row]
      BY <1>1 DEF TypeOK
    <3>2. QED
      BY <2>1, <3>1, LeftIs DEF Same
  <2>2. CASE /\ NoFault /\ pc[s] \in {"delivered", "failed"}
             /\ row' = [k \in Checks |-> IF row[k].by = s
                          THEN Finished(row[k], pc[s] = "delivered") ELSE row[k]]
    <3>1. row[c] \in Row
      BY <1>1 DEF TypeOK
    <3>2. CASE row[c].by # s
      BY <2>2, <3>2 DEF Same
    <3>3. CASE row[c].by = s
      <4>1. row'[c] = Finished(row[c], pc[s] = "delivered")
        BY <2>2, <3>3
      <4>2. row[c].level > row[c].notified
        BY <1>1, <3>3 DEF Writing, Leased
      <4>3. QED
        BY <2>2, <3>1, <3>3, <4>1, <4>2, FinishedIs
    <3>4. QED
      BY <3>2, <3>3
  <2>3. QED
    BY <2>1, <2>2 DEF Finish, Kill
<1>5. ASSUME NEW c \in Checks PROVE row[c].by = s <=> c \in about[s]
  BY <1>1 DEF Writing, Leased
<1>6. Writing'
  <2>1. ASSUME NEW u \in Runs, NEW c \in about'[u]
        PROVE  /\ row'[c].by = u /\ pc'[u] \in {"send", "delivered", "failed"}
               /\ row'[c].level \in Levels /\ row'[c].level > row'[c].notified
               /\ ~row'[c].expired
    <3>1. u # s /\ c \in about[u] /\ c \in Checks
      BY <1>1, <1>2, <2>1 DEF TypeOK
    <3>2. row[c].by = u
      BY <1>1, <3>1 DEF Writing
    <3>3. Same(c)
      BY <1>4, <3>1, <3>2
    <3>4. QED
      BY <1>1, <1>2, <3>1, <3>3 DEF Writing, Same
  <2>2. QED
    BY <2>1 DEF Writing
<1>7. Leased'
  <2>1. ASSUME NEW c \in Checks, row'[c].by \in Runs
        PROVE  c \in about'[row'[c].by]
    <3>1. row[c].by # s /\ Same(c)
      BY <1>2, <1>4, <2>1
    <3>2. QED
      BY <1>1, <1>2, <2>1, <3>1 DEF Leased, Same
  <2>2. QED
    BY <2>1 DEF Leased
<1>8. ASSUME NEW c \in Checks, NEW l \in Levels
      PROVE  /\ mails'[c][l] \in Nat /\ mails[c][l] \in Nat
             /\ mails'[c][l] = mails[c][l] \/
                  /\ mails'[c][l] = mails[c][l] + 1 /\ Fault
                  /\ pc[s] = "send" /\ row[c].by = s /\ row[c].level = l
  <2>1. mails[c][l] \in Nat
    BY <1>1 DEF TypeOK
  <2>2. UNCHANGED mails \/ (Fault /\ pc[s] = "send" /\ Arrives(s))
    BY DEF Finish, Kill
  <2>3. QED
    BY <1>1, <1>5, <2>1, <2>2, ArrivesIs
<1>9. ASSUME NEW c \in Checks, NEW l \in Levels
      PROVE  /\ Delivered(c, l)' => mails'[c][l] > 0
             /\ l > row'[c].notified /\ ~Delivered(c, l)' => mails'[c][l] <= faults'
             /\ mails'[c][l] <= 1 + faults'
  <2>1. /\ mails[c][l] <= 1 + faults
        /\ Delivered(c, l) => mails[c][l] > 0
        /\ l > row[c].notified /\ ~Delivered(c, l) => mails[c][l] <= faults
    BY <1>1 DEF NoRepeat, Arrived, Counted
  <2>2. CASE row[c].by # s
    <3>1. mails'[c][l] = mails[c][l] /\ Same(c)
      BY <1>4, <1>8, <2>2
    <3>2. Delivered(c, l)' <=> Delivered(c, l)
      BY <1>2, <2>2, <3>1 DEF Delivered, Same
    <3>3. row'[c].notified = row[c].notified
      BY <3>1 DEF Same
    <3>4. faults' >= faults
      BY <1>3
    <3>5. QED
      BY <1>3, <1>8, <2>1, <3>1, <3>2, <3>3, <3>4
  <2>3. CASE row[c].by = s
    <3>1. ~Delivered(c, l)'
      BY <1>2, <1>4, <2>3 DEF Delivered
    <3>2. row[c].level > row[c].notified /\ row[c].level \in Levels
      BY <1>1, <1>5, <2>3 DEF Writing
    <3>3. Delivered(c, l) <=> pc[s] = "delivered" /\ row[c].level = l
      BY <2>3 DEF Delivered
    <3>4. CASE Fault
      <4>1. pc[s] = "send" /\ row[c].level = l => mails[c][l] <= faults
        BY <2>1, <3>2, <3>3
      <4>2. mails'[c][l] <= faults'
        BY <1>3, <1>8, <2>1, <3>4, <4>1
      <4>3. mails'[c][l] <= 1 + faults'
        BY <1>3, <1>8, <4>2
      <4>4. QED
        BY <3>1, <4>2, <4>3
    <3>5. CASE NoFault
      <4>1. mails'[c][l] = mails[c][l] /\ faults' = faults
        BY <1>3, <1>8, <3>5
      <4>2. l > row'[c].notified => l > row[c].notified /\ ~Delivered(c, l)
        <5>1. row'[c].notified = row[c].notified \/ row'[c].notified = row[c].level
          BY <1>4, <2>3
        <5>2. row[c].notified \in 0..2
          <6>1. row[c] \in Row
            BY <1>1 DEF TypeOK
          <6>2. QED
            BY <6>1, RowTypes
        <5>3. pc[s] = "delivered" => row'[c].notified = row[c].level
          BY <1>3, <1>4, <2>3, <3>5
        <5>4. QED
          BY <3>2, <3>3, <5>1, <5>2, <5>3 DEF Levels
      <4>3. QED
        BY <2>1, <3>1, <4>1, <4>2
    <3>6. QED
      BY <1>3, <3>4, <3>5
  <2>4. QED
    BY <2>2, <2>3
<1>10. NotifiedTruly'
  <2>1. ASSUME NEW c \in Checks, row'[c].notified # 0
        PROVE  mails'[c][row'[c].notified] > 0
    <3>1. CASE row'[c].notified = row[c].notified
      <4>1. row[c].notified \in Levels
        <5>1. row[c] \in Row
          BY <1>1 DEF TypeOK
        <5>2. row[c].notified \in 0..2
          BY <5>1, RowTypes
        <5>3. QED
          BY <2>1, <3>1, <5>2 DEF Levels
      <4>2. mails[c][row[c].notified] > 0
        BY <1>1, <2>1, <3>1 DEF NotifiedTruly
      <4>3. mails'[c][row[c].notified] > 0
        BY <1>8, <4>1, <4>2
      <4>4. QED
        BY <3>1, <4>3
    <3>2. CASE row'[c].notified # row[c].notified
      <4>1. /\ row[c].by = s /\ pc[s] = "delivered" /\ NoFault
            /\ row'[c].notified = row[c].level
        BY <1>4, <3>2 DEF Same
      <4>2. row[c].level \in Levels
        BY <1>1, <1>5, <4>1 DEF Writing
      <4>3. mails[c][row[c].level] > 0
        BY <1>1, <4>1, <4>2 DEF Arrived, Delivered
      <4>4. QED
        BY <1>8, <4>1, <4>2, <4>3
    <3>3. QED
      BY <3>1, <3>2
  <2>2. QED
    BY <2>1 DEF NotifiedTruly
<1>11. Arrived' /\ Counted' /\ NoRepeat'
  BY <1>9 DEF Arrived, Counted, NoRepeat
<1>12. QED
  BY <1>6, <1>7, <1>10, <1>11

-----------------------------------------------------------------------------
(* The other steps. *)

LEMMA QuietKeeps == ASSUME IInv, Quiet PROVE IInv'
<1>1. TypeOK' /\ TypeOK
  BY QuietType DEF IInv
<1>2. /\ about' = about /\ mails' = mails /\ faults' = faults /\ newest' = newest
      /\ \A u \in Runs : pc'[u] = pc[u] \/ (pc[u] = "idle" /\ pc'[u] = "read")
  BY <1>1 DEF Quiet, Turns, Begin, Read, LeaseExpires, TypeOK
<1>3. ASSUME NEW k \in Checks
      PROVE  /\ row'[k].open = row[k].open /\ row'[k].by = row[k].by
             /\ row'[k].level = row[k].level /\ row'[k].notified = row[k].notified
             /\ row[k].by # Gone => row'[k].expired = row[k].expired
  <2>1. CASE UNCHANGED row
    BY <2>1
  <2>2. ASSUME NEW c \in Checks, LeaseExpires(c), k # c
        PROVE  row'[k] = row[k]
    BY <1>1, <2>2 DEF LeaseExpires, TypeOK
  <2>3. CASE LeaseExpires(k)
    <3>1. row[k] \in Row /\ row[k].by = Gone
      BY <1>1, <2>3 DEF LeaseExpires, TypeOK
    <3>2. row'[k] = [row[k] EXCEPT !.expired = TRUE]
      BY <1>1, <2>3 DEF LeaseExpires, TypeOK
    <3>3. /\ row'[k].open = row[k].open /\ row'[k].by = row[k].by
          /\ row'[k].level = row[k].level /\ row'[k].notified = row[k].notified
      BY <3>1, <3>2 DEF Row
    <3>4. QED
      BY <3>1, <3>3
  <2>4. QED
    BY <2>1, <2>2, <2>3 DEF Quiet, Turns, Begin, Read
<1>4. Gone \notin Runs
  BY AlertsAssumption
<1>5. Writing'
  <2>1. ASSUME NEW u \in Runs, NEW k \in about[u]
        PROVE  /\ row'[k].by = u /\ pc'[u] \in {"send", "delivered", "failed"}
               /\ row'[k].level \in Levels /\ row'[k].level > row'[k].notified
               /\ ~row'[k].expired
    <3>1. k \in Checks
      BY <1>1 DEF TypeOK
    <3>2. /\ row[k].by = u /\ pc[u] \in {"send", "delivered", "failed"}
          /\ row[k].level \in Levels /\ row[k].level > row[k].notified
          /\ ~row[k].expired
      BY DEF IInv, Writing
    <3>3. QED
      BY <1>2, <1>3, <1>4, <3>1, <3>2
  <2>2. QED
    BY <1>2, <2>1 DEF Writing
<1>6. Leased'
  BY <1>2, <1>3 DEF IInv, Leased
<1>7. \A k \in Checks : \A j \in Levels : Delivered(k, j)' <=> Delivered(k, j)
  BY <1>2, <1>3 DEF Delivered
<1>8. Arrived' /\ Counted'
  BY <1>2, <1>3, <1>7 DEF IInv, Arrived, Counted
<1>9. NoRepeat' /\ NotifiedTruly' /\ OpenAsReadLast'
  BY <1>2, <1>3 DEF IInv, NoRepeat, NotifiedTruly, OpenAsReadLast
<1>10. QED
  BY <1>1, <1>5, <1>6, <1>8, <1>9 DEF IInv

-----------------------------------------------------------------------------
(* The theorems. *)

LEMMA InitIInv == ASSUME Init PROVE IInv
<1>1. TypeOK
  BY AlertsAssumption, NoRowType DEF Init, TypeOK, Nothing, NoMail
<1>2. Writing /\ Leased /\ Arrived
  BY AlertsAssumption DEF Init, Writing, Leased, Arrived, Delivered, NoRow
<1>3. Counted /\ NoRepeat
  BY DEF Init, Counted, NoRepeat, NoMail
<1>4. NotifiedTruly /\ OpenAsReadLast
  BY DEF Init, NotifiedTruly, OpenAsReadLast, NoRow
<1>5. QED
  BY <1>1, <1>2, <1>3, <1>4 DEF IInv

LEMMA StepIInv == ASSUME IInv, [Next]_vars PROVE IInv'
<1>1. CASE UNCHANGED vars
  BY <1>1 DEF vars, IInv, TypeOK, Writing, Leased, Arrived, Counted, Delivered, NoRepeat,
              NotifiedTruly, OpenAsReadLast
<1>2. CASE Quiet
  BY <1>2, QuietKeeps
<1>3. ASSUME NEW s \in Runs,
             Claim(s) \/ Accepted(s) \/ Refused(s) \/ Finish(s) \/ Kill(s)
      PROVE  IInv'
  <2>1. TypeOK /\ Writing /\ Leased
    BY DEF IInv
  <2>2. CASE Claim(s)
    BY <2>1, <2>2, ClaimType, ClaimKeeps, ClaimOpens DEF IInv
  <2>3. CASE Accepted(s) \/ Refused(s)
    BY <2>1, <2>3, MailType, MailKeeps, RunOpens DEF IInv
  <2>4. CASE Finish(s)
    BY <2>1, <2>4, FinishType, EndKeeps, RunOpens DEF IInv
  <2>5. CASE Kill(s)
    BY <2>1, <2>5, KillType, EndKeeps, RunOpens DEF IInv
  <2>6. QED
    BY <1>3, <2>2, <2>3, <2>4, <2>5
<1>4. QED
  BY <1>1, <1>2, <1>3 DEF Next, Step, Quiet
(* The variables of HealthAlerts have their types in every reachable state.*)
THEOREM TypeCorrect == Spec => []TypeOK
<1>1. IInv => TypeOK
  BY DEF IInv
<1>2. QED
  BY <1>1, InitIInv, StepIInv, PTL DEF Spec

(* A run that writes about an incident holds its lease, what it claims is  *)
(* not notified yet, and what is not notified was mailed by faults only.   *)
THEOREM Invariance == Spec => []IInv
  BY InitIInv, StepIInv, PTL DEF Spec

(* The lease of the claim function keeps two overlapping runs from writing *)
(* about one incident, and a resolved incident has nobody who writes.      *)
THEOREM OneSenderAlways == Spec => []OneSender
<1>1. IInv => OneSender
  BY DEF IInv, Writing, OneSender
<1>2. QED
  BY <1>1, Invariance, PTL

(* The finish function records only levels about which a mail has arrived. *)
THEOREM NotifiedTrulyAlways == Spec => []NotifiedTruly
<1>1. IInv => NotifiedTruly
  BY DEF IInv
<1>2. QED
  BY <1>1, Invariance, PTL

(* The mails about one level of an incident exceed one by faults at most.  *)
THEOREM NoRepeatAlways == Spec => []NoRepeat
<1>1. IInv => NoRepeat
  BY DEF IInv
<1>2. QED
  BY <1>1, Invariance, PTL

(* The claim function opens and closes incidents by the reading that was   *)
(* begun last, whichever order the reports come in.                        *)
THEOREM OpenAsReadLastAlways == Spec => []OpenAsReadLast
<1>1. IInv => OpenAsReadLast
  BY DEF IInv
<1>2. QED
  BY <1>1, Invariance, PTL

-----------------------------------------------------------------------------
(* What a step may do. *)

(* A mail more about an incident is the mail of the run that holds its     *)
(* unexpired claim, at the level claimed, which the row does not have as   *)
(* notified: no mail of a run whose incident was resolved, taken over or   *)
(* acknowledged since.                                                     *)
MailsUnderClaim == \A c \in Checks : \A l \in Levels :
  mails'[c][l] > mails[c][l] =>
    \E s \in Runs : /\ pc[s] = "send" /\ row[c].by = s /\ ~row[c].expired
                    /\ row[c].level = l /\ l > row[c].notified

(* While an incident stays open the level notified never falls, and it     *)
(* rises only with the acknowledgement of a mail at the new level by the   *)
(* run that holds the claim.                                               *)
NotifiedRises == \A c \in Checks :
  row[c].open /\ row'[c].open /\ row'[c].notified # row[c].notified =>
    /\ row'[c].notified > row[c].notified
    /\ Delivered(c, row'[c].notified) /\ row'[c].by = Nobody

LEMMA RunMails ==
  ASSUME TypeOK, Writing, NEW s \in Runs, pc[s] = "send", Arrives(s)
  PROVE  MailsUnderClaim
<1>1. ASSUME NEW c \in Checks, NEW l \in Levels, mails'[c][l] > mails[c][l]
      PROVE  \E u \in Runs : /\ pc[u] = "send" /\ row[c].by = u /\ ~row[c].expired
                             /\ row[c].level = l /\ l > row[c].notified
  <2>1. mails[c][l] \in Nat
    BY DEF TypeOK
  <2>2. c \in about[s] /\ row[c].level = l
    BY <1>1, <2>1, ArrivesIs
  <2>3. row[c].by = s /\ ~row[c].expired /\ l > row[c].notified
    BY <2>2 DEF Writing
  <2>4. QED
    BY <2>2, <2>3
<1>2. QED
  BY <1>1 DEF MailsUnderClaim

LEMMA NoMails == ASSUME TypeOK, UNCHANGED mails PROVE MailsUnderClaim
<1>1. \A c \in Checks : \A l \in Levels : mails[c][l] \in Nat /\ mails'[c][l] = mails[c][l]
  BY DEF TypeOK
<1>2. \A c \in Checks : \A l \in Levels : ~(mails'[c][l] > mails[c][l])
  BY <1>1
<1>3. QED
  BY <1>2 DEF MailsUnderClaim

LEMMA ClaimMails == ASSUME IInv, NEW s \in Runs, Claim(s) PROVE MailsUnderClaim
<1>1. TypeOK /\ Writing /\ Leased
  BY DEF IInv
<1>2. ASSUME NEW c \in Checks, NEW l \in Levels PROVE ~(mails'[c][l] > mails[c][l])
  <2>1. mails[c][l] \in Nat
    BY <1>1 DEF TypeOK
  <2>2. mails'[c] = mails[c] \/ mails'[c] = NoMail
    BY <1>1, ClaimAt DEF KeptAt, SolvedAt, TakenAt, LostAt
  <2>3. mails'[c][l] = mails[c][l] \/ mails'[c][l] = 0
    BY <2>2 DEF NoMail
  <2>4. QED
    BY <2>1, <2>3
<1>3. QED
  BY <1>2 DEF MailsUnderClaim

LEMMA SameNotified ==
  ASSUME \A c \in Checks : row'[c].open => row'[c].notified = row[c].notified
  PROVE  NotifiedRises
  BY DEF NotifiedRises

LEMMA ClaimRises == ASSUME IInv, NEW s \in Runs, Claim(s) PROVE NotifiedRises
<1>1. TypeOK /\ Writing /\ Leased
  BY DEF IInv
<1>2. ASSUME NEW c \in Checks, row'[c].open PROVE row'[c].notified = row[c].notified
  <2>1. ~SolvedAt(c)
    BY <1>2 DEF SolvedAt, NoRow
  <2>2. KeptAt(c) \/ TakenAt(s, c) \/ LostAt(c)
    BY <1>1, <2>1, ClaimAt
  <2>3. QED
    BY <2>2 DEF KeptAt, Same, TakenAt, LostAt
<1>3. QED
  BY <1>2, SameNotified

LEMMA FinishRises == ASSUME IInv, NEW s \in Runs, Finish(s) PROVE NotifiedRises
<1>1. TypeOK /\ Writing /\ Leased /\ row \in [Checks -> Row]
  BY DEF IInv, TypeOK
<1>2. CASE row' = Left(s, row)
  <2>1. \A c \in Checks : row'[c].notified = row[c].notified
    BY <1>1, <1>2, LeftIs
  <2>2. QED
    BY <2>1, SameNotified
<1>3. CASE row' = [c \in Checks |-> IF row[c].by = s
                     THEN Finished(row[c], pc[s] = "delivered") ELSE row[c]]
  <2>1. ASSUME NEW c \in Checks, row'[c].notified # row[c].notified
        PROVE  /\ row'[c].notified > row[c].notified
               /\ Delivered(c, row'[c].notified) /\ row'[c].by = Nobody
    <3>1. row[c].by = s /\ row'[c] = Finished(row[c], pc[s] = "delivered") /\ row[c] \in Row
      BY <1>1, <1>3, <2>1
    <3>2. row[c].level > row[c].notified
      BY <1>1, <3>1 DEF Writing, Leased
    <3>3. CASE pc[s] = "delivered"
      <4>1. row'[c] = Finished(row[c], TRUE)
        BY <3>1, <3>3
      <4>2. row'[c].notified = row[c].level /\ row'[c].by = Nobody
        BY <3>1, <3>2, <4>1, FinishedIs
      <4>3. QED
        BY <3>1, <3>2, <3>3, <4>2 DEF Delivered
    <3>4. CASE pc[s] # "delivered"
      <4>1. row'[c] = Finished(row[c], FALSE)
        BY <3>1, <3>4
      <4>2. QED
        BY <2>1, <3>1, <4>1, FinishedIs
    <3>5. QED
      BY <3>3, <3>4
  <2>2. QED
    BY <2>1 DEF NotifiedRises
<1>4. QED
  BY <1>2, <1>3 DEF Finish

LEMMA StepMails == ASSUME IInv, [Next]_vars PROVE MailsUnderClaim /\ NotifiedRises
<1>1. TypeOK /\ Writing /\ row \in [Checks -> Row]
  BY DEF IInv, TypeOK
<1>2. CASE UNCHANGED vars
  BY <1>1, <1>2, NoMails, SameNotified DEF vars
<1>3. CASE Quiet
  <2>1. UNCHANGED mails
    BY <1>3 DEF Quiet, Turns, Begin, Read, LeaseExpires
  <2>2. ASSUME NEW k \in Checks PROVE row'[k].notified = row[k].notified
    <3>1. CASE UNCHANGED row
      BY <3>1
    <3>2. ASSUME NEW c \in Checks, LeaseExpires(c) PROVE row'[k].notified = row[k].notified
      <4>1. row' = [row EXCEPT ![c] = [row[c] EXCEPT !.expired = TRUE]]
        BY <3>2 DEF LeaseExpires
      <4>2. row[c] \in Row /\ [row[c] EXCEPT !.expired = TRUE].notified = row[c].notified
        BY <1>1 DEF Row
      <4>3. QED
        BY <1>1, <4>1, <4>2
    <3>3. QED
      BY <1>3, <3>1, <3>2 DEF Quiet, Turns, Begin, Read
  <2>3. QED
    BY <1>1, <2>1, <2>2, NoMails, SameNotified
<1>4. ASSUME NEW s \in Runs,
             Claim(s) \/ Accepted(s) \/ Refused(s) \/ Finish(s) \/ Kill(s)
      PROVE  MailsUnderClaim /\ NotifiedRises
  <2>1. CASE Claim(s)
    BY <2>1, ClaimMails, ClaimRises
  <2>2. CASE Accepted(s) \/ Refused(s)
    <3>1. pc[s] = "send" /\ row' = row /\ (Arrives(s) \/ UNCHANGED mails)
      BY <2>2 DEF Accepted, Refused
    <3>2. QED
      BY <1>1, <3>1, RunMails, NoMails, SameNotified
  <2>3. CASE Finish(s)
    <3>1. UNCHANGED mails
      BY <2>3 DEF Finish
    <3>2. QED
      BY <1>1, <2>3, <3>1, NoMails, FinishRises
  <2>4. CASE Kill(s)
    <3>1. row' = Left(s, row) /\ (UNCHANGED mails \/ (pc[s] = "send" /\ Arrives(s)))
      BY <2>4 DEF Kill
    <3>2. \A c \in Checks : row'[c].notified = row[c].notified
      BY <1>1, <3>1, LeftIs
    <3>3. QED
      BY <1>1, <3>1, <3>2, RunMails, NoMails, SameNotified
  <2>5. QED
    BY <1>4, <2>1, <2>2, <2>3, <2>4
<1>5. QED
  BY <1>2, <1>3, <1>4 DEF Next, Step, Quiet

(* Whatever expires, is resolved, comes late or is killed, the one mail of *)
(* a run tells only of incidents whose claim it still holds, at levels of  *)
(* which the recipient has not been told.                                  *)
THEOREM MailsUnderClaimAlways == Spec => [][MailsUnderClaim]_vars
  BY Invariance, StepMails, PTL DEF Spec

(* Between two resolutions what the finish function records only rises, by *)
(* the run that holds the claim and after its mail: a lost answer or a run *)
(* that is over never sets it back.                                        *)
THEOREM NotifiedRisesAlways == Spec => [][NotifiedRises]_vars
  BY Invariance, StepMails, PTL DEF Spec
=============================================================================
