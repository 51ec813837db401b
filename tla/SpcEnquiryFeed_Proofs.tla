------------------------- MODULE SpcEnquiryFeed_Proofs -------------------------
(***************************************************************************)
(* Proofs about SPC enquiries and the board that follows them, for any     *)
(* number of enquiries, requests and attempts.                             *)
(***************************************************************************)
EXTENDS SpcEnquiryFeed, TLAPS

USE EnquiriesAssumption, FeedAssumption

-----------------------------------------------------------------------------
(* The inductive invariant.                                                *)

(* What a request that was committed leaves behind, which keeps it from    *)
(* being committed again.                                                  *)
Spent(r) ==
  LET e == asked[r].on IN
    /\ asked[r].kind \in EditsSent =>
         row[e].status \in Over \/ row[e].stamp > asked[r].version
    /\ asked[r].kind = "review" => row[e].stamp > asked[r].version
    /\ asked[r].kind = "reoffer" => row[e].status \in Over
    /\ asked[r].kind = "stem" => row[e].receipt = r
    /\ asked[r].kind \in {"save", "complete"} => fixture[e].version > asked[r].version
    /\ asked[r].kind = "erase" => fixture[e].status = "none"

RowsOK ==
  \A e \in Enquiry :
    /\ row[e].status = "absent" => row[e] = NoRow
    /\ row[e].status # "absent" => row[e].stamp > 0
    /\ row[e].notes = {} => row[e].words = row[e].by
    /\ row[e].by # Nobody => applied[row[e].by] > 0
    /\ row[e].receipt # Nobody => applied[row[e].receipt] > 0

AsksOK ==
  \A r \in Requests :
    /\ asked[r].kind = "none" =>
         applied[r] = 0 /\ r \notin told /\ \A a \in Attempt : try[r][a].at = "idle"
    /\ asked[r].kind \in OfRow =>
         /\ asked[r].on \in Enquiry
         /\ row[asked[r].on].status # "absent"
         /\ asked[r].version <= row[asked[r].on].stamp
    /\ asked[r].kind \in OfFixture =>
         asked[r].on \in Enquiry /\ row[asked[r].on].status = "quoted"
    /\ applied[r] > 0 => Spent(r)

TriesOK ==
  \A r \in Requests, a \in Attempt :
    /\ try[r][a].at = "inserted" =>
         /\ try[r][a].new \in Enquiry
         /\ asked[r].kind = "create"
         /\ row[try[r][a].new].by = r
    /\ /\ try[r][a].at = "loaded" /\ asked[r].kind \in OfRow
       /\ row[asked[r].on].stamp = asked[r].version
       => row[asked[r].on].notes \subseteq try[r][a].seen.notes

(* What a poll is about to show of an enquiry: its latest version, or what *)
(* the board shows already is; if not, the next poll will read it.         *)
PageOK ==
  page # NoPage =>
    \A e \in Active \ behind :
      \/ page[e] = row[e].stamp
      \/ \A p \in Read : IsAfter(Position(e, row[e].stamp), p)
      \/ cache[e] = row[e].stamp /\ page[e] = 0

RowInv == TypeOK /\ RowsOK /\ StemWhole /\ AsksOK /\ TriesOK /\ SavedOnce

IInv == FeedTypeOK /\ RowInv /\ BoardMissesNothing /\ PageOK

-----------------------------------------------------------------------------
(* What the writes do to the rows. *)

LEMMA InsertedIsRow ==
  ASSUME NEW r \in Requests \cup {Nobody}, NEW t \in Stamp
  PROVE  Inserted(r, t) \in Row
BY DEF Inserted, Row, Status, Stamp

LEMMA NoRowIsRow == NoRow \in Row
BY DEF NoRow, Inserted, Row, Status, Stamp

LEMMA Stamped ==
  ASSUME NEW x \in Row, NEW t \in Stamp, NEW y, y = [x EXCEPT !.stamp = t]
  PROVE  /\ y \in Row
         /\ y.stamp = t /\ y.status = x.status /\ y.notes = x.notes
         /\ y.revision = x.revision /\ y.by = x.by /\ y.words = x.words
         /\ y.receipt = x.receipt /\ y.source = x.source
BY DEF Row

(* The row of e is x but for a later stamp, and the other rows stay. *)
IsNow(e, x) ==
  /\ row' \in [Enquiry -> Row]
  /\ \A f \in Enquiry \ {e} : row'[f] = row[f]
  /\ row'[e].stamp > row[e].stamp
  /\ row'[e].status = x.status /\ row'[e].notes = x.notes
  /\ row'[e].revision = x.revision /\ row'[e].by = x.by /\ row'[e].words = x.words
  /\ row'[e].receipt = x.receipt /\ row'[e].source = x.source

LEMMA BecomesNow ==
  ASSUME row \in [Enquiry -> Row], NEW e \in Enquiry, NEW x \in Row, Becomes(e, x)
  PROVE  IsNow(e, x)
<1>1. PICK t \in Later(e) : row' = [row EXCEPT ![e] = [x EXCEPT !.stamp = t]]
  BY DEF Becomes
<1>2. t \in Stamp /\ t > row[e].stamp
  BY DEF Later
<1> DEFINE y == [x EXCEPT !.stamp = t]
<1>3. row' = [row EXCEPT ![e] = y]
  BY <1>1
<1>4. /\ y \in Row
      /\ y.stamp = t /\ y.status = x.status /\ y.notes = x.notes
      /\ y.revision = x.revision /\ y.by = x.by /\ y.words = x.words
      /\ y.receipt = x.receipt /\ y.source = x.source
  BY <1>2, Stamped
<1> HIDE DEF y
<1>5. row'[e] = y /\ row' \in [Enquiry -> Row] /\ \A f \in Enquiry \ {e} : row'[f] = row[f]
  BY <1>3, <1>4
<1>6. QED BY <1>2, <1>4, <1>5 DEF IsNow

(* The edits of a row, as the actions write them. *)
Worded(x, n, w) == [x EXCEPT !.notes = n, !.words = w]

Ended(x, n, s) == [x EXCEPT !.notes = n, !.status = s]

Stemmed(x, n, r, v) ==
  [x EXCEPT !.notes = n, !.status = "quoted", !.receipt = r, !.source = v]

Revised(x, n, w) == [x EXCEPT !.notes = n, !.words = w, !.revision = @ + 1]

LEMMA WordedRow ==
  ASSUME NEW x \in Row, NEW n \in SUBSET Requests, NEW w \in Requests \cup {Nobody}
  PROVE  LET y == Worded(x, n, w) IN
           /\ y \in Row /\ y.status = x.status /\ y.notes = n /\ y.revision = x.revision
           /\ y.by = x.by /\ y.words = w /\ y.receipt = x.receipt
BY DEF Row, Worded

LEMMA EndedRow ==
  ASSUME NEW x \in Row, NEW n \in SUBSET Requests, NEW s \in Status
  PROVE  LET y == Ended(x, n, s) IN
           /\ y \in Row /\ y.status = s /\ y.notes = n /\ y.revision = x.revision
           /\ y.by = x.by /\ y.words = x.words /\ y.receipt = x.receipt
BY DEF Row, Ended

LEMMA StemmedRow ==
  ASSUME NEW x \in Row, NEW n \in SUBSET Requests, NEW r \in Requests, NEW v \in Stamp
  PROVE  LET y == Stemmed(x, n, r, v) IN
           /\ y \in Row /\ y.status = "quoted" /\ y.notes = n /\ y.revision = x.revision
           /\ y.by = x.by /\ y.words = x.words /\ y.receipt = r
BY DEF Row, Status, Over, Stemmed

LEMMA RevisedRow ==
  ASSUME NEW x \in Row, NEW n \in SUBSET Requests, NEW w \in Requests \cup {Nobody}
  PROVE  LET y == Revised(x, n, w) IN
           /\ y \in Row /\ y.status = x.status /\ y.notes = n
           /\ y.revision = x.revision + 1 /\ y.by = x.by /\ y.words = w
           /\ y.receipt = x.receipt
<1> DEFINE v == x.revision + 1
<1>1. v \in Nat
  BY DEF Row
<1>2. Revised(x, n, w) = [x EXCEPT !.notes = n, !.words = w, !.revision = v]
  BY DEF Row, Revised
<1>3. v = x.revision + 1
  OBVIOUS
<1> HIDE DEF v
<1>4. QED BY <1>1, <1>2, <1>3 DEF Row

(* What any step of request r does to the row of e.                        *)
Arrives(r, e) ==
  /\ row[e].status = "absent"
  /\ \E u \in Stamp \ {0} : row'[e] = Inserted(r, u)

LEMMA Arrived ==
  ASSUME NEW r \in Requests, NEW e \in Enquiry, Arrives(r, e)
  PROVE  /\ row'[e].status = "sent" /\ row'[e].stamp \in Stamp /\ row'[e].stamp > 0
         /\ row'[e].notes = {} /\ row'[e].revision = 1 /\ row'[e].by = r
         /\ row'[e].words = r /\ row'[e].receipt = Nobody /\ row'[e] # row[e]
<1>1. PICK u \in Stamp \ {0} : row'[e] = Inserted(r, u)
  BY DEF Arrives
<1>2. /\ row'[e].status = "sent" /\ row'[e].stamp = u /\ row'[e].notes = {}
      /\ row'[e].revision = 1 /\ row'[e].by = r /\ row'[e].words = r
      /\ row'[e].receipt = Nobody
  BY <1>1 DEF Inserted
<1>3. row'[e] # row[e]
  BY <1>2 DEF Arrives
<1>4. QED BY <1>2, <1>3 DEF Stamp

Works(r, e) ==
  /\ e = asked[r].on /\ row[e].status = "sent"
  /\ row'[e].stamp > row[e].stamp
  /\ r \in row'[e].notes
  /\ row'[e].by = row[e].by
  /\ \/ /\ asked[r].kind \in {"edit", "lost", "stem"} /\ IsAsAsked(r, e)
        /\ row[e].notes \subseteq row'[e].notes
        /\ row'[e].status = CASE asked[r].kind = "edit" -> "sent"
                              [] asked[r].kind = "lost" -> "cancelled"
                              [] asked[r].kind = "stem" -> "quoted"
        /\ row'[e].receipt = IF asked[r].kind = "stem" THEN r ELSE row[e].receipt
     \/ /\ asked[r].kind = "amend"
        /\ row'[e].revision = row[e].revision + 1
        /\ row'[e].status = "sent" /\ row'[e].receipt = row[e].receipt
     \/ /\ asked[r].kind = "reoffer"
        /\ row'[e].status = "closed" /\ row'[e].receipt = row[e].receipt

Vanishes(r, e) ==
  /\ e = asked[r].on /\ row[e].status = "sent" /\ row'[e].status = "deleted"
  /\ asked[r].kind = "cancel"
  /\ row'[e].stamp = row[e].stamp /\ row'[e].notes = row[e].notes
  /\ row'[e].by = row[e].by /\ row'[e].words = row[e].words
  /\ row'[e].receipt = row[e].receipt

Restamps(r, e) ==
  /\ row[e].status \in {"quoted", "cancelled"} /\ row'[e].status = row[e].status
  /\ row'[e].stamp > row[e].stamp /\ row[e].notes \subseteq row'[e].notes
  /\ row'[e].by = row[e].by /\ row'[e].words = row[e].words
  /\ row'[e].receipt = row[e].receipt

RowStep(r, e) ==
  row'[e] = row[e] \/ Arrives(r, e) \/ Works(r, e) \/ Vanishes(r, e) \/ Restamps(r, e)

RowsStep(r) == row' \in [Enquiry -> Row] /\ \A e \in Enquiry : RowStep(r, e)

LEMMA SeenNotes ==
  ASSUME TypeOK, NEW r \in Requests, NEW a \in Attempt
  PROVE  Noted(r, a) \in SUBSET Requests /\ r \in Noted(r, a)
         /\ try[r][a].seen.notes \subseteq Noted(r, a)
BY DEF TypeOK, Noted, Try

LEMMA EditRows ==
  ASSUME RowInv, NEW r \in Requests, NEW a \in Attempt, Edit(r, a)
  PROVE  RowsStep(r) /\ Works(r, asked[r].on)
<1> DEFINE e == asked[r].on
<1>1. /\ TypeOK /\ row \in [Enquiry -> Row]
      /\ try[r][a].at = "loaded" /\ asked[r].kind \in {"edit", "lost"} /\ IsAsAsked(r, e)
  BY DEF Edit, Ready, RowInv, TypeOK
<1>2. e \in Enquiry /\ row[e] \in Row
  BY <1>1 DEF RowInv, AsksOK, OfRow
<1>3. /\ Noted(r, a) \in SUBSET Requests /\ r \in Noted(r, a)
      /\ try[r][a].seen.notes \subseteq Noted(r, a)
  BY <1>1, SeenNotes
<1>4. row[e].notes \subseteq Noted(r, a)
  <2>1. row[e].notes \subseteq try[r][a].seen.notes
    BY <1>1 DEF RowInv, TriesOK, OfRow, IsAsAsked
  <2>2. QED BY <2>1, <1>3
<1>5. row[e].status = "sent"
  BY <1>1 DEF IsAsAsked, IsSent
<1>6. CASE asked[r].kind = "edit"
  <2>1. PICK w \in {row[e].words, r} : Becomes(e, [row[e] EXCEPT !.notes = Noted(r, a), !.words = w])
    BY <1>6 DEF Edit
  <2>2. w \in Requests \cup {Nobody}
    BY <2>1, <1>2 DEF Row
  <2> DEFINE y == Worded(row[e], Noted(r, a), w)
  <2>3. /\ y \in Row /\ y.status = row[e].status /\ y.notes = Noted(r, a)
        /\ y.by = row[e].by /\ y.receipt = row[e].receipt
    BY <1>2, <1>3, <2>2, WordedRow
  <2>4. Becomes(e, y)
    BY <2>1 DEF Worded
  <2> HIDE DEF y
  <2>5. IsNow(e, y)
    BY <1>1, <1>2, <2>3, <2>4, BecomesNow
  <2>6. Works(r, e)
    BY <1>1, <1>3, <1>4, <1>5, <1>6, <2>3, <2>5 DEF IsNow, Works
  <2>7. QED BY <2>5, <2>6 DEF IsNow, RowsStep, RowStep
<1>7. CASE asked[r].kind = "lost"
  <2> DEFINE y == Ended(row[e], Noted(r, a), "cancelled")
  <2>1. Becomes(e, y)
    BY <1>7 DEF Edit, Ended
  <2>2. "cancelled" \in Status
    BY DEF Status, Over
  <2>3. /\ y \in Row /\ y.status = "cancelled" /\ y.notes = Noted(r, a)
        /\ y.by = row[e].by /\ y.receipt = row[e].receipt
    BY <1>2, <1>3, <2>2, EndedRow
  <2> HIDE DEF y
  <2>5. IsNow(e, y)
    BY <1>1, <1>2, <2>1, <2>3, BecomesNow
  <2>6. Works(r, e)
    BY <1>1, <1>3, <1>4, <1>5, <1>7, <2>3, <2>5 DEF IsNow, Works
  <2>7. QED BY <2>5, <2>6 DEF IsNow, RowsStep, RowStep
<1>8. QED BY <1>1, <1>6, <1>7

LEMMA StemRows ==
  ASSUME RowInv, NEW r \in Requests, NEW a \in Attempt, Stem(r, a)
  PROVE  RowsStep(r) /\ Works(r, asked[r].on)
<1> DEFINE e == asked[r].on
           y == Stemmed(row[e], Noted(r, a), r, asked[r].version)
<1>1. /\ TypeOK /\ row \in [Enquiry -> Row]
      /\ try[r][a].at = "loaded" /\ asked[r].kind = "stem" /\ IsAsAsked(r, e)
      /\ Becomes(e, y)
  BY DEF Stem, Ready, RowInv, TypeOK, Stemmed
<1>2. e \in Enquiry /\ row[e] \in Row
  BY <1>1 DEF RowInv, AsksOK, OfRow
<1>3. /\ Noted(r, a) \in SUBSET Requests /\ r \in Noted(r, a)
      /\ try[r][a].seen.notes \subseteq Noted(r, a)
  BY <1>1, SeenNotes
<1>4. row[e].notes \subseteq Noted(r, a)
  <2>1. row[e].notes \subseteq try[r][a].seen.notes
    BY <1>1 DEF RowInv, TriesOK, OfRow, IsAsAsked
  <2>2. QED BY <2>1, <1>3
<1>5. row[e].status = "sent" /\ row[e].stamp = asked[r].version
  BY <1>1 DEF IsAsAsked, IsSent
<1>6. asked[r].version \in Stamp
  BY <1>2, <1>5 DEF Row
<1>7. /\ y \in Row /\ y.status = "quoted" /\ y.notes = Noted(r, a)
      /\ y.by = row[e].by /\ y.receipt = r
  BY <1>2, <1>3, <1>6, StemmedRow
<1> HIDE DEF y
<1>8. IsNow(e, y)
  BY <1>1, <1>2, <1>7, BecomesNow
<1>9. Works(r, e)
  BY <1>1, <1>3, <1>4, <1>5, <1>7, <1>8 DEF IsNow, Works
<1>10. QED BY <1>8, <1>9 DEF IsNow, RowsStep, RowStep

LEMMA ReviewRows ==
  ASSUME RowInv, NEW r \in Requests, NEW a \in Attempt, Review(r, a)
  PROVE  RowsStep(r) /\ Restamps(r, asked[r].on)
<1> DEFINE e == asked[r].on
           y == Worded(row[e], Noted(r, a), row[e].words)
<1>1. /\ TypeOK /\ row \in [Enquiry -> Row]
      /\ try[r][a].at = "loaded" /\ asked[r].kind = "review"
      /\ row[e].status = "cancelled" /\ row[e].stamp = asked[r].version
  BY DEF Review, Ready, RowInv, TypeOK, IsLost
<1>2. e \in Enquiry /\ row[e] \in Row /\ row[e].words \in Requests \cup {Nobody}
  BY <1>1 DEF RowInv, AsksOK, OfRow, Row
<1>3. /\ Noted(r, a) \in SUBSET Requests
      /\ try[r][a].seen.notes \subseteq Noted(r, a)
  BY <1>1, SeenNotes
<1>4. row[e].notes \subseteq Noted(r, a)
  <2>1. row[e].notes \subseteq try[r][a].seen.notes
    BY <1>1 DEF RowInv, TriesOK, OfRow
  <2>2. QED BY <2>1, <1>3
<1>5. Becomes(e, y)
  <2>1. [row[e] EXCEPT !.notes = Noted(r, a)] = y
    BY <1>2 DEF Worded, Row
  <2>2. QED BY <2>1 DEF Review
<1>6. /\ y \in Row /\ y.status = row[e].status /\ y.notes = Noted(r, a)
      /\ y.by = row[e].by /\ y.words = row[e].words /\ y.receipt = row[e].receipt
  BY <1>2, <1>3, WordedRow
<1> HIDE DEF y
<1>7. IsNow(e, y)
  BY <1>1, <1>2, <1>5, <1>6, BecomesNow
<1>8. Restamps(r, e)
  BY <1>1, <1>4, <1>6, <1>7 DEF IsNow, Restamps
<1>9. QED BY <1>7, <1>8 DEF IsNow, RowsStep, RowStep

LEMMA AmendRows ==
  ASSUME RowInv, NEW r \in Requests, NEW a \in Attempt, Amend(r, a)
  PROVE  RowsStep(r) /\ Works(r, asked[r].on)
<1> DEFINE e == asked[r].on
           y == Revised(row[e], Noted(r, a), r)
<1>1. /\ TypeOK /\ row \in [Enquiry -> Row]
      /\ asked[r].kind = "amend" /\ row[e].status = "sent"
      /\ Becomes(e, y)
  BY DEF Amend, Ready, RowInv, TypeOK, IsSent, Revised
<1>2. e \in Enquiry /\ row[e] \in Row
  BY <1>1 DEF RowInv, AsksOK, OfRow
<1>3. Noted(r, a) \in SUBSET Requests /\ r \in Noted(r, a)
  BY <1>1, SeenNotes
<1>4. /\ y \in Row /\ y.status = row[e].status /\ y.notes = Noted(r, a)
      /\ y.revision = row[e].revision + 1 /\ y.by = row[e].by
      /\ y.receipt = row[e].receipt
  BY <1>2, <1>3, RevisedRow
<1> HIDE DEF y
<1>5. IsNow(e, y)
  BY <1>1, <1>2, <1>4, BecomesNow
<1>6. Works(r, e)
  BY <1>1, <1>3, <1>4, <1>5 DEF IsNow, Works
<1>7. QED BY <1>5, <1>6 DEF IsNow, RowsStep, RowStep

LEMMA CancelRows ==
  ASSUME RowInv, NEW r \in Requests, NEW a \in Attempt, Cancel(r, a)
  PROVE  RowsStep(r)
<1> DEFINE e == asked[r].on
           y == [row[e] EXCEPT !.status = "deleted"]
<1>1. /\ row \in [Enquiry -> Row] /\ asked[r].kind = "cancel" /\ row[e].status = "sent"
      /\ row' = [row EXCEPT ![e] = y]
  BY DEF Cancel, Ready, RowInv, TypeOK, IsAsAsked, IsSent
<1>2. e \in Enquiry /\ row[e] \in Row
  BY <1>1 DEF RowInv, AsksOK, OfRow
<1>3. /\ y \in Row /\ y.status = "deleted" /\ y.stamp = row[e].stamp /\ y.notes = row[e].notes
      /\ y.by = row[e].by /\ y.words = row[e].words /\ y.receipt = row[e].receipt
  BY <1>2 DEF Row, Status, Over
<1> HIDE DEF y
<1>4. row' \in [Enquiry -> Row] /\ row'[e] = y /\ \A f \in Enquiry \ {e} : row'[f] = row[f]
  BY <1>1, <1>2, <1>3
<1>5. Vanishes(r, e)
  BY <1>1, <1>3, <1>4 DEF Vanishes
<1>6. QED BY <1>4, <1>5 DEF RowsStep, RowStep

LEMMA ReofferRows ==
  ASSUME RowInv, NEW r \in Requests, NEW a \in Attempt, Reoffer(r, a)
  PROVE  RowsStep(r) /\ Works(r, asked[r].on)
<1> DEFINE e == asked[r].on
<1>1. /\ TypeOK /\ row \in [Enquiry -> Row]
      /\ asked[r].kind = "reoffer" /\ row[e].status = "sent"
  BY DEF Reoffer, Ready, RowInv, TypeOK, IsSent
<1>2. e \in Enquiry /\ row[e] \in Row
  BY <1>1 DEF RowInv, AsksOK, OfRow
<1>3. Noted(r, a) \in SUBSET Requests /\ r \in Noted(r, a)
  BY <1>1, SeenNotes
<1>4. PICK n \in Enquiry, u \in Stamp \ {0}, t \in Later(e) :
        /\ row[n].status = "absent"
        /\ row' = [row EXCEPT ![n] = Inserted(r, u),
                     ![e] = [@ EXCEPT !.notes = Noted(r, a), !.status = "closed", !.stamp = t]]
  BY DEF Reoffer
<1>5. n # e /\ t \in Stamp /\ t > row[e].stamp
  BY <1>1, <1>4 DEF Later
<1> DEFINE x == Ended(row[e], Noted(r, a), "closed")
           y == [x EXCEPT !.stamp = t]
<1>6. row' = [row EXCEPT ![n] = Inserted(r, u), ![e] = y]
  BY <1>1, <1>2, <1>4, <1>5 DEF Ended
<1>7. /\ x \in Row /\ x.status = "closed" /\ x.notes = Noted(r, a)
      /\ x.by = row[e].by /\ x.receipt = row[e].receipt
  <2>1. "closed" \in Status
    BY DEF Status, Over
  <2>2. QED BY <1>2, <1>3, <2>1, EndedRow
<1> HIDE DEF x
<1>8. /\ y \in Row /\ y.status = "closed" /\ y.notes = Noted(r, a) /\ y.stamp = t
      /\ y.by = row[e].by /\ y.receipt = row[e].receipt
  BY <1>5, <1>7, Stamped
<1> HIDE DEF y
<1>9. Inserted(r, u) \in Row
  BY InsertedIsRow
<1>10. /\ row' \in [Enquiry -> Row] /\ row'[e] = y /\ row'[n] = Inserted(r, u)
       /\ \A f \in Enquiry \ {e, n} : row'[f] = row[f]
  BY <1>1, <1>2, <1>5, <1>6, <1>8, <1>9
<1>11. Works(r, e)
  BY <1>1, <1>3, <1>5, <1>8, <1>10 DEF Works
<1>12. Arrives(r, n)
  BY <1>4, <1>10 DEF Arrives
<1>13. QED BY <1>10, <1>11, <1>12 DEF RowsStep, RowStep

LEMMA InsertRows ==
  ASSUME RowInv, NEW r \in Requests, NEW a \in Attempt, Insert(r, a)
  PROVE  RowsStep(r)
<1>1. PICK n \in Enquiry, u \in Stamp \ {0} :
        row[n].status = "absent" /\ row' = [row EXCEPT ![n] = Inserted(r, u)]
  BY DEF Insert
<1>2. Inserted(r, u) \in Row /\ row \in [Enquiry -> Row]
  BY InsertedIsRow DEF RowInv, TypeOK
<1>3. /\ row' \in [Enquiry -> Row] /\ row'[n] = Inserted(r, u)
      /\ \A f \in Enquiry \ {n} : row'[f] = row[f]
  BY <1>1, <1>2
<1>4. Arrives(r, n)
  BY <1>1, <1>3 DEF Arrives
<1>5. QED BY <1>3, <1>4 DEF RowsStep, RowStep

LEMMA SaveRows ==
  ASSUME RowInv, NEW r \in Requests, NEW a \in Attempt, Save(r, a)
  PROVE  RowsStep(r)
<1> DEFINE e == asked[r].on
<1>1. /\ row \in [Enquiry -> Row] /\ row[e].status = "quoted"
      /\ asked[r].kind \in OfFixture
      /\ row' = row \/ Becomes(e, row[e])
  BY DEF Save, Ready, RowInv, TypeOK, OfFixture
<1>2. e \in Enquiry /\ row[e] \in Row
  BY <1>1 DEF RowInv, AsksOK
<1>3. CASE row' = row
  BY <1>1, <1>3 DEF RowsStep, RowStep
<1>4. CASE Becomes(e, row[e])
  <2>1. IsNow(e, row[e])
    BY <1>1, <1>2, <1>4, BecomesNow
  <2>2. Restamps(r, e)
    BY <1>1, <2>1 DEF IsNow, Restamps
  <2>3. QED BY <2>1, <2>2 DEF IsNow, RowsStep, RowStep
<1>5. QED BY <1>1, <1>3, <1>4

(* One step of one request. *)
Acts(r, a) ==
  Load(r, a) \/ LookUp(r, a) \/ LoadFixture(r, a) \/ GivesUp(r, a) \/ Writes(r, a)

LEMMA Rowwise ==
  ASSUME RowInv, NEW r \in Requests,
         Ask(r) \/ \E a \in Attempt : Acts(r, a)
  PROVE  RowsStep(r)
<1>1. CASE row' = row
  BY <1>1 DEF RowsStep, RowStep, RowInv, TypeOK
<1>2. CASE Ask(r)
  BY <1>1, <1>2 DEF Ask, Asks
<1>3. ASSUME NEW a \in Attempt, Acts(r, a) PROVE RowsStep(r)
  <2>1. CASE Load(r, a) \/ LookUp(r, a) \/ LoadFixture(r, a) \/ GivesUp(r, a)
    BY <1>1, <2>1 DEF Load, LookUp, LoadFixture, GivesUp
  <2>2. CASE Confirm(r, a) \/ Enqueue(r, a) \/ Erase(r, a)
    BY <1>1, <2>2 DEF Confirm, Enqueue, Erase
  <2>3. QED BY <1>3, <2>1, <2>2, EditRows, ReviewRows, CancelRows, StemRows, AmendRows, ReofferRows,
               InsertRows, SaveRows DEF Acts, Writes
<1>4. QED BY <1>2, <1>3

-----------------------------------------------------------------------------
(* What a step of request r does to the rest.                              *)

LEMMA AnsweredTries ==
  ASSUME TypeOK, NEW r \in Requests, NEW a \in Attempt, Answered(r, a)
  PROVE  /\ try' \in [Requests -> [Attempt -> Try]]
         /\ \A q \in Requests, b \in Attempt : ~(q = r /\ b = a) => try'[q][b] = try[q][b]
         /\ try'[r][a].at = "over"
         /\ told' \in SUBSET Requests /\ told \subseteq told' /\ told' \subseteq told \cup {r}
<1> DEFINE x == [NoTry EXCEPT !.at = "over"]
<1>1. x \in Try /\ x.at = "over"
  BY DEF NoTry, Status, Try
<1>2. try \in [Requests -> [Attempt -> Try]] /\ try' = [try EXCEPT ![r][a] = x]
  BY DEF TypeOK, Answered
<1>3. told' \in {told, told \cup {r}} /\ told \in SUBSET Requests
  BY DEF TypeOK, Answered
<1> HIDE DEF x
<1>4. /\ try' \in [Requests -> [Attempt -> Try]]
      /\ \A q \in Requests, b \in Attempt : ~(q = r /\ b = a) => try'[q][b] = try[q][b]
      /\ try'[r][a] = x
  BY <1>1, <1>2
<1>5. QED BY <1>1, <1>3, <1>4

LEMMA MovesTries ==
  ASSUME TypeOK, NEW r \in Requests, NEW a \in Attempt, NEW at \in {"loaded", "inserted"},
         NEW new \in 0..Rows, Moves(r, a, at, new)
  PROVE  /\ try' \in [Requests -> [Attempt -> Try]]
         /\ \A q \in Requests, b \in Attempt : ~(q = r /\ b = a) => try'[q][b] = try[q][b]
         /\ try'[r][a].at = at /\ try'[r][a].new = new
<1> DEFINE y == try[r][a]
           x == [y EXCEPT !.at = at, !.new = new]
<1>1. try \in [Requests -> [Attempt -> Try]]
  BY DEF TypeOK
<1>2. y \in Try
  BY <1>1
<1>3. try' = [try EXCEPT ![r][a] = x]
  BY <1>1 DEF Moves
<1> HIDE DEF y
<1>4. x \in Try /\ x.at = at /\ x.new = new
  BY <1>2 DEF Try
<1> HIDE DEF x
<1>5. /\ try' \in [Requests -> [Attempt -> Try]]
      /\ \A q \in Requests, b \in Attempt : ~(q = r /\ b = a) => try'[q][b] = try[q][b]
      /\ try'[r][a] = x
  BY <1>1, <1>3, <1>4
<1>6. QED BY <1>4, <1>5

LEMMA LoadTries ==
  ASSUME TypeOK, NEW r \in Requests, NEW a \in Attempt, NEW e \in Enquiry,
         try' = [try EXCEPT ![r][a] = [at |-> "loaded", seen |-> Seen(e), new |-> 0]]
  PROVE  /\ try' \in [Requests -> [Attempt -> Try]]
         /\ \A q \in Requests, b \in Attempt : ~(q = r /\ b = a) => try'[q][b] = try[q][b]
         /\ try'[r][a].at = "loaded" /\ try'[r][a].seen.notes = row[e].notes
<1> DEFINE S == [status : Status, notes : SUBSET Requests, words : Requests \cup {Nobody}]
           x == [at |-> "loaded", seen |-> Seen(e), new |-> 0]
<1>1. try \in [Requests -> [Attempt -> Try]] /\ row[e] \in Row
  BY DEF TypeOK
<1>2. Seen(e) \in S /\ Seen(e).notes = row[e].notes
  BY <1>1 DEF Seen, Row
<1> HIDE DEF S
<1>3. x \in Try /\ x.at = "loaded" /\ x.seen = Seen(e)
  BY <1>2 DEF Try, S
<1>4. try' = [try EXCEPT ![r][a] = x]
  OBVIOUS
<1> HIDE DEF x
<1>5. /\ try' \in [Requests -> [Attempt -> Try]]
      /\ \A q \in Requests, b \in Attempt : ~(q = r /\ b = a) => try'[q][b] = try[q][b]
      /\ try'[r][a] = x
  BY <1>1, <1>3, <1>4
<1>6. QED BY <1>2, <1>3, <1>5

(* Of the other requests nothing changes, of this one only what is told.   *)
Books(r) ==
  /\ asked' \in [Requests -> [kind : {"none"} \cup Kind, on : 0..Rows, version : Nat]]
  /\ \A q \in Requests \ {r} : asked'[q] = asked[q]
  /\ try' \in [Requests -> [Attempt -> Try]]
  /\ \A q \in Requests \ {r}, b \in Attempt : try'[q][b] = try[q][b]
  /\ told' \in SUBSET Requests /\ told \subseteq told' /\ told' \subseteq told \cup {r}
  /\ applied' \in [Requests -> Nat]
  /\ \A q \in Requests \ {r} : applied'[q] = applied[q]
  /\ applied'[r] = applied[r] \/ applied'[r] = applied[r] + 1
  /\ row' # row => applied'[r] = applied[r] + 1
  /\ announced' \in SUBSET Enquiry /\ announced \subseteq announced'
  /\ fixture' \in [Enquiry -> Fixture]
  /\ made' \in [Enquiry -> Nat]

LEMMA CountedApplied ==
  ASSUME TypeOK, NEW r \in Requests, Counted(r)
  PROVE  /\ applied' \in [Requests -> Nat]
         /\ \A q \in Requests \ {r} : applied'[q] = applied[q]
         /\ applied'[r] = applied[r] + 1
BY DEF TypeOK, Counted

LEMMA AskBooks ==
  ASSUME TypeOK, NEW r \in Requests, Ask(r)
  PROVE  Books(r) /\ row' = row /\ try' = try /\ told' = told /\ applied' = applied
<1>1. ASSUME NEW k \in Kind, NEW e \in 0..Rows, NEW v \in Nat, Asks(r, k, e, v)
      PROVE  Books(r) /\ row' = row /\ try' = try /\ told' = told /\ applied' = applied
  BY <1>1 DEF TypeOK, Asks, Books
<1>2. CASE Asks(r, "create", 0, 0)
  BY <1>1, <1>2 DEF Kind
<1>3. CASE \E e \in Enquiry, k \in OfRow : row[e].status = Offers(k) /\ Asks(r, k, e, row[e].stamp)
  <2>1. PICK e \in Enquiry, k \in OfRow : Asks(r, k, e, row[e].stamp)
    BY <1>3
  <2>2. row[e].stamp \in Nat /\ e \in 0..Rows /\ k \in Kind
    BY DEF TypeOK, Row, Stamp, Enquiry, Kind
  <2>3. QED BY <1>1, <2>1, <2>2
<1>4. CASE \E e \in Enquiry, k \in OfFixture :
             fixture[e].status # "none" /\ Asks(r, k, e, fixture[e].version)
  <2>1. PICK e \in Enquiry, k \in OfFixture : Asks(r, k, e, fixture[e].version)
    BY <1>4
  <2>2. fixture[e].version \in Nat /\ e \in 0..Rows /\ k \in Kind
    BY DEF TypeOK, Fixture, Enquiry, Kind
  <2>3. QED BY <1>1, <2>1, <2>2
<1>5. QED BY <1>2, <1>3, <1>4 DEF Ask

(* A write answers and counts, and leaves what is asked.                   *)
LEMMA WriteBooks ==
  ASSUME TypeOK, NEW r \in Requests, NEW a \in Attempt, Answered(r, a), asked' = asked,
         Counted(r) \/ (applied' = applied /\ row' = row),
         announced' \in SUBSET Enquiry, announced \subseteq announced',
         fixture' \in [Enquiry -> Fixture], made' \in [Enquiry -> Nat]
  PROVE  Books(r)
BY AnsweredTries, CountedApplied DEF Books, TypeOK

LEMMA SavedFixture ==
  ASSUME RowInv, NEW r \in Requests, NEW a \in Attempt, Save(r, a)
  PROVE  LET e == asked[r].on IN
           /\ e \in Enquiry /\ fixture' \in [Enquiry -> Fixture]
           /\ fixture[e].status # "none" /\ fixture'[e].status # "none"
           /\ fixture[e].version = asked[r].version
           /\ fixture'[e].version = fixture[e].version + 1
           /\ \A f \in Enquiry \ {e} : fixture'[f] = fixture[f]
<1> DEFINE e == asked[r].on
           v == fixture[e].version + 1
           s == IF asked[r].kind = "complete" THEN "completed" ELSE fixture[e].status
           y == fixture[e]
           x == [y EXCEPT !.version = v, !.status = s]
<1>1. /\ e \in Enquiry /\ fixture \in [Enquiry -> Fixture]
      /\ fixture[e].status # "none" /\ fixture[e].version = asked[r].version
  BY DEF Save, Ready, RowInv, AsksOK, OfFixture, TypeOK, IsFixtureAsAsked
<1>2. y \in Fixture /\ v \in Nat /\ v = fixture[e].version + 1
      /\ s \in {"pending", "completed"}
  BY <1>1 DEF Fixture
<1>3. fixture' = [fixture EXCEPT ![e] = x]
  BY <1>1 DEF Save
<1> HIDE DEF v, s, y
<1>4. x \in Fixture /\ x.version = v /\ x.status = s
  BY <1>2 DEF Fixture
<1> HIDE DEF x
<1>5. /\ fixture' \in [Enquiry -> Fixture] /\ fixture'[e] = x
      /\ \A f \in Enquiry \ {e} : fixture'[f] = fixture[f]
  BY <1>1, <1>3, <1>4
<1>6. QED BY <1>1, <1>2, <1>4, <1>5

LEMMA ErasedFixture ==
  ASSUME RowInv, NEW r \in Requests, NEW a \in Attempt, Erase(r, a)
  PROVE  LET e == asked[r].on IN
           /\ e \in Enquiry /\ fixture' \in [Enquiry -> Fixture]
           /\ fixture[e].status # "none" /\ fixture'[e].status = "none"
           /\ fixture'[e].version = fixture[e].version
           /\ \A f \in Enquiry \ {e} : fixture'[f] = fixture[f]
<1> DEFINE e == asked[r].on
           y == fixture[e]
           x == [y EXCEPT !.status = "none"]
<1>1. /\ e \in Enquiry /\ fixture \in [Enquiry -> Fixture]
      /\ fixture[e].status # "none"
  BY DEF Erase, Ready, RowInv, AsksOK, OfFixture, TypeOK, IsFixtureAsAsked
<1>2. y \in Fixture /\ y = fixture[e]
  BY <1>1
<1>3. fixture' = [fixture EXCEPT ![e] = x]
  BY <1>1 DEF Erase
<1> HIDE DEF y
<1>4. x \in Fixture /\ x.version = y.version /\ x.status = "none"
  BY <1>2 DEF Fixture
<1> HIDE DEF x
<1>5. /\ fixture' \in [Enquiry -> Fixture] /\ fixture'[e] = x
      /\ \A f \in Enquiry \ {e} : fixture'[f] = fixture[f]
  BY <1>1, <1>3, <1>4
<1>6. QED BY <1>1, <1>2, <1>4, <1>5

LEMMA ActBooks ==
  ASSUME RowInv, NEW r \in Requests, NEW a \in Attempt, Acts(r, a)
  PROVE  Books(r) /\ asked' = asked
<1>0. TypeOK
  BY DEF RowInv
<1>1. CASE Load(r, a)
  <2>1. asked[r].on \in Enquiry
    BY <1>1 DEF Load, RowInv, AsksOK
  <2>2. QED BY <1>0, <1>1, <2>1, LoadTries DEF Load, Books, TypeOK
<1>2. CASE LookUp(r, a)
  <2>1. 0 \in 0..Rows /\ SameWords(r) \subseteq 0..Rows
    BY DEF SameWords, Enquiry
  <2>2. PICK at \in {"loaded", "inserted"}, new \in 0..Rows : Moves(r, a, at, new)
    BY <1>2, <2>1 DEF LookUp
  <2>3. QED BY <1>0, <1>2, <2>2, MovesTries DEF LookUp, Books, TypeOK
<1>3. CASE LoadFixture(r, a)
  <2>1. 0 \in 0..Rows
    OBVIOUS
  <2>2. QED BY <1>0, <1>3, <2>1, MovesTries DEF LoadFixture, Books, TypeOK
<1>4. CASE GivesUp(r, a)
  <2>1. [NoTry EXCEPT !.at = "over"] \in Try
    BY DEF NoTry, Try, Status
  <2>2. QED BY <1>0, <1>4, <2>1 DEF GivesUp, Books, TypeOK
<1>5. CASE Edit(r, a) \/ Review(r, a) \/ Cancel(r, a) \/ Confirm(r, a) \/ Amend(r, a)
  BY <1>0, <1>5, WriteBooks DEF Edit, Review, Cancel, Confirm, Amend, TypeOK
<1>6. CASE Stem(r, a)
  <2>1. asked[r].on \in Enquiry
    BY <1>6 DEF Stem, Ready, RowInv, AsksOK, OfRow
  <2>2. fixture' \in [Enquiry -> Fixture]
    BY <1>0, <1>6, <2>1 DEF Stem, Fixture, TypeOK
  <2>3. made' \in [Enquiry -> Nat]
    BY <1>0, <1>6, <2>1 DEF Stem, TypeOK
  <2>4. QED BY <1>0, <1>6, <2>2, <2>3, WriteBooks DEF Stem, TypeOK
<1>7. CASE Reoffer(r, a)
  <2>1. announced' \in SUBSET Enquiry /\ announced \subseteq announced'
    BY <1>0, <1>7 DEF Reoffer, TypeOK
  <2>2. QED BY <1>0, <1>7, <2>1, WriteBooks DEF Reoffer, TypeOK
<1>8. CASE Insert(r, a)
  <2>1. PICK n \in Enquiry : Moves(r, a, "inserted", n)
    BY <1>8 DEF Insert
  <2>2. n \in 0..Rows
    BY DEF Enquiry
  <2>3. QED BY <1>0, <1>8, <2>1, <2>2, MovesTries, CountedApplied DEF Insert, Books, TypeOK
<1>9. CASE Enqueue(r, a)
  <2>1. try[r][a].new \in Enquiry
    BY <1>9 DEF Enqueue, RowInv, TriesOK
  <2>2. announced' \in SUBSET Enquiry /\ announced \subseteq announced'
    BY <1>0, <1>9, <2>1 DEF Enqueue, TypeOK
  <2>3. QED BY <1>0, <1>9, <2>2, WriteBooks DEF Enqueue, TypeOK
<1>10. CASE Save(r, a)
  <2>1. fixture' \in [Enquiry -> Fixture]
    BY <1>10, SavedFixture
  <2>2. QED BY <1>0, <1>10, <2>1, WriteBooks DEF Save, TypeOK
<1>11. CASE Erase(r, a)
  <2>1. fixture' \in [Enquiry -> Fixture]
    BY <1>11, ErasedFixture
  <2>2. QED BY <1>0, <1>11, <2>1, WriteBooks DEF Erase, TypeOK
<1>12. QED BY <1>1, <1>2, <1>3, <1>4, <1>5, <1>6, <1>7, <1>8, <1>9, <1>10, <1>11
           DEF Acts, Writes

(* What a step of request r does to the fixture of e.                      *)
FixtureStep(r, e) ==
  \/ /\ fixture'[e] = fixture[e] /\ made'[e] = made[e]
     /\ row'[e].status = "quoted" => row[e].status = "quoted"
  \/ /\ row[e].status = "sent" /\ row'[e].status = "quoted"
     /\ fixture'[e].status # "none" /\ made'[e] = made[e] + 1
  \/ /\ row[e].status = "quoted" /\ made'[e] = made[e] /\ e = asked[r].on
     /\ \/ /\ asked[r].kind \in {"save", "complete"}
           /\ fixture[e].status # "none" /\ fixture'[e].status # "none"
           /\ fixture[e].version = asked[r].version
           /\ fixture'[e].version = fixture[e].version + 1
           /\ applied'[r] = applied[r] + 1
        \/ /\ asked[r].kind = "erase"
           /\ fixture[e].status # "none" /\ fixture'[e].status = "none"
           /\ fixture'[e].version = fixture[e].version
           /\ applied'[r] = applied[r] + 1

LEMMA Fixturewise ==
  ASSUME RowInv, NEW r \in Requests, Ask(r) \/ \E a \in Attempt : Acts(r, a),
         NEW e \in Enquiry
  PROVE  FixtureStep(r, e)
<1>0. RowStep(r, e) /\ TypeOK
  BY Rowwise DEF RowsStep, RowInv
<1>1. CASE Ask(r)
  BY <1>0, <1>1 DEF Ask, Asks, FixtureStep
<1>2. ASSUME NEW a \in Attempt, Acts(r, a) PROVE FixtureStep(r, e)
  <2>1. CASE row'[e].status = "quoted" => row[e].status = "quoted"
    <3>1. CASE fixture' = fixture /\ made' = made
      BY <2>1, <3>1 DEF FixtureStep
    <3>2. CASE Stem(r, a)
      <4>1. asked[r].on \in Enquiry /\ row[asked[r].on].status = "sent"
        BY <3>2 DEF Stem, Ready, RowInv, AsksOK, OfRow, IsAsAsked, IsSent
      <4>2. row'[asked[r].on].status = "quoted"
        BY <3>2, StemRows DEF Works, Stem, Ready
      <4>3. e # asked[r].on
        BY <2>1, <4>1, <4>2
      <4>4. QED BY <1>0, <2>1, <3>2, <4>3 DEF Stem, FixtureStep, TypeOK
    <3>3. CASE Save(r, a)
      <4>1. made' = made /\ row[asked[r].on].status = "quoted"
            /\ asked[r].kind \in {"save", "complete"} /\ applied'[r] = applied[r] + 1
        BY <1>0, <3>3, CountedApplied DEF Save, Ready
      <4>2. CASE e = asked[r].on
        BY <3>3, <4>1, <4>2, SavedFixture DEF FixtureStep
      <4>3. CASE e # asked[r].on
        BY <2>1, <3>3, <4>1, <4>3, SavedFixture DEF FixtureStep
      <4>4. QED BY <4>2, <4>3
    <3>4. CASE Erase(r, a)
      <4>1. asked[r].kind \in OfFixture
        BY <3>4 DEF Erase, Ready, OfFixture
      <4>2. row[asked[r].on].status = "quoted"
        BY <4>1 DEF RowInv, AsksOK
      <4>3. QED BY <1>0, <2>1, <3>4, <4>2, ErasedFixture, CountedApplied
                DEF Erase, Ready, FixtureStep
    <3>5. QED BY <1>2, <3>1, <3>2, <3>3, <3>4
              DEF Acts, Writes, Load, LookUp, LoadFixture, GivesUp, Edit, Review, Cancel, Confirm,
                  Amend, Reoffer, Insert, Enqueue
  <2>2. CASE row'[e].status = "quoted" /\ row[e].status # "quoted"
    <3>0. Works(r, e)
      <4>1. ~Arrives(r, e)
        BY <2>2, Arrived
      <4>2. ~Vanishes(r, e) /\ ~Restamps(r, e) /\ row'[e] # row[e]
        BY <2>2 DEF Vanishes, Restamps
      <4>3. QED BY <1>0, <4>1, <4>2 DEF RowStep
    <3>1. asked[r].kind = "stem" /\ row[e].status = "sent" /\ e = asked[r].on
      BY <3>0, <2>2 DEF Works
    <3>2. Stem(r, a)
      BY <1>2, <2>2, <3>1 DEF Acts, Writes, Load, LookUp, LoadFixture, GivesUp, Edit, Review,
         Cancel, Confirm, Amend, Reoffer, Insert, Enqueue, Save, Erase, Ready, OfRow, OfFixture,
         RowInv, TriesOK
    <3>3. QED BY <1>0, <2>2, <3>1, <3>2 DEF Stem, FixtureStep, TypeOK
  <2>3. QED BY <2>1, <2>2
<1>3. QED BY <1>1, <1>2

-----------------------------------------------------------------------------
(* Each part of the invariant, kept by a step of request r.                *)

LEMMA TypeKept ==
  ASSUME RowInv, NEW r \in Requests, Ask(r) \/ \E a \in Attempt : Acts(r, a)
  PROVE  Books(r) /\ TypeOK'
<1>1. row' \in [Enquiry -> Row]
  BY Rowwise DEF RowsStep
<1>2. Books(r)
  BY AskBooks, ActBooks DEF RowInv
<1>3. QED BY <1>1, <1>2 DEF TypeOK, Books

LEMMA RowsKept ==
  ASSUME RowInv, NEW r \in Requests, Ask(r) \/ \E a \in Attempt : Acts(r, a)
  PROVE  RowsOK'
<1>0. Books(r) /\ TypeOK /\ row \in [Enquiry -> Row] /\ row' \in [Enquiry -> Row]
  BY TypeKept DEF RowInv, TypeOK
<1> SUFFICES ASSUME NEW e \in Enquiry
             PROVE  /\ row'[e].status = "absent" => row'[e] = NoRow
                    /\ row'[e].status # "absent" => row'[e].stamp > 0
                    /\ row'[e].notes = {} => row'[e].words = row'[e].by
                    /\ row'[e].by # Nobody => applied'[row'[e].by] > 0
                    /\ row'[e].receipt # Nobody => applied'[row'[e].receipt] > 0
  BY DEF RowsOK
<1>1. RowStep(r, e) /\ row[e] \in Row /\ row'[e] \in Row
  BY <1>0, Rowwise DEF RowsStep
<1>2. /\ row[e].status = "absent" => row[e] = NoRow
      /\ row[e].status # "absent" => row[e].stamp > 0
      /\ row[e].notes = {} => row[e].words = row[e].by
      /\ row[e].by # Nobody => applied[row[e].by] > 0
      /\ row[e].receipt # Nobody => applied[row[e].receipt] > 0
  BY DEF RowInv, RowsOK
<1>3. /\ \A q \in Requests : applied'[q] \in Nat /\ applied[q] \in Nat /\ applied'[q] >= applied[q]
      /\ row' # row => applied'[r] > 0
  <2>1. \A q \in Requests : applied'[q] \in Nat /\ applied[q] \in Nat
    BY <1>0 DEF Books, TypeOK
  <2>2. applied'[r] >= applied[r] /\ (row' # row => applied'[r] = applied[r] + 1)
    BY <1>0, <2>1 DEF Books
  <2>3. \A q \in Requests \ {r} : applied'[q] = applied[q]
    BY <1>0 DEF Books
  <2>4. QED BY <2>1, <2>2, <2>3
<1>4. /\ row[e].by \in Requests \cup {Nobody} /\ row[e].receipt \in Requests \cup {Nobody}
      /\ row[e].stamp \in Nat /\ row'[e].stamp \in Nat
  BY <1>1 DEF Row, Stamp
<1>5. CASE row'[e] = row[e]
  BY <1>2, <1>3, <1>4, <1>5
<1>6. CASE Arrives(r, e)
  <2>1. row' # row
    BY <1>6, Arrived
  <2>2. QED BY <1>3, <1>6, <2>1, Arrived
<1>7. CASE Works(r, e)
  <2>1. /\ row'[e].status # "absent" /\ row'[e].stamp > 0 /\ row'[e].notes # {}
        /\ row'[e].by = row[e].by
        /\ row'[e].receipt = row[e].receipt \/ row'[e].receipt = r
    BY <1>4, <1>7 DEF Works
  <2>2. row' # row
    <3>1. row'[e].stamp # row[e].stamp
      BY <1>4, <1>7 DEF Works
    <3>2. QED BY <3>1
  <2>3. QED BY <1>2, <1>3, <1>4, <2>1, <2>2
<1>8. CASE Vanishes(r, e)
  BY <1>2, <1>3, <1>4, <1>8 DEF Vanishes
<1>9. CASE Restamps(r, e)
  BY <1>2, <1>3, <1>4, <1>9 DEF Restamps
<1>10. QED BY <1>1, <1>5, <1>6, <1>7, <1>8, <1>9 DEF RowStep

LEMMA StemKept ==
  ASSUME RowInv, NEW r \in Requests, Ask(r) \/ \E a \in Attempt : Acts(r, a)
  PROVE  StemWhole'
<1> SUFFICES ASSUME NEW e \in Enquiry
             PROVE  /\ row'[e].status = "quoted" <=> row'[e].receipt # Nobody
                    /\ made'[e] = IF row'[e].status = "quoted" THEN 1 ELSE 0
                    /\ fixture'[e].status # "none" => row'[e].status = "quoted"
  BY DEF StemWhole
<1>1. RowStep(r, e) /\ FixtureStep(r, e)
  BY Rowwise, Fixturewise DEF RowsStep
<1>2. /\ row[e].status = "quoted" <=> row[e].receipt # Nobody
      /\ made[e] = IF row[e].status = "quoted" THEN 1 ELSE 0
      /\ fixture[e].status # "none" => row[e].status = "quoted"
  BY DEF RowInv, StemWhole
<1>3. row'[e].status = "quoted" <=> row'[e].receipt # Nobody
  <2>1. CASE Arrives(r, e)
    BY <2>1, Arrived
  <2>2. CASE Works(r, e)
    BY <1>2, <2>2 DEF Works
  <2>3. CASE row'[e] = row[e] \/ Vanishes(r, e) \/ Restamps(r, e)
    BY <1>2, <2>3 DEF Vanishes, Restamps
  <2>4. QED BY <1>1, <2>1, <2>2, <2>3 DEF RowStep
<1>4. row[e].status = "quoted" => row'[e].status = "quoted"
  BY <1>1 DEF RowStep, Arrives, Works, Vanishes, Restamps
<1>5. QED BY <1>1, <1>2, <1>3, <1>4 DEF FixtureStep

(* What is there stays, and what is over stays as it is.                   *)
LEMMA Grows ==
  ASSUME RowInv, NEW r \in Requests, Ask(r) \/ \E a \in Attempt : Acts(r, a),
         NEW e \in Enquiry
  PROVE  /\ row[e].stamp \in Nat /\ row'[e].stamp \in Nat /\ row'[e].stamp >= row[e].stamp
         /\ row[e].status # "absent" =>
              row'[e].status # "absent" /\ row'[e].by = row[e].by
         /\ row[e].status \in Over =>
              /\ row'[e].status = row[e].status /\ row[e].notes \subseteq row'[e].notes
              /\ row'[e].receipt = row[e].receipt
         /\ row[e].receipt # Nobody => row'[e].receipt = row[e].receipt
<1>1. RowStep(r, e) /\ row[e] \in Row /\ row'[e] \in Row
  BY Rowwise DEF RowsStep, RowInv, TypeOK
<1>2. row[e].stamp \in Nat /\ row'[e].stamp \in Nat
  BY <1>1 DEF Row, Stamp
<1>3. /\ row[e].status = "absent" => row[e].stamp = 0 /\ row[e].receipt = Nobody
      /\ row[e].status = "quoted" <=> row[e].receipt # Nobody
  BY DEF RowInv, RowsOK, StemWhole, NoRow, Inserted
<1>4. CASE row'[e] = row[e]
  BY <1>2, <1>4
<1>5. CASE Arrives(r, e)
  BY <1>2, <1>3, <1>5, Arrived DEF Arrives, Over
<1>6. CASE Works(r, e)
  BY <1>2, <1>3, <1>6 DEF Works, Over
<1>7. CASE Vanishes(r, e)
  BY <1>2, <1>3, <1>7 DEF Vanishes, Over
<1>8. CASE Restamps(r, e)
  BY <1>2, <1>3, <1>8 DEF Restamps, Over
<1>9. QED BY <1>1, <1>4, <1>5, <1>6, <1>7, <1>8 DEF RowStep

LEMMA SpentKept ==
  ASSUME RowInv, NEW r \in Requests, Ask(r) \/ \E a \in Attempt : Acts(r, a),
         NEW q \in Requests, asked'[q] = asked[q], Spent(q)
  PROVE  Spent(q)'
<1> DEFINE e == asked[q].on
<1>1. /\ asked[q].kind \in OfRow \cup OfFixture => e \in Enquiry
      /\ asked[q].kind \in OfFixture => row[e].status = "quoted"
      /\ asked[q].version \in Nat
  BY DEF RowInv, AsksOK, TypeOK
<1>2. asked[q].kind \in EditsSent => row'[e].status \in Over \/ row'[e].stamp > asked[q].version
  <2>1. SUFFICES ASSUME asked[q].kind \in EditsSent
                 PROVE  row'[e].status \in Over \/ row'[e].stamp > asked[q].version
    OBVIOUS
  <2>2. e \in Enquiry /\ (row[e].status \in Over \/ row[e].stamp > asked[q].version)
    BY <1>1, <2>1 DEF Spent, EditsSent, OfRow
  <2>3. QED BY <1>1, <2>2, Grows
<1>3. /\ asked[q].kind = "review" => row'[e].stamp > asked[q].version
      /\ asked[q].kind = "reoffer" => row'[e].status \in Over
  BY <1>1, Grows DEF Spent, OfRow
<1>4. asked[q].kind = "stem" => row'[e].receipt = q
  BY <1>1, Grows DEF Spent, OfRow
<1>5. asked[q].kind \in OfFixture =>
        \/ fixture'[e] = fixture[e]
        \/ fixture[e].status # "none" /\ fixture'[e].version >= fixture[e].version
  <2>1. SUFFICES ASSUME asked[q].kind \in OfFixture
                 PROVE  \/ fixture'[e] = fixture[e]
                        \/ fixture[e].status # "none" /\ fixture'[e].version >= fixture[e].version
    OBVIOUS
  <2>2. e \in Enquiry /\ FixtureStep(r, e) /\ row[e].status = "quoted"
    BY <1>1, <2>1, Fixturewise
  <2>3. fixture[e].version \in Nat
    BY <2>2 DEF RowInv, TypeOK, Fixture
  <2>4. QED BY <2>2, <2>3 DEF FixtureStep
<1>6. asked[q].kind \in {"save", "complete"} => fixture'[e].version > asked[q].version
  <2>1. SUFFICES ASSUME asked[q].kind \in {"save", "complete"}
                 PROVE  fixture'[e].version > asked[q].version
    OBVIOUS
  <2>2. e \in Enquiry /\ fixture[e].version > asked[q].version
    BY <1>1, <2>1 DEF Spent, OfFixture
  <2>3. fixture[e].version \in Nat /\ fixture'[e].version \in Nat
    BY <2>2, TypeKept DEF RowInv, TypeOK, Fixture
  <2>4. QED BY <1>1, <1>5, <2>1, <2>2, <2>3 DEF OfFixture
<1>7. asked[q].kind = "erase" => fixture'[e].status = "none"
  BY <1>5 DEF Spent, OfFixture
<1>8. QED BY <1>2, <1>3, <1>4, <1>6, <1>7 DEF Spent

(* A request that is committed was not before, and is spent.               *)
LEMMA Once ==
  ASSUME RowInv, NEW r \in Requests, NEW a \in Attempt, Acts(r, a),
         applied'[r] = applied[r] + 1, asked[r].kind \notin {"create", "amend"}
  PROVE  applied[r] = 0 /\ Spent(r)'
<1> DEFINE e == asked[r].on
<1>0. /\ applied[r] \in Nat /\ (applied[r] > 0 => Spent(r))
      /\ asked' = asked /\ asked[r].version \in Nat
      /\ asked[r].kind \in OfRow => e \in Enquiry
  BY ActBooks DEF RowInv, TypeOK, AsksOK
<1>1. SUFFICES ~Spent(r) /\ Spent(r)'
  BY <1>0
<1>2. CASE Edit(r, a) \/ Cancel(r, a)
  <2>1. asked[r].kind \in EditsSent /\ IsAsAsked(r, e) /\ e \in Enquiry
    BY <1>0, <1>2 DEF Edit, Cancel, Ready, EditsSent, OfRow
  <2>2. row[e].status = "sent" /\ row[e].stamp = asked[r].version /\ row[e].stamp \in Nat
    BY <1>0, <2>1 DEF IsAsAsked, IsSent
  <2>3. ~Spent(r)
    BY <2>1, <2>2 DEF Spent, Over
  <2>4. row'[e].stamp > row[e].stamp \/ row'[e].status \in Over
    <3>1. CASE Edit(r, a)
      BY <3>1, EditRows DEF Works
    <3>2. CASE Cancel(r, a)
      BY <2>1, <2>2, <3>2 DEF Cancel, Over, RowInv, TypeOK, Row
    <3>3. QED BY <1>2, <3>1, <3>2
  <2>5. QED BY <1>0, <2>1, <2>2, <2>3, <2>4 DEF Spent, EditsSent
<1>3. CASE Stem(r, a)
  <2>1. asked[r].kind = "stem" /\ row[e].receipt # r /\ Works(r, e)
    BY <1>3, StemRows DEF Stem, Ready, IsRepeated
  <2>2. row'[e].receipt = r
    BY <2>1 DEF Works
  <2>3. QED BY <1>0, <2>1, <2>2 DEF Spent, EditsSent
<1>4. CASE Reoffer(r, a)
  <2>1. asked[r].kind = "reoffer" /\ row[e].status = "sent" /\ Works(r, e)
    BY <1>4, ReofferRows DEF Reoffer, Ready, IsSent
  <2>2. row'[e].status = "closed"
    BY <2>1 DEF Works
  <2>3. QED BY <1>0, <2>1, <2>2 DEF Spent, EditsSent, Over
<1>5. CASE Save(r, a)
  <2>1. asked[r].kind \in {"save", "complete"}
    BY <1>5 DEF Save, Ready
  <2>2. fixture[e].version = asked[r].version /\ fixture'[e].version = asked[r].version + 1
    BY <1>5, SavedFixture
  <2>3. QED BY <1>0, <2>1, <2>2 DEF Spent, EditsSent
<1>6. CASE Erase(r, a)
  <2>1. asked[r].kind = "erase"
    BY <1>6 DEF Erase, Ready
  <2>2. fixture[e].status # "none" /\ fixture'[e].status = "none"
    BY <1>6, ErasedFixture
  <2>3. QED BY <1>0, <2>1, <2>2 DEF Spent, EditsSent
<1>7. CASE Amend(r, a) \/ Insert(r, a)
  BY <1>7 DEF Amend, Insert, Ready
<1>8. CASE applied' = applied
  BY <1>0, <1>8
<1>9. CASE Review(r, a)
  <2>1. asked[r].kind = "review" /\ row[e].stamp = asked[r].version
    BY <1>9 DEF Review, Ready, IsLost
  <2>2. row'[e].stamp > row[e].stamp /\ e \in Enquiry
    BY <1>0, <1>9, <2>1, ReviewRows DEF Restamps, OfRow
  <2>3. ~Spent(r)
    <3>1. row[e].stamp \in Nat
      BY <1>9, <2>2, Grows
    <3>2. QED BY <2>1, <3>1 DEF Spent
  <2>4. QED BY <1>0, <2>1, <2>2, <2>3 DEF Spent, EditsSent
<1>10. QED BY <1>2, <1>3, <1>4, <1>5, <1>6, <1>7, <1>8, <1>9
          DEF Acts, Writes, Load, LookUp, LoadFixture, GivesUp, Confirm, Enqueue

(* An attempt acts on a request that was asked, while it is open.          *)
LEMMA ActsOnAsked ==
  ASSUME RowInv, NEW r \in Requests, NEW a \in Attempt, Acts(r, a)
  PROVE  asked[r].kind # "none"
<1>1. CASE Load(r, a) \/ LookUp(r, a) \/ LoadFixture(r, a)
  BY <1>1 DEF Load, LookUp, LoadFixture, Begins
<1>2. CASE try[r][a].at # "idle"
  BY <1>2 DEF RowInv, AsksOK
<1>3. CASE GivesUp(r, a) \/ Writes(r, a)
  BY <1>2, <1>3 DEF GivesUp, Writes, Edit, Review, Cancel, Stem, Confirm, Amend, Reoffer, Insert, Enqueue,
     Save, Erase, Ready
<1>4. QED BY <1>1, <1>3 DEF Acts

LEMMA AsksKept ==
  ASSUME RowInv, NEW r \in Requests, Ask(r) \/ \E a \in Attempt : Acts(r, a)
  PROVE  AsksOK'
<1> DEFINE Good(q) ==
      /\ asked[q].kind = "none" =>
           applied[q] = 0 /\ q \notin told /\ \A b \in Attempt : try[q][b].at = "idle"
      /\ asked[q].kind \in OfRow =>
           /\ asked[q].on \in Enquiry
           /\ row[asked[q].on].status # "absent"
           /\ asked[q].version <= row[asked[q].on].stamp
      /\ asked[q].kind \in OfFixture =>
           asked[q].on \in Enquiry /\ row[asked[q].on].status = "quoted"
      /\ applied[q] > 0 => Spent(q)
<1>0. Books(r) /\ TypeOK /\ \A q \in Requests : Good(q)
  BY TypeKept DEF RowInv, AsksOK
<1>1. SUFFICES ASSUME NEW q \in Requests PROVE Good(q)'
  BY DEF AsksOK
<1>2. ASSUME asked'[q] = asked[q]
      PROVE  /\ asked'[q].kind \in OfRow =>
                  /\ asked'[q].on \in Enquiry
                  /\ row'[asked'[q].on].status # "absent"
                  /\ asked'[q].version <= row'[asked'[q].on].stamp
             /\ asked'[q].kind \in OfFixture =>
                  asked'[q].on \in Enquiry /\ row'[asked'[q].on].status = "quoted"
  <2>1. asked[q].version \in Nat
    BY <1>0 DEF TypeOK
  <2>2. CASE asked[q].kind \in OfRow
    <3>1. /\ asked[q].on \in Enquiry /\ row[asked[q].on].status # "absent"
          /\ asked[q].version <= row[asked[q].on].stamp
      BY <1>0, <2>2
    <3>2. asked[q].kind \notin OfFixture
      BY <2>2 DEF OfRow, OfFixture
    <3>3. QED BY <1>2, <2>1, <3>1, <3>2, Grows
  <2>3. CASE asked[q].kind \in OfFixture
    <3>1. asked[q].on \in Enquiry /\ row[asked[q].on].status = "quoted"
      BY <1>0, <2>3
    <3>2. asked[q].kind \notin OfRow
      BY <2>3 DEF OfRow, OfFixture
    <3>3. QED BY <1>2, <3>1, <3>2, Grows DEF Over
  <2>4. QED BY <1>2, <2>2, <2>3
<1>3. CASE q # r
  <2>1. /\ asked'[q] = asked[q] /\ applied'[q] = applied[q] /\ (q \in told' <=> q \in told)
        /\ \A b \in Attempt : try'[q][b] = try[q][b]
    BY <1>0, <1>3 DEF Books
  <2>2. applied'[q] > 0 => Spent(q)'
    BY <1>0, <2>1, SpentKept
  <2>3. QED BY <1>0, <1>2, <2>1, <2>2
<1>4. CASE q = r /\ Ask(r)
  <2>1. /\ asked[r].kind = "none" /\ row' = row /\ fixture' = fixture
        /\ try' = try /\ told' = told /\ applied' = applied
    BY <1>4 DEF Ask, Asks
  <2>2. applied'[r] = 0
    BY <1>0, <2>1
  <2>3. PICK k \in Kind, e \in 0..Rows, v \in Nat :
          /\ asked' = [asked EXCEPT ![r] = [kind |-> k, on |-> e, version |-> v]]
          /\ k \in OfRow => e \in Enquiry /\ row[e].status # "absent" /\ v = row[e].stamp
          /\ k \in OfFixture => e \in Enquiry /\ fixture[e].status # "none"
    <3>1. CASE Asks(r, "create", 0, 0)
      <4>1. "create" \in Kind /\ "create" \notin OfRow /\ "create" \notin OfFixture
        BY DEF Kind, OfRow, OfFixture
      <4>2. 0 \in 0..Rows /\ 0 \in Nat
        OBVIOUS
      <4>3. asked' = [asked EXCEPT ![r] = [kind |-> "create", on |-> 0, version |-> 0]]
        BY <3>1 DEF Asks
      <4>4. QED BY <4>1, <4>2, <4>3
    <3>2. CASE \E e \in Enquiry, k \in OfRow : row[e].status = Offers(k) /\ Asks(r, k, e, row[e].stamp)
      <4>1. PICK e \in Enquiry, k \in OfRow : row[e].status = Offers(k) /\ Asks(r, k, e, row[e].stamp)
        BY <3>2
      <4>2. row[e].stamp \in Nat /\ e \in 0..Rows
        BY <1>0 DEF TypeOK, Row, Stamp, Enquiry
      <4>3. k \in Kind /\ k \notin OfFixture
        BY DEF Kind, OfRow, OfFixture
      <4>4. QED BY <4>1, <4>2, <4>3 DEF Asks, Offers
    <3>3. CASE \E e \in Enquiry, k \in OfFixture :
                 fixture[e].status # "none" /\ Asks(r, k, e, fixture[e].version)
      <4>1. PICK e \in Enquiry, k \in OfFixture :
              fixture[e].status # "none" /\ Asks(r, k, e, fixture[e].version)
        BY <3>3
      <4>2. fixture[e].version \in Nat /\ e \in 0..Rows
        BY <1>0 DEF TypeOK, Fixture, Enquiry
      <4>3. k \in Kind /\ k \notin OfRow
        BY DEF Kind, OfRow, OfFixture
      <4>4. QED BY <4>1, <4>2, <4>3 DEF Asks
    <3>4. QED BY <1>4, <3>1, <3>2, <3>3 DEF Ask
  <2>4. asked'[r].kind = k /\ asked'[r].on = e /\ asked'[r].version = v
    BY <1>0, <2>3 DEF TypeOK
  <2>5. k # "none"
    BY DEF Kind, OfRow, OfFixture
  <2>6. k \in OfRow => row'[e].status # "absent" /\ v <= row'[e].stamp /\ e \in Enquiry
    BY <1>0, <2>1, <2>3 DEF TypeOK, Row, Stamp
  <2>7. k \in OfFixture => e \in Enquiry /\ row'[e].status = "quoted"
    BY <2>1, <2>3 DEF RowInv, StemWhole
  <2>8. QED BY <1>4, <2>2, <2>4, <2>5, <2>6, <2>7
<1>5. CASE q = r /\ \E a \in Attempt : Acts(r, a)
  <2>1. PICK a \in Attempt : Acts(r, a)
    BY <1>5
  <2>2. asked' = asked /\ asked[r].kind # "none" /\ applied[r] \in Nat
    BY <1>0, <2>1, ActBooks, ActsOnAsked DEF TypeOK
  <2>3. applied'[r] > 0 => Spent(r)'
    <3>1. CASE applied[r] > 0
      BY <1>0, <2>2, <3>1, SpentKept
    <3>2. CASE applied[r] = 0 /\ applied'[r] = applied[r] + 1
      <4>1. CASE asked[r].kind \in {"create", "amend"}
        BY <2>2, <4>1 DEF Spent, EditsSent
      <4>2. CASE asked[r].kind \notin {"create", "amend"}
        BY <2>1, <3>2, <4>2, Once
      <4>3. QED BY <4>1, <4>2
    <3>3. QED BY <1>0, <2>2, <3>1, <3>2 DEF Books
  <2>4. QED BY <1>2, <1>5, <2>2, <2>3
<1>6. QED BY <1>3, <1>4, <1>5

LEMMA TriesKept ==
  ASSUME RowInv, NEW r \in Requests, Ask(r) \/ \E a \in Attempt : Acts(r, a)
  PROVE  TriesOK'
<1>0. Books(r) /\ TypeOK /\ RowInv
  BY TypeKept DEF RowInv
<1> DEFINE Put(q, b) ==
      try[q][b].at = "inserted" =>
        /\ try[q][b].new \in Enquiry
        /\ asked[q].kind = "create"
        /\ row[try[q][b].new].by = q
           Kept(q, b) ==
      /\ try[q][b].at = "loaded" /\ asked[q].kind \in OfRow
      /\ row[asked[q].on].stamp = asked[q].version
      => row[asked[q].on].notes \subseteq try[q][b].seen.notes
<1>1. SUFFICES ASSUME NEW q \in Requests, NEW b \in Attempt PROVE Put(q, b)' /\ Kept(q, b)'
  BY DEF TriesOK
<1>2. Put(q, b) /\ Kept(q, b)
  BY DEF RowInv, TriesOK
(* An attempt that stays as it was. *)
<1>3. ASSUME try'[q][b] = try[q][b], asked'[q] = asked[q]
      PROVE  Put(q, b)' /\ Kept(q, b)'
  <2>1. Put(q, b)'
    <3>1. SUFFICES ASSUME try[q][b].at = "inserted"
                   PROVE  /\ try[q][b].new \in Enquiry /\ asked[q].kind = "create"
                          /\ row'[try[q][b].new].by = q
      BY <1>3
    <3>2. /\ try[q][b].new \in Enquiry /\ asked[q].kind = "create"
          /\ row[try[q][b].new].by = q
      BY <1>2, <3>1
    <3>3. row[try[q][b].new].status # "absent"
      BY <3>2 DEF RowInv, RowsOK, NoRow, Inserted
    <3>4. QED BY <3>2, <3>3, Grows
  <2>2. Kept(q, b)'
    <3>1. SUFFICES ASSUME try[q][b].at = "loaded", asked[q].kind \in OfRow,
                          row'[asked[q].on].stamp = asked[q].version
                   PROVE  row'[asked[q].on].notes \subseteq try[q][b].seen.notes
      BY <1>3
    <3> DEFINE e == asked[q].on
    <3>2. e \in Enquiry /\ row[e].status # "absent" /\ asked[q].version <= row[e].stamp
          /\ asked[q].version \in Nat
      BY <1>0, <3>1 DEF RowInv, AsksOK, TypeOK
    <3>3. RowStep(r, e) /\ row[e].stamp \in Nat
      BY <3>2, Rowwise, Grows DEF RowsStep
    <3>4. row'[e].stamp = row[e].stamp /\ row'[e].notes = row[e].notes
      BY <3>1, <3>2, <3>3 DEF RowStep, Arrives, Works, Vanishes, Restamps
    <3>5. QED BY <1>2, <3>1, <3>4
  <2>3. QED BY <2>1, <2>2
<1>4. CASE q # r
  BY <1>0, <1>3, <1>4 DEF Books
<1>5. CASE q = r /\ Ask(r)
  <2>1. asked[r].kind = "none" /\ try' = try
    BY <1>5 DEF Ask, Asks
  <2>2. try[r][b].at = "idle"
    BY <2>1 DEF RowInv, AsksOK
  <2>3. QED BY <1>5, <2>1, <2>2
<1>6. CASE q = r /\ \E a \in Attempt : Acts(r, a)
  <2>1. PICK a \in Attempt : Acts(r, a)
    BY <1>6
  <2>2. asked' = asked
    BY <2>1, ActBooks
  <2>3. CASE try'[r][b].at = "over" \/ try'[r][b] = try[r][b]
    <3>1. CASE try'[r][b].at = "over"
      BY <1>6, <3>1
    <3>2. QED BY <1>3, <1>6, <2>2, <2>3, <3>1
  <2>4. CASE Load(r, a)
    <3>1. /\ asked[r].on \in Enquiry /\ asked[r].kind \in OfRow /\ row' = row
          /\ try' = [try EXCEPT ![r][a] = [at |-> "loaded", seen |-> Seen(asked[r].on), new |-> 0]]
      BY <2>4 DEF Load, RowInv, AsksOK
    <3>2. CASE b = a
      <4>1. try'[r][a].at = "loaded" /\ try'[r][a].seen.notes = row[asked[r].on].notes
        BY <1>0, <3>1, LoadTries
      <4>2. QED BY <1>6, <2>2, <3>1, <3>2, <4>1
    <3>3. CASE b # a
      BY <1>0, <2>3, <3>1, <3>3, LoadTries
    <3>4. QED BY <3>2, <3>3
  <2>5. ASSUME NEW at \in {"loaded", "inserted"}, NEW new \in 0..Rows, Moves(r, a, at, new), 
               asked[r].kind \notin OfRow,
               at = "inserted" => new \in Enquiry /\ asked[r].kind = "create" /\ row'[new].by = r
        PROVE  Put(q, b)' /\ Kept(q, b)'
    <3>1. CASE b = a
      BY <1>0, <1>6, <2>2, <2>5, <3>1, MovesTries
    <3>2. CASE b # a
      BY <1>0, <2>3, <2>5, <3>2, MovesTries
    <3>3. QED BY <3>1, <3>2
  <2>6. CASE LookUp(r, a)
    <3>1. asked[r].kind = "create" /\ asked[r].kind \notin OfRow /\ row' = row
      BY <2>6 DEF LookUp, OfRow
    <3>2. CASE Moves(r, a, "loaded", 0)
      BY <2>5, <3>1, <3>2
    <3>3. ASSUME NEW e \in SameWords(r), Moves(r, a, "inserted", e)
          PROVE  Put(q, b)' /\ Kept(q, b)'
      <4>1. e \in Enquiry /\ e \in 0..Rows /\ row[e].words = r /\ row[e].notes = {}
        BY <3>3 DEF SameWords, Enquiry
      <4>2. row[e].by = r
        BY <4>1 DEF RowInv, RowsOK
      <4>3. QED BY <2>5, <3>1, <3>3, <4>1, <4>2
    <3>4. QED BY <2>6, <3>2, <3>3 DEF LookUp
  <2>7. CASE LoadFixture(r, a)
    <3>1. asked[r].kind \notin OfRow /\ Moves(r, a, "loaded", 0)
      BY <2>7 DEF LoadFixture, OfRow, OfFixture
    <3>2. QED BY <2>5, <3>1
  <2>8. CASE Insert(r, a)
    <3>1. asked[r].kind = "create" /\ asked[r].kind \notin OfRow
      BY <2>8 DEF Insert, Ready, OfRow
    <3>2. PICK n \in Enquiry, u \in Stamp \ {0} :
            row' = [row EXCEPT ![n] = Inserted(r, u)] /\ Moves(r, a, "inserted", n)
      BY <2>8 DEF Insert
    <3>3. row'[n].by = r /\ n \in 0..Rows
      BY <1>0, <3>2 DEF TypeOK, Inserted, Enquiry
    <3>4. QED BY <2>5, <3>1, <3>2, <3>3
  <2>9. CASE GivesUp(r, a)
    <3>1. try' = [try EXCEPT ![r][a] = [NoTry EXCEPT !.at = "over"]]
      BY <2>9 DEF GivesUp
    <3>2. [NoTry EXCEPT !.at = "over"].at = "over"
      BY DEF NoTry
    <3>3. try'[r][b].at = "over" \/ try'[r][b] = try[r][b]
      BY <1>0, <3>1, <3>2 DEF TypeOK
    <3>4. QED BY <2>3, <3>3
  <2>10. CASE Answered(r, a)
    BY <1>0, <2>3, <2>10, AnsweredTries
  <2>11. QED BY <2>1, <2>4, <2>6, <2>7, <2>8, <2>9, <2>10
            DEF Acts, Writes, Edit, Review, Cancel, Stem, Confirm, Amend, Reoffer, Enqueue,
                Save, Erase
<1>7. QED BY <1>4, <1>5, <1>6

(* What the browser newly hears is true. *)
LEMMA HearsTruth ==
  ASSUME RowInv, NEW r \in Requests, NEW a \in Attempt, Acts(r, a), r \in told', r \notin told
  PROVE  /\ applied'[r] > 0
         /\ asked[r].kind = "stem" => row'[asked[r].on].receipt = r
         /\ asked[r].kind = "create" => \E e \in announced' : row'[e].by = r
<1>0. TypeOK /\ applied[r] \in Nat
  BY DEF RowInv, TypeOK
<1>1. CASE \/ Edit(r, a) \/ Review(r, a) \/ Cancel(r, a) \/ Amend(r, a)
           \/ Reoffer(r, a) \/ Save(r, a) \/ Erase(r, a)
  <2>1. applied'[r] = applied[r] + 1
    BY <1>0, <1>1, CountedApplied DEF Edit, Review, Cancel, Amend, Reoffer, Save, Erase
  <2>2. asked[r].kind # "stem" /\ asked[r].kind # "create"
    BY <1>1 DEF Edit, Review, Cancel, Amend, Reoffer, Save, Erase, Ready
  <2>3. QED BY <1>0, <2>1, <2>2
<1>2. CASE Stem(r, a)
  <2>1. applied'[r] = applied[r] + 1 /\ asked[r].kind = "stem"
    BY <1>0, <1>2, CountedApplied DEF Stem, Ready
  <2>2. row'[asked[r].on].receipt = r
    BY <1>2, <2>1, StemRows DEF Works
  <2>3. QED BY <1>0, <2>1, <2>2
<1>3. CASE Confirm(r, a)
  <2>1. /\ asked[r].kind = "stem" /\ row[asked[r].on].receipt = r
        /\ row' = row /\ applied' = applied
    BY <1>3 DEF Confirm, Ready, IsRepeated
  <2>2. asked[r].on \in Enquiry
    BY <2>1 DEF RowInv, AsksOK, OfRow
  <2>3. applied[r] > 0
    BY <2>1, <2>2 DEF RowInv, RowsOK
  <2>4. QED BY <2>1, <2>3
<1>4. CASE Enqueue(r, a)
  <2> DEFINE e == try[r][a].new
  <2>1. e \in Enquiry /\ asked[r].kind = "create" /\ row[e].by = r
    BY <1>4 DEF Enqueue, RowInv, TriesOK
  <2>2. row' = row /\ applied' = applied /\ e \in announced'
    BY <1>4 DEF Enqueue
  <2>3. applied[r] > 0
    BY <2>1 DEF RowInv, RowsOK
  <2>4. QED BY <2>1, <2>2, <2>3
<1>5. CASE told' = told
  BY <1>5
<1>6. QED BY <1>1, <1>2, <1>3, <1>4, <1>5
          DEF Acts, Writes, Load, LookUp, LoadFixture, GivesUp, Insert

LEMMA SavedKept ==
  ASSUME RowInv, NEW r \in Requests, Ask(r) \/ \E a \in Attempt : Acts(r, a)
  PROVE  SavedOnce'
<1> DEFINE True(q) ==
      /\ applied[q] > 0
      /\ asked[q].kind = "stem" => row[asked[q].on].receipt = q
      /\ asked[q].kind = "create" => \E e \in announced : row[e].by = q
           AtMostOnce(q) == asked[q].kind \notin {"create", "amend"} => applied[q] <= 1
<1>0. Books(r) /\ TypeOK /\ \A q \in Requests : (q \in told => True(q)) /\ AtMostOnce(q)
  BY TypeKept DEF RowInv, SavedOnce
<1>1. SUFFICES ASSUME NEW q \in Requests
               PROVE  (q \in told' => True(q)') /\ AtMostOnce(q)'
  BY DEF SavedOnce
<1>2. ASSUME q \in told, asked'[q] = asked[q], applied'[q] >= applied[q]
      PROVE  True(q)'
  <2>1. True(q)
    BY <1>0, <1>2
  <2>2. applied'[q] > 0
    <3>1. applied[q] \in Nat /\ applied'[q] \in Nat
      BY <1>0 DEF TypeOK, Books
    <3>2. QED BY <1>2, <2>1, <3>1
  <2>3. asked[q].kind = "stem" => row'[asked[q].on].receipt = q
    <3>1. SUFFICES ASSUME asked[q].kind = "stem" PROVE row'[asked[q].on].receipt = q
      OBVIOUS
    <3>2. asked[q].on \in Enquiry /\ row[asked[q].on].receipt = q
      BY <2>1, <3>1 DEF RowInv, AsksOK, OfRow
    <3>3. q # Nobody
      OBVIOUS
    <3>4. QED BY <3>2, <3>3, Grows
  <2>4. asked[q].kind = "create" => \E e \in announced' : row'[e].by = q
    <3>1. SUFFICES ASSUME asked[q].kind = "create" PROVE \E e \in announced' : row'[e].by = q
      OBVIOUS
    <3>2. PICK e \in announced : row[e].by = q
      BY <2>1, <3>1
    <3>3. e \in Enquiry /\ e \in announced'
      BY <1>0 DEF TypeOK, Books
    <3>4. row[e].status # "absent"
      BY <3>2, <3>3 DEF RowInv, RowsOK, NoRow, Inserted
    <3>5. QED BY <3>2, <3>3, <3>4, Grows
  <2>5. QED BY <1>2, <2>2, <2>3, <2>4
<1>3. CASE q # r
  <2>1. /\ asked'[q] = asked[q] /\ applied'[q] = applied[q] /\ (q \in told' => q \in told)
        /\ applied[q] \in Nat
    BY <1>0, <1>3 DEF Books, TypeOK
  <2>2. QED BY <1>0, <1>2, <2>1
<1>4. CASE q = r /\ Ask(r)
  <2>1. asked[r].kind = "none" /\ told' = told /\ applied' = applied
    BY <1>4 DEF Ask, Asks
  <2>2. applied[r] = 0 /\ r \notin told
    BY <2>1 DEF RowInv, AsksOK
  <2>3. QED BY <1>4, <2>1, <2>2
<1>5. CASE q = r /\ \E a \in Attempt : Acts(r, a)
  <2>1. PICK a \in Attempt : Acts(r, a)
    BY <1>5
  <2>2. /\ asked' = asked /\ applied[r] \in Nat
        /\ applied'[r] = applied[r] \/ applied'[r] = applied[r] + 1
    BY <1>0, <2>1, ActBooks DEF TypeOK, Books
  <2>3. AtMostOnce(r)'
    <3>1. CASE applied'[r] = applied[r]
      BY <1>0, <2>2, <3>1
    <3>2. CASE applied'[r] = applied[r] + 1 /\ asked[r].kind \notin {"create", "amend"}
      BY <2>1, <2>2, <3>2, Once
    <3>3. QED BY <2>2, <3>1, <3>2
  <2>4. r \in told' => True(r)'
    <3>1. CASE r \in told
      BY <1>2, <1>5, <2>2, <3>1
    <3>2. CASE r \in told' /\ r \notin told
      BY <2>1, <2>2, <3>2, HearsTruth
    <3>3. QED BY <3>1, <3>2
  <2>5. QED BY <1>5, <2>3, <2>4
<1>6. QED BY <1>3, <1>4, <1>5

LEMMA RowInvKept ==
  ASSUME RowInv, Next
  PROVE  RowInv'
<1>1. PICK r \in Requests : Ask(r) \/ \E a \in Attempt : Acts(r, a)
  BY DEF Next, Acts
<1>2. QED BY <1>1, TypeKept, RowsKept, StemKept, AsksKept, TriesKept, SavedKept DEF RowInv

LEMMA RowInvInit == Init => RowInv
<1> SUFFICES ASSUME Init PROVE RowInv
  OBVIOUS
<1>1. 1 \in Enquiry /\ 1 \in Stamp /\ 0 \in Stamp /\ 0 \in 0..Rows /\ 0 \in Nat
  BY DEF Enquiry, Stamp
<1>2. /\ Inserted(Nobody, 1) \in Row /\ Inserted(Nobody, 1).status = "sent"
      /\ Inserted(Nobody, 1).stamp = 1 /\ Inserted(Nobody, 1).by = Nobody
      /\ Inserted(Nobody, 1).words = Nobody /\ Inserted(Nobody, 1).receipt = Nobody
  <2>1. Inserted(Nobody, 1) \in Row
    BY <1>1, InsertedIsRow
  <2>2. QED BY <2>1 DEF Inserted
<1>3. /\ NoRow \in Row /\ NoRow.status = "absent" /\ NoRow.by = Nobody
      /\ NoRow.words = Nobody /\ NoRow.receipt = Nobody
  BY NoRowIsRow DEF NoRow, Inserted
<1>4. \A e \in Enquiry : row[e] = Inserted(Nobody, 1) \/ row[e] = NoRow
  BY DEF Init
<1>5. row \in [Enquiry -> Row]
  BY <1>2, <1>3 DEF Init
<1>6. TypeOK
  <2>1. NoTry \in Try
    BY <1>1 DEF NoTry, Try, Status
  <2>2. fixture \in [Enquiry -> Fixture] /\ made \in [Enquiry -> Nat]
    BY <1>1 DEF Init, Fixture
  <2>3. /\ try \in [Requests -> [Attempt -> Try]]
        /\ asked \in [Requests -> [kind : {"none"} \cup Kind, on : 0..Rows, version : Nat]]
        /\ applied \in [Requests -> Nat]
    BY <1>1, <2>1 DEF Init
  <2>4. QED BY <1>1, <1>5, <2>2, <2>3 DEF Init, TypeOK
<1>7. RowsOK
  BY <1>2, <1>3, <1>4 DEF RowsOK
<1>8. StemWhole
  BY <1>2, <1>3, <1>4 DEF StemWhole, Init
<1>9. AsksOK /\ TriesOK
  BY DEF AsksOK, TriesOK, Init, OfRow, OfFixture, NoTry
<1>10. SavedOnce
  BY DEF SavedOnce, Init
<1>11. QED BY <1>6, <1>7, <1>8, <1>9, <1>10 DEF RowInv

-----------------------------------------------------------------------------
(* The board.                                                              *)

LEMMA PositionsTyped ==
  ASSUME NEW pg \in [Enquiry -> Stamp], cursor \in Stamp \X (0..Rows), Advances(pg)
  PROVE  cursor' \in Stamp \X (0..Rows) /\ cursor' \in {cursor} \cup Positions(pg)
<1>1. cursor' \in {cursor} \cup Positions(pg)
  BY DEF Advances
<1>2. ASSUME NEW f \in Enquiry PROVE Position(f, pg[f]) \in Stamp \X (0..Rows)
  <2>1. pg[f] \in Stamp /\ f \in 0..Rows
    BY DEF Enquiry
  <2>2. QED BY <2>1 DEF Position
<1>3. Positions(pg) \subseteq Stamp \X (0..Rows)
  BY <1>2 DEF Positions
<1>4. QED BY <1>1, <1>3

LEMMA FirstIsBefore ==
  ASSUME RowInv, NEW e \in Active
  PROVE  e \in Enquiry /\ row[e].stamp > 0 /\ IsAfter(Position(e, row[e].stamp), <<0, 0>>)
<1>1. e \in Enquiry /\ row[e].status # "absent"
  BY DEF Active, Exists
<1>2. row[e].stamp > 0
  BY <1>1 DEF RowInv, RowsOK
<1>3. QED BY <1>1, <1>2 DEF IsAfter, Position

(* What is active and has the stamp it had was active.                     *)
LEMMA WasActive ==
  ASSUME RowInv, NEW r \in Requests, Ask(r) \/ \E a \in Attempt : Acts(r, a),
         NEW e \in Enquiry, Exists(e)', row'[e].stamp = row[e].stamp
  PROVE  Exists(e)
<1>1. RowStep(r, e) /\ row'[e].status \notin {"absent", "deleted"}
  BY Rowwise DEF RowsStep, Exists
<1>2. CASE row[e].status = "absent"
  <2>1. row[e].stamp = 0
    BY <1>2 DEF RowInv, RowsOK, NoRow, Inserted
  <2>2. ~Arrives(r, e)
    <3>1. SUFFICES ASSUME Arrives(r, e) PROVE FALSE
      OBVIOUS
    <3>2. row'[e].stamp > 0
      BY <3>1, Arrived
    <3>3. QED BY <2>1, <3>2
  <2>3. QED BY <1>1, <1>2, <2>2 DEF RowStep, Works, Vanishes, Restamps
<1>3. CASE row[e].status = "deleted"
  BY <1>1, <1>3, Grows DEF Over
<1>4. QED BY <1>2, <1>3 DEF Exists

LEMMA ChangesKept ==
  ASSUME IInv, EnquiryChanges
  PROVE  FeedTypeOK' /\ BoardMissesNothing' /\ PageOK'
<1> DEFINE changed == {e \in Enquiry : row'[e].stamp # row[e].stamp}
<1>1. /\ RowInv /\ Next /\ cache' = cache /\ cursor' = cursor /\ page' = page
      /\ behind' = (behind \ changed) \cup {e \in changed : IsBehind(e, row'[e].stamp)}
  BY DEF IInv, EnquiryChanges
<1>2. PICK r \in Requests : Ask(r) \/ \E a \in Attempt : Acts(r, a)
  BY <1>1 DEF Next, Acts
<1>3. FeedTypeOK'
  <2>1. TypeOK'
    BY <1>1, RowInvKept DEF RowInv
  <2>2. QED BY <1>1, <2>1 DEF IInv, FeedTypeOK
<1>4. ASSUME NEW e \in Active' \ behind', e \in changed
      PROVE  \A p \in Read : IsAfter(Position(e, row'[e].stamp), p)
  BY <1>1, <1>4 DEF IsBehind
<1>5. ASSUME NEW e \in Active' \ behind', e \notin changed
      PROVE  e \in Active \ behind /\ row'[e].stamp = row[e].stamp
  <2>1. e \in Enquiry /\ Exists(e)' /\ row'[e].stamp = row[e].stamp
    BY <1>5 DEF Active
  <2>2. Exists(e)
    BY <1>1, <1>2, <2>1, WasActive
  <2>3. QED BY <1>1, <1>5, <2>1, <2>2 DEF Active
<1>6. BoardMissesNothing'
  <2>1. SUFFICES ASSUME NEW e \in Active' \ behind'
                 PROVE  cache[e] = row'[e].stamp \/ IsAfter(Position(e, row'[e].stamp), cursor)
    BY <1>1 DEF BoardMissesNothing, IsAfter, Position
  <2>2. CASE e \in changed
    BY <1>4, <2>2 DEF Read
  <2>3. CASE e \notin changed
    BY <1>5, <2>3 DEF IInv, BoardMissesNothing
  <2>4. QED BY <2>2, <2>3
<1>7. PageOK'
  <2>1. SUFFICES ASSUME NEW e \in Active' \ behind', page # NoPage
                 PROVE  \/ page[e] = row'[e].stamp
                        \/ \A p \in Read : IsAfter(Position(e, row'[e].stamp), p)
                        \/ cache[e] = row'[e].stamp /\ page[e] = 0
    BY <1>1 DEF PageOK, IsAfter, Position, Read, Positions
  <2>2. CASE e \in changed
    BY <1>4, <2>2
  <2>3. CASE e \notin changed
    BY <1>5, <2>1, <2>3 DEF IInv, PageOK
  <2>4. QED BY <2>2, <2>3
<1>8. QED BY <1>3, <1>6, <1>7

LEMMA BoardKept ==
  ASSUME IInv, FullLoad \/ ReadPage \/ ReadIds \/ PollFails \/ Reset
  PROVE  FeedTypeOK' /\ BoardMissesNothing' /\ PageOK'
<1>1. /\ vars' = vars /\ row' = row
      /\ RowInv /\ TypeOK /\ TypeOK' /\ FeedTypeOK /\ BoardMissesNothing /\ PageOK
  BY DEF IInv, FullLoad, ReadPage, ReadIds, PollFails, Reset, vars, FeedTypeOK, TypeOK
<1>2. Active' = Active /\ Active \subseteq Enquiry
  BY <1>1 DEF Active, Exists
<1>3. \A e \in Enquiry : row[e].stamp \in Stamp
  BY <1>1 DEF TypeOK, Row
<1>4. 0 \in Stamp /\ 0 \in 0..Rows
  BY DEF Stamp
<1>5. CASE FullLoad
  <2> DEFINE all == [e \in Enquiry |-> IF Exists(e) THEN row[e].stamp ELSE 0]
  <2>1. /\ all \in [Enquiry -> Stamp] /\ cache' = all /\ page' = NoPage /\ Advances(all)
        /\ behind' = {}
    BY <1>3, <1>4, <1>5 DEF FullLoad
  <2>2. cursor' \in Stamp \X (0..Rows)
    BY <1>1, <2>1, PositionsTyped DEF FeedTypeOK
  <2>3. \A e \in Active : cache'[e] = row[e].stamp
    BY <2>1 DEF Active
  <2>4. BoardMissesNothing'
    BY <1>1, <1>2, <2>3 DEF BoardMissesNothing
  <2>5. QED BY <1>1, <2>1, <2>2, <2>4 DEF FeedTypeOK, PageOK
<1>6. CASE ReadPage
  <2>1. /\ cache' = cache /\ cursor' = cursor /\ behind' = behind
        /\ page' = [e \in Enquiry |->
                     IF Exists(e) /\ IsAfter(Position(e, row[e].stamp), cursor)
                     THEN row[e].stamp ELSE 0]
    BY <1>6 DEF ReadPage
  <2>2. page' \in [Enquiry -> Stamp]
    BY <1>3, <1>4, <2>1
  <2>3. BoardMissesNothing'
    BY <1>1, <1>2, <2>1 DEF BoardMissesNothing
  <2>4. PageOK'
    <3>1. ASSUME NEW e \in Active \ behind
          PROVE  page'[e] = row[e].stamp \/ (cache[e] = row[e].stamp /\ page'[e] = 0)
      <4>1. e \in Enquiry /\ Exists(e)
        BY DEF Active
      <4>2. CASE IsAfter(Position(e, row[e].stamp), cursor)
        BY <2>1, <4>1, <4>2
      <4>3. CASE ~IsAfter(Position(e, row[e].stamp), cursor)
        BY <1>1, <2>1, <4>1, <4>3 DEF BoardMissesNothing
      <4>4. QED BY <4>2, <4>3
    <3>2. QED BY <1>1, <1>2, <2>1, <3>1 DEF PageOK
  <2>5. QED BY <1>1, <2>1, <2>2, <2>3, <2>4 DEF FeedTypeOK
<1>7. CASE ReadIds
  <2>1. /\ page # NoPage /\ cache' = Merged(Active) /\ Advances(page) /\ page' = NoPage
        /\ behind' = behind
    BY <1>7 DEF ReadIds
  <2>2. page \in [Enquiry -> Stamp] /\ cache \in [Enquiry -> Stamp]
    BY <1>1, <2>1 DEF FeedTypeOK
  <2>3. cursor' \in Stamp \X (0..Rows) /\ cursor' \in Read
    BY <1>1, <2>1, <2>2, PositionsTyped DEF FeedTypeOK, Read
  <2>4. cache' \in [Enquiry -> Stamp]
    BY <1>4, <2>1, <2>2 DEF Merged
  <2>5. ASSUME NEW e \in Active \ behind
        PROVE  cache'[e] = row[e].stamp \/ IsAfter(Position(e, row[e].stamp), cursor')
    <3>1. e \in Enquiry /\ row[e].stamp # 0
      <4>1. e \in Enquiry /\ row[e].stamp > 0
        BY <1>1, FirstIsBefore
      <4>2. QED BY <1>3, <4>1 DEF Stamp
    <3>2. cache'[e] = IF page[e] # 0 THEN page[e] ELSE cache[e]
      BY <2>1, <3>1 DEF Merged
    <3>3. \/ page[e] = row[e].stamp
          \/ \A p \in Read : IsAfter(Position(e, row[e].stamp), p)
          \/ cache[e] = row[e].stamp /\ page[e] = 0
      BY <1>1, <2>1 DEF PageOK
    <3>4. QED BY <2>3, <3>1, <3>2, <3>3
  <2>6. BoardMissesNothing'
    BY <1>1, <1>2, <2>1, <2>5 DEF BoardMissesNothing, IsAfter, Position
  <2>7. QED BY <1>1, <2>1, <2>3, <2>4, <2>6 DEF FeedTypeOK, PageOK
<1>8. CASE PollFails
  <2>1. cache' = cache /\ cursor' = cursor /\ page' = NoPage /\ behind' = behind
    BY <1>8 DEF PollFails
  <2>2. BoardMissesNothing'
    BY <1>1, <1>2, <2>1 DEF BoardMissesNothing
  <2>3. QED BY <1>1, <2>1, <2>2 DEF FeedTypeOK, PageOK
<1>9. CASE Reset
  <2>1. /\ cache' = [e \in Enquiry |-> 0] /\ cursor' = <<0, 0>> /\ page' = NoPage
        /\ behind' = behind
    BY <1>9 DEF Reset
  <2>2. cache' \in [Enquiry -> Stamp] /\ cursor' \in Stamp \X (0..Rows)
    BY <1>4, <2>1
  <2>3. \A e \in Active : IsAfter(Position(e, row[e].stamp), <<0, 0>>)
    BY <1>1, FirstIsBefore
  <2>4. BoardMissesNothing'
    BY <1>1, <1>2, <2>1, <2>3 DEF BoardMissesNothing, IsAfter, Position
  <2>5. QED BY <1>1, <2>1, <2>2, <2>4 DEF FeedTypeOK, PageOK
<1>10. QED BY <1>5, <1>6, <1>7, <1>8, <1>9

(* What a step overwrites.                                                 *)
LEMMA StepOverwritesNothing ==
  ASSUME RowInv, Next, NEW e \in Enquiry
  PROVE  /\ row[e].status \in Over => row'[e].status = row[e].status
         /\ \/ row'[e].revision # row[e].revision
            \/ row[e].status = "sent" /\ row'[e].status = "closed"
            \/ row[e].notes \subseteq row'[e].notes
<1>1. PICK r \in Requests : Ask(r) \/ \E a \in Attempt : Acts(r, a)
  BY DEF Next, Acts
<1>2. RowStep(r, e) /\ row[e] \in Row
  BY <1>1, Rowwise DEF RowsStep, RowInv, TypeOK
<1>3. row[e].revision + 1 # row[e].revision
  BY <1>2 DEF Row
<1>4. \/ row'[e].revision # row[e].revision
      \/ row[e].status = "sent" /\ row'[e].status = "closed"
      \/ row[e].notes \subseteq row'[e].notes
  <2>1. CASE Arrives(r, e)
    BY <2>1 DEF Arrives, RowInv, RowsOK, NoRow, Inserted
  <2>2. CASE Works(r, e)
    BY <1>3, <2>2 DEF Works
  <2>3. CASE row'[e] = row[e] \/ Vanishes(r, e) \/ Restamps(r, e)
    BY <2>3 DEF Vanishes, Restamps
  <2>4. QED BY <1>2, <2>1, <2>2, <2>3 DEF RowStep
<1>5. QED BY <1>1, <1>4, Grows

-----------------------------------------------------------------------------
LEMMA FeedInitIInv == FeedInit => IInv
<1> SUFFICES ASSUME FeedInit PROVE IInv
  OBVIOUS
<1>1. RowInv /\ cache = [e \in Enquiry |-> 0] /\ cursor = <<0, 0>> /\ page = NoPage /\ behind = {}
  BY RowInvInit DEF FeedInit
<1>2. 0 \in Stamp /\ 0 \in 0..Rows
  BY DEF Stamp
<1>3. FeedTypeOK
  BY <1>1, <1>2 DEF FeedTypeOK, RowInv
<1>4. BoardMissesNothing
  BY <1>1, FirstIsBefore DEF BoardMissesNothing
<1>5. PageOK
  BY <1>1 DEF PageOK
<1>6. QED BY <1>1, <1>3, <1>4, <1>5 DEF IInv

LEMMA FeedNextIInv == IInv /\ [FeedNext]_<<vars, feedVars>> => IInv'
<1> SUFFICES ASSUME IInv, [FeedNext]_<<vars, feedVars>> PROVE IInv'
  OBVIOUS
<1>1. ASSUME vars' = vars PROVE RowInv'
  <2>1. RowInv /\ TypeOK' /\ RowsOK' /\ StemWhole' /\ SavedOnce'
    BY <1>1 DEF IInv, RowInv, vars, TypeOK, RowsOK, StemWhole, SavedOnce
  <2>2. AsksOK'
    BY <1>1, <2>1 DEF RowInv, vars, AsksOK, Spent
  <2>3. TriesOK'
    BY <1>1, <2>1 DEF RowInv, vars, TriesOK
  <2>4. QED BY <2>1, <2>2, <2>3 DEF RowInv
<1>2. CASE EnquiryChanges
  <2>1. RowInv'
    BY <1>2, RowInvKept DEF IInv, EnquiryChanges
  <2>2. QED BY <1>2, <2>1, ChangesKept DEF IInv
<1>3. CASE FullLoad \/ ReadPage \/ ReadIds \/ PollFails \/ Reset
  <2>1. vars' = vars
    BY <1>3 DEF FullLoad, ReadPage, ReadIds, PollFails, Reset, vars
  <2>2. QED BY <1>1, <1>3, <2>1, BoardKept DEF IInv
<1>4. CASE UNCHANGED <<vars, feedVars>>
  <2>1. /\ vars' = vars /\ row' = row /\ cache' = cache /\ cursor' = cursor
        /\ page' = page /\ behind' = behind
    BY <1>4 DEF vars, feedVars
  <2>2. RowInv'
    BY <1>1, <2>1
  <2>3. FeedTypeOK'
    BY <2>1, <2>2 DEF IInv, RowInv, FeedTypeOK
  <2>4. BoardMissesNothing' /\ PageOK'
    BY <2>1 DEF IInv, BoardMissesNothing, PageOK, Active, Exists, Read, Positions, IsAfter, Position
  <2>5. QED BY <2>2, <2>3, <2>4 DEF IInv
<1>5. QED BY <1>2, <1>3, <1>4 DEF FeedNext

(* Every state of the enquiries and of the board satisfies the inductive   *)
(* invariant: what a committed request left keeps it from being committed  *)
(* again, and a poll under way shows or leaves to the next what it missed. *)
THEOREM Invariance == FeedSpec => []IInv
<1>1. FeedInit => IInv
  BY FeedInitIInv
<1>2. IInv /\ [FeedNext]_<<vars, feedVars>> => IInv'
  BY FeedNextIInv
<1>3. QED BY <1>1, <1>2, PTL DEF FeedSpec

(* Rows, fixtures, attempts and the board's copy keep their types.         *)
THEOREM TypeCorrect == FeedSpec => []FeedTypeOK
<1>1. IInv => FeedTypeOK
  BY DEF IInv
<1>2. QED BY <1>1, Invariance, PTL

(* An enquiry is quoted exactly when a STEM left its receipt and made its  *)
(* one fixture.                                                            *)
THEOREM StemWholeAlways == FeedSpec => []StemWhole
<1>1. IInv => StemWhole
  BY DEF IInv, RowInv
<1>2. QED BY <1>1, Invariance, PTL

(* A browser that heard "saved" was told the truth, and asking again       *)
(* commits nothing twice, but for creating and amending.                   *)
THEOREM SavedOnceAlways == FeedSpec => []SavedOnce
<1>1. IInv => SavedOnce
  BY DEF IInv, RowInv
<1>2. QED BY <1>1, Invariance, PTL

(* The board shows the latest version of every enquiry or reads it by its  *)
(* next poll, unless it was stamped behind the cursor.                     *)
THEOREM BoardMissesNothingAlways == FeedSpec => []BoardMissesNothing
<1>1. IInv => BoardMissesNothing
  BY DEF IInv
<1>2. QED BY <1>1, Invariance, PTL

(* What an enquiry ended as stays, and every write but an amendment or a   *)
(* reoffer keeps the words of those before it.                             *)
THEOREM NothingOverwrittenAlways == FeedSpec => NothingOverwritten
<1> DEFINE Keeps == \A e \in Enquiry :
       /\ row[e].status \in Over => row'[e].status = row[e].status
       /\ \/ row'[e].revision # row[e].revision
          \/ row[e].status = "sent" /\ row'[e].status = "closed"
          \/ row[e].notes \subseteq row'[e].notes
<1>1. IInv /\ [FeedNext]_<<vars, feedVars>> => [Keeps]_row
  <2>1. SUFFICES ASSUME IInv, [FeedNext]_<<vars, feedVars>>, row' # row PROVE Keeps
    OBVIOUS
  <2>2. Next /\ RowInv
    BY <2>1 DEF IInv, FeedNext, EnquiryChanges, FullLoad, ReadPage, ReadIds, PollFails, Reset,
       vars, feedVars
  <2>3. QED BY <2>2, StepOverwritesNothing
<1>2. QED BY <1>1, Invariance, PTL DEF FeedSpec, NothingOverwritten
-----------------------------------------------------------------------------
(* The board goes forward.                                                 *)

(* What the board shows, and what a poll is about to show, is no later     *)
(* than the row, and what the poll is about to show is no earlier than     *)
(* what it replaces.                                                       *)
LagsAt(e) ==
  /\ cache[e] <= row[e].stamp
  /\ page # NoPage /\ page[e] # 0 => cache[e] <= page[e] /\ page[e] <= row[e].stamp

Lags == \A e \in Enquiry : LagsAt(e)

LEMMA StampsTyped ==
  ASSUME IInv, NEW e \in Enquiry
  PROVE  /\ row[e].stamp \in Nat /\ cache[e] \in Nat
         /\ page # NoPage => page[e] \in Nat
<1>1. /\ row \in [Enquiry -> Row] /\ cache \in [Enquiry -> Stamp]
      /\ page # NoPage => page \in [Enquiry -> Stamp]
  BY DEF IInv, FeedTypeOK, TypeOK
<1>2. row[e] \in Row
  BY <1>1
<1>3. QED BY <1>1, <1>2 DEF Row, Stamp

LEMMA InitLags == FeedInit => Lags
<1> SUFFICES ASSUME FeedInit, NEW e \in Enquiry PROVE LagsAt(e)
  BY DEF Lags
<1>1. IInv /\ cache[e] = 0 /\ page = NoPage
  BY FeedInitIInv DEF FeedInit
<1>2. QED BY <1>1, StampsTyped DEF LagsAt

(* Rows are stamped later and later.                                       *)
LEMMA ChangesLag ==
  ASSUME IInv, Lags, EnquiryChanges, NEW e \in Enquiry
  PROVE  LagsAt(e)'
<1>1. RowInv /\ Next /\ cache' = cache /\ page' = page
  BY DEF IInv, EnquiryChanges
<1>2. PICK r \in Requests : Ask(r) \/ \E a \in Attempt : Acts(r, a)
  BY <1>1 DEF Next, Acts
<1>3. row'[e].stamp \in Nat /\ row'[e].stamp >= row[e].stamp
  BY <1>1, <1>2, Grows
<1>4. LagsAt(e)
  BY DEF Lags
<1>5. QED BY <1>1, <1>3, <1>4, StampsTyped DEF LagsAt

LEMMA BoardLags ==
  ASSUME IInv, Lags, FullLoad \/ ReadPage \/ ReadIds \/ PollFails \/ Reset, NEW e \in Enquiry
  PROVE  LagsAt(e)' /\ (cache[e] # 0 /\ cache'[e] # 0 => cache'[e] >= cache[e])
<1>1. row' = row /\ LagsAt(e)
  BY DEF Lags, FullLoad, ReadPage, ReadIds, PollFails, Reset, vars
<1>2. /\ row[e].stamp \in Nat /\ cache[e] \in Nat
      /\ page # NoPage => page[e] \in Nat
  BY StampsTyped
<1>3. CASE FullLoad
  <2>1. page' = NoPage /\ cache'[e] = IF Exists(e) THEN row[e].stamp ELSE 0
    BY <1>3 DEF FullLoad
  <2>2. QED BY <1>1, <1>2, <2>1 DEF LagsAt
<1>4. CASE ReadPage
  <2>1. /\ cache' = cache
        /\ \/ page'[e] = row[e].stamp
           \/ page'[e] = 0
    BY <1>4 DEF ReadPage
  <2>2. QED BY <1>1, <1>2, <2>1 DEF LagsAt
<1>5. CASE ReadIds
  <2>1. /\ page # NoPage /\ page' = NoPage
        /\ \/ cache'[e] = 0
           \/ cache'[e] = IF page[e] # 0 THEN page[e] ELSE cache[e]
    BY <1>5 DEF ReadIds, Merged
  <2>2. QED BY <1>1, <1>2, <2>1 DEF LagsAt
<1>6. CASE PollFails
  BY <1>1, <1>2, <1>6 DEF PollFails, LagsAt
<1>7. CASE Reset
  <2>1. cache'[e] = 0 /\ page' = NoPage
    BY <1>7 DEF Reset
  <2>2. QED BY <1>1, <1>2, <2>1 DEF LagsAt
<1>8. QED BY <1>3, <1>4, <1>5, <1>6, <1>7

LEMMA StepLags == IInv /\ Lags /\ [FeedNext]_<<vars, feedVars>> => Lags'
<1> SUFFICES ASSUME IInv, Lags, [FeedNext]_<<vars, feedVars>>, NEW e \in Enquiry PROVE LagsAt(e)'
  BY DEF Lags
<1>1. CASE UNCHANGED <<vars, feedVars>>
  BY <1>1 DEF vars, feedVars, Lags, LagsAt
<1>2. QED BY <1>1, ChangesLag, BoardLags DEF FeedNext

(* What the board shows of an enquiry is replaced by a later version only, *)
(* or by nothing, whatever is written between the reads of a poll.         *)
BoardAdvances ==
  [][\A e \in Enquiry : cache[e] # 0 /\ cache'[e] # 0 => cache'[e] >= cache[e]]_<<vars, feedVars>>

(* The board never goes back to an earlier version of an enquiry, however  *)
(* polls, writes and failures are interleaved.                             *)
THEOREM BoardAdvancesAlways == FeedSpec => BoardAdvances
<1> DEFINE Forward == \A e \in Enquiry : cache[e] # 0 /\ cache'[e] # 0 => cache'[e] >= cache[e]
<1>1. FeedSpec => []Lags
  BY InitLags, StepLags, Invariance, PTL DEF FeedSpec
<1>2. IInv /\ Lags /\ [FeedNext]_<<vars, feedVars>> => [Forward]_<<vars, feedVars>>
  <2>1. SUFFICES ASSUME IInv, Lags, FeedNext PROVE Forward
    OBVIOUS
  <2>2. CASE EnquiryChanges
    BY <2>1, <2>2, StampsTyped DEF EnquiryChanges
  <2>3. CASE FullLoad \/ ReadPage \/ ReadIds \/ PollFails \/ Reset
    BY <2>1, <2>3, BoardLags
  <2>4. QED BY <2>1, <2>2, <2>3 DEF FeedNext
<1>3. QED BY <1>1, <1>2, Invariance, PTL DEF FeedSpec, BoardAdvances
===============================================================================
