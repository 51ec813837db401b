----------------------------- MODULE SpcEnquiries -----------------------------
(***************************************************************************)
(* SPC enquiries and the fixtures that STEM makes of them.  A browser asks *)
(* once and may ask again, in the same words, when it did not hear that it *)
(* was saved; every asking is an attempt the server works off by itself:   *)
(* it loads the row, and writes later.  A write is one step: it is a       *)
(* single statement, or a function that locks the enquiry first.           *)
(*                                                                         *)
(* What a row says is the set of requests whose words it carries; its      *)
(* stamp, updated_at, is the version browsers send back.                   *)
(***************************************************************************)
EXTENDS Naturals, FiniteSets

CONSTANTS
  Rows,       \* bound: enquiries
  Requests,   \* what browsers ask
  Attempts,   \* bound: how often one of them is asked
  MaxTries,   \* bound: how often all of them are asked
  Nobody,     \* no request
  MaxStamp    \* bound: values of updated_at

ASSUME EnquiriesAssumption ==
  /\ Rows \in Nat \ {0} /\ MaxStamp \in Nat \ {0}
  /\ Attempts \in Nat /\ MaxTries \in Nat
  /\ IsFiniteSet(Requests) /\ Nobody \notin Requests

VARIABLES
  row,        \* spc_enquiries
  fixture,    \* spc_fixtures, by enquiry
  announced,  \* enquiries with a job for the WhatsApp group
  asked,      \* what each browser asks
  try,        \* the attempts at it
  \* History.
  told,       \* requests whose browser heard that they were saved
  applied,    \* how often each was committed
  made        \* fixtures ever made of each enquiry

vars == <<row, fixture, announced, asked, try, told, applied, made>>

-----------------------------------------------------------------------------
Enquiry == 1..Rows
Attempt == 1..Attempts
Stamp == 0..MaxStamp

Over == {"quoted", "cancelled", "closed", "deleted"}

Status == {"absent", "sent"} \cup Over

(* by: the request that inserted it; words: the last one that said what    *)
(* is wanted; notes: all that wrote to it since; receipt: stem_request_id; *)
(* source: stem_source_updated_at.                                         *)
Row == [status : Status, stamp : Stamp, notes : SUBSET Requests,
        revision : Nat, by : Requests \cup {Nobody}, words : Requests \cup {Nobody},
        receipt : Requests \cup {Nobody}, source : Stamp]

Fixture == [status : {"none", "pending", "completed"}, version : Nat]

OfRow == {"edit", "lost", "cancel", "stem", "amend", "reoffer", "review"}
OfFixture == {"save", "complete", "erase"}
Kind == {"create"} \cup OfRow \cup OfFixture

(* Mutant: an enquiry is inserted as a draft. *)
Drafted(r, t) ==
  [status |-> "draft", stamp |-> t, notes |-> {}, revision |-> 1, by |-> r,
   words |-> r, receipt |-> Nobody, source |-> 0]

Inserted(r, t) ==
  [status |-> "sent", stamp |-> t, notes |-> {}, revision |-> 1, by |-> r,
   words |-> r, receipt |-> Nobody, source |-> 0]

NoRow == [Inserted(Nobody, 0) EXCEPT !.status = "absent"]

(* seen: what of the row it loaded it comes back to when it writes. *)
Seen(e) == [status |-> row[e].status, notes |-> row[e].notes, words |-> row[e].words]

NoTry ==
  [at |-> "idle", seen |-> [status |-> "absent", notes |-> {}, words |-> Nobody], new |-> 0]

Try == [at : {"idle", "loaded", "inserted", "over"}, new : 0..Rows,
        seen : [status : Status, notes : SUBSET Requests, words : Requests \cup {Nobody}]]

TypeOK ==
  /\ row \in [Enquiry -> Row]
  /\ fixture \in [Enquiry -> Fixture]
  /\ announced \in SUBSET Enquiry
  /\ asked \in [Requests -> [kind : {"none"} \cup Kind, on : 0..Rows, version : Nat]]
  /\ try \in [Requests -> [Attempt -> Try]]
  /\ told \in SUBSET Requests
  /\ applied \in [Requests -> Nat]
  /\ made \in [Enquiry -> Nat]

(* One enquiry was sent. *)
Init ==
  /\ row = [e \in Enquiry |-> IF e = 1 THEN Inserted(Nobody, 1) ELSE NoRow]
  /\ fixture = [e \in Enquiry |-> [status |-> "none", version |-> 0]]
  /\ announced = {1}
  /\ asked = [r \in Requests |-> [kind |-> "none", on |-> 0, version |-> 0]]
  /\ try = [r \in Requests |-> [a \in Attempt |-> NoTry]]
  /\ told = {}
  /\ applied = [r \in Requests |-> 0]
  /\ made = [e \in Enquiry |-> 0]

-----------------------------------------------------------------------------
(* The browser asks, of what it shows. *)

Exists(e) == row[e].status \notin {"absent", "deleted"}

(* Those begun, and the first of each request. *)
Tries == {s \in Requests \X Attempt :
            \/ try[s[1]][s[2]].at # "idle"
            \/ s[2] = 1 /\ asked[s[1]].kind # "none"}

MoreTries == Cardinality(Tries) < MaxTries

(* The Lost Record reviews what was lost, everything else is for what is   *)
(* sent.                                                                   *)
Offers(k) == IF k = "review" THEN "cancelled" ELSE "sent"

Asks(r, k, e, v) ==
  /\ asked[r].kind = "none" /\ MoreTries
  /\ asked' = [asked EXCEPT ![r] = [kind |-> k, on |-> e, version |-> v]]
  /\ UNCHANGED <<row, fixture, announced, try, told, applied, made>>

Ask(r) ==
  \/ Asks(r, "create", 0, 0)
  \/ \E e \in Enquiry, k \in OfRow : row[e].status = Offers(k) /\ Asks(r, k, e, row[e].stamp)
  \/ \E e \in Enquiry, k \in OfFixture :
       fixture[e].status # "none" /\ Asks(r, k, e, fixture[e].version)

-----------------------------------------------------------------------------
(* An attempt.  It may be refused, or die, wherever it is, and its answer  *)
(* may be lost.                                                            *)

Moves(r, a, at, new) == try' = [try EXCEPT ![r][a].at = at, ![r][a].new = new]

Answered(r, a) ==
  /\ try' = [try EXCEPT ![r][a] = [NoTry EXCEPT !.at = "over"]]
  /\ told' \in {told, told \cup {r}}

Counted(r) == applied' = [applied EXCEPT ![r] = @ + 1]

Begins(r, a) ==
  /\ a > 1 => MoreTries
  /\ asked[r].kind # "none" /\ r \notin told
  /\ try[r][a].at = "idle"
  /\ \A b \in Attempt : b < a => try[r][b].at # "idle"

(* Those that may not even be tried on a row that is not sent any more. *)
EditsSent == {"edit", "lost", "cancel"}

IsLost(r, e) == row[e].status = "cancelled" /\ row[e].stamp = asked[r].version

Load(r, a) ==
  LET e == asked[r].on IN
    /\ Begins(r, a)
    /\ asked[r].kind \in OfRow
    /\ Exists(e)
    /\ asked[r].kind \in EditsSent => row[e].status = "sent"
    /\ asked[r].kind = "review" => IsLost(r, e)
    /\ try' = [try EXCEPT ![r][a] = [at |-> "loaded", seen |-> Seen(e), new |-> 0]]
    /\ UNCHANGED <<row, fixture, announced, asked, told, applied, made>>

(* An enquiry in the same words, sent in the last two minutes, is taken    *)
(* for this one; later it is not found.                                    *)
SameWords(r) == {e \in Enquiry : row[e].status = "sent" /\ row[e].words = r /\ row[e].notes = {}}

LookUp(r, a) ==
  /\ Begins(r, a)
  /\ asked[r].kind = "create"
  /\ \/ Moves(r, a, "loaded", 0)
     \/ \E e \in SameWords(r) : Moves(r, a, "inserted", e)
  /\ UNCHANGED <<row, fixture, announced, asked, told, applied, made>>

LoadFixture(r, a) ==
  /\ Begins(r, a)
  /\ asked[r].kind \in OfFixture
  /\ Moves(r, a, "loaded", 0)
  /\ UNCHANGED <<row, fixture, announced, asked, told, applied, made>>

(* It is refused, fails, or is killed. *)
GivesUp(r, a) ==
  /\ try[r][a].at \in {"loaded", "inserted"}
  /\ try' = [try EXCEPT ![r][a] = [NoTry EXCEPT !.at = "over"]]
  /\ UNCHANGED <<row, fixture, announced, asked, told, applied, made>>

-----------------------------------------------------------------------------
(* The writes. *)

Later(e) == {t \in Stamp : t > row[e].stamp}

Becomes(e, x) == \E t \in Later(e) : row' = [row EXCEPT ![e] = [x EXCEPT !.stamp = t]]

(* Mutant: any enquiry that is still there may be written. *)
IsThere(e) == Exists(e)

IsSent(e) == row[e].status = "sent"

(* Mutant: the version the browser saw is not compared. *)
IsSentStill(r, e) == IsSent(e)

IsAsAsked(r, e) == IsSent(e) /\ row[e].stamp = asked[r].version

Ready(r, a, kinds) == try[r][a].at = "loaded" /\ asked[r].kind \in kinds

Noted(r, a) == try[r][a].seen.notes \cup {r}

(* LOST and POSTPONE, and the notes of a fixture before STEM, which may    *)
(* change what is wanted.                                                  *)
Edit(r, a) ==
  LET e == asked[r].on IN
    /\ Ready(r, a, {"edit", "lost"})
    /\ IsAsAsked(r, e)
    /\ \/ /\ asked[r].kind = "edit"
          /\ \E w \in {row[e].words, r} :
               Becomes(e, [row[e] EXCEPT !.notes = Noted(r, a), !.words = w])
       \/ /\ asked[r].kind = "lost"
          /\ Becomes(e, [row[e] EXCEPT !.notes = Noted(r, a), !.status = "cancelled"])
    /\ Counted(r)
    /\ Answered(r, a)
    /\ UNCHANGED <<fixture, announced, asked, made>>

(* The Lost Record adds what it finds to the notes. *)
Review(r, a) ==
  LET e == asked[r].on IN
    /\ Ready(r, a, {"review"})
    /\ IsLost(r, e)
    /\ Becomes(e, [row[e] EXCEPT !.notes = Noted(r, a)])
    /\ Counted(r)
    /\ Answered(r, a)
    /\ UNCHANGED <<fixture, announced, asked, made>>

Cancel(r, a) ==
  LET e == asked[r].on IN
    /\ Ready(r, a, {"cancel"})
    /\ IsAsAsked(r, e)
    /\ row' = [row EXCEPT ![e].status = "deleted"]
    /\ Counted(r)
    /\ Answered(r, a)
    /\ UNCHANGED <<fixture, announced, asked, made>>

(* Mutant: whatever STEM there was is taken for this one. *)
IsStemmed(r, e) == row[e].receipt # Nobody

IsRepeated(r, e) == row[e].receipt = r

(* STEM: the outcome, its receipt and the fixture in one transaction. *)
Stem(r, a) ==
  LET e == asked[r].on IN
    /\ Ready(r, a, {"stem"})
    /\ try[r][a].seen.status = "sent"
    /\ ~IsRepeated(r, e)
    /\ IsAsAsked(r, e)
    /\ fixture[e].status = "none"
    /\ Becomes(e, [row[e] EXCEPT !.notes = Noted(r, a), !.status = "quoted",
                                 !.receipt = r, !.source = asked[r].version])
    /\ fixture' = [fixture EXCEPT ![e] = [status |-> "pending", version |-> 1]]
    /\ made' = [made EXCEPT ![e] = @ + 1]
    /\ Counted(r)
    /\ Answered(r, a)
    /\ UNCHANGED <<announced, asked>>

(* A repeated STEM only reads what the first one left. *)
Confirm(r, a) ==
  LET e == asked[r].on IN
    /\ Ready(r, a, {"stem"})
    /\ IsRepeated(r, e)
    /\ row[e].status = "quoted" /\ row[e].source = asked[r].version
    /\ fixture[e].status # "none"
    /\ Answered(r, a)
    /\ UNCHANGED <<row, fixture, announced, asked, applied, made>>

(* An amendment is worked out from the row that was loaded, is refused if  *)
(* nothing changes, and does not compare versions.                         *)
Amend(r, a) ==
  LET e == asked[r].on IN
    /\ Ready(r, a, {"amend"})
    /\ try[r][a].seen.words # r
    /\ IsSent(e)
    /\ Becomes(e, [row[e] EXCEPT !.notes = Noted(r, a), !.words = r, !.revision = @ + 1])
    /\ Counted(r)
    /\ Answered(r, a)
    /\ UNCHANGED <<fixture, announced, asked, made>>

(* A new enquiry in place of the old one, and its job. *)
Reoffer(r, a) ==
  LET e == asked[r].on IN
    /\ Ready(r, a, {"reoffer"})
    /\ IsSent(e)
    /\ \E n \in Enquiry, u \in Stamp \ {0}, t \in Later(e) :
         /\ row[n].status = "absent"
         /\ row' = [row EXCEPT ![n] = Inserted(r, u),
                      ![e] = [@ EXCEPT !.notes = Noted(r, a), !.status = "closed", !.stamp = t]]
         /\ announced' = announced \cup {n}
    /\ Counted(r)
    /\ Answered(r, a)
    /\ UNCHANGED <<fixture, asked, made>>

Insert(r, a) ==
  /\ Ready(r, a, {"create"})
  /\ \E n \in Enquiry, u \in Stamp \ {0} :
       /\ row[n].status = "absent"
       /\ row' = [row EXCEPT ![n] = Inserted(r, u)]
       /\ Moves(r, a, "inserted", n)
  /\ Counted(r)
  /\ UNCHANGED <<fixture, announced, asked, told, made>>

Enqueue(r, a) ==
  LET e == try[r][a].new IN
    /\ try[r][a].at = "inserted"
    /\ Exists(e)
    /\ announced' = announced \cup {e}
    /\ Answered(r, a)
    /\ UNCHANGED <<row, fixture, asked, applied, made>>

-----------------------------------------------------------------------------
(* The page of fixtures. *)

IsFixtureAsAsked(r, e) ==
  fixture[e].status # "none" /\ fixture[e].version = asked[r].version

(* A supplier that is named is copied to the enquiry. *)
Save(r, a) ==
  LET e == asked[r].on IN
    /\ Ready(r, a, {"save", "complete"})
    /\ IsFixtureAsAsked(r, e)
    /\ row[e].status = "quoted"
    /\ asked[r].kind = "complete" => fixture[e].status = "pending"
    /\ fixture' = [fixture EXCEPT ![e].version = @ + 1,
                     ![e].status = IF asked[r].kind = "complete" THEN "completed" ELSE @]
    /\ \/ row' = row
       \/ Becomes(e, row[e])
    /\ Counted(r)
    /\ Answered(r, a)
    /\ UNCHANGED <<announced, asked, made>>

Erase(r, a) ==
  LET e == asked[r].on IN
    /\ Ready(r, a, {"erase"})
    /\ IsFixtureAsAsked(r, e)
    /\ fixture' = [fixture EXCEPT ![e].status = "none"]
    /\ Counted(r)
    /\ Answered(r, a)
    /\ UNCHANGED <<row, announced, asked, made>>

-----------------------------------------------------------------------------
Writes(r, a) ==
  \/ Edit(r, a) \/ Review(r, a) \/ Cancel(r, a) \/ Stem(r, a) \/ Confirm(r, a)
  \/ Amend(r, a) \/ Reoffer(r, a) \/ Insert(r, a) \/ Enqueue(r, a) \/ Save(r, a) \/ Erase(r, a)

Next ==
  \E r \in Requests :
    \/ Ask(r)
    \/ \E a \in Attempt :
         Load(r, a) \/ LookUp(r, a) \/ LoadFixture(r, a) \/ GivesUp(r, a) \/ Writes(r, a)

Spec == Init /\ [][Next]_vars

-----------------------------------------------------------------------------
(* An enquiry is quoted exactly when a STEM has left its receipt, which    *)
(* made its one fixture in the same step: no failure and no order of       *)
(* writers leaves a quoted enquiry that never had a fixture, a fixture of  *)
(* another enquiry, or a second one.                                       *)
StemWhole ==
  \A e \in Enquiry :
    /\ row[e].status = "quoted" <=> row[e].receipt # Nobody
    /\ made[e] = IF row[e].status = "quoted" THEN 1 ELSE 0
    /\ fixture[e].status # "none" => row[e].status = "quoted"

(* A browser that heard "saved" was told the truth: its request was        *)
(* committed, its STEM holds the receipt, what it created is queued for    *)
(* the group.  And asking again commits nothing twice, but for the two     *)
(* requests that nothing identifies: to create, and to amend.              *)
SavedOnce ==
  \A r \in Requests :
    /\ r \in told =>
         /\ applied[r] > 0
         /\ asked[r].kind = "stem" => row[asked[r].on].receipt = r
         /\ asked[r].kind = "create" => \E e \in announced : row[e].by = r
    /\ asked[r].kind \notin {"create", "amend"} => applied[r] <= 1

(* A late writer overwrites nothing: what an enquiry ended as stays, and   *)
(* every write but an amendment, or its retirement by a reoffer, keeps the *)
(* words of all those before it.                                           *)
NothingOverwritten ==
  [][\A e \in Enquiry :
       /\ row[e].status \in Over => row'[e].status = row[e].status
       /\ \/ row'[e].revision # row[e].revision
          \/ row[e].status = "sent" /\ row'[e].status = "closed"
          \/ row[e].notes \subseteq row'[e].notes]_row
===============================================================================
