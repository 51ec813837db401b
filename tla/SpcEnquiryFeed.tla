---------------------------- MODULE SpcEnquiryFeed ----------------------------
(***************************************************************************)
(* SPC enquiries, and the board of the SPC extension that follows them: it *)
(* polls for the rows behind its cursor, the greatest updated_at and id it *)
(* has read, and for the ids of the rows that still are.  The two are read *)
(* one after the other, and enquiries change in between.                   *)
(***************************************************************************)
EXTENDS SpcEnquiries

CONSTANT NoPage   \* no poll under way

ASSUME FeedAssumption == NoPage \notin [Enquiry -> Stamp]

VARIABLES
  cache,    \* the version of each enquiry the board shows, 0 if it does not
  cursor,   \* updated_at and id; <<0, 0>> before the first load
  page,     \* the versions a poll has read, before it reads the ids
  \* History.
  behind    \* enquiries whose last version was stamped behind the cursor, since
            \* the last full load

feedVars == <<cache, cursor, page, behind>>

-----------------------------------------------------------------------------
Position(e, t) == <<t, e>>

IsAfter(p, q) == p[1] > q[1] \/ (p[1] = q[1] /\ p[2] > q[2])

Positions(pg) == {Position(e, pg[e]) : e \in {f \in Enquiry : pg[f] # 0}}

(* The cursor moves to the greatest position of the versions in pg. *)
Advances(pg) ==
  \E c \in {cursor} \cup Positions(pg) :
    /\ \A p \in {cursor} \cup Positions(pg) : ~IsAfter(p, c)
    /\ cursor' = c

FeedTypeOK ==
  /\ TypeOK
  /\ cache \in [Enquiry -> Stamp]
  /\ cursor \in Stamp \X (0..Rows)
  /\ page \in [Enquiry -> Stamp] \cup {NoPage}
  /\ behind \in SUBSET Enquiry

FeedInit ==
  /\ Init
  /\ cache = [e \in Enquiry |-> 0]
  /\ cursor = <<0, 0>>
  /\ page = NoPage
  /\ behind = {}

-----------------------------------------------------------------------------
Active == {e \in Enquiry : Exists(e)}

(* The first load reads every row, and no ids; whatever was behind comes   *)
(* with it.                                                                *)
FullLoad ==
  LET all == [e \in Enquiry |-> IF Exists(e) THEN row[e].stamp ELSE 0] IN
    /\ page = NoPage /\ cursor = <<0, 0>>
    /\ cache' = all
    /\ Advances(all) /\ behind' = {}
    /\ UNCHANGED <<vars, page>>

ReadPage ==
  /\ page = NoPage /\ cursor # <<0, 0>>
  /\ page' = [e \in Enquiry |->
               IF Exists(e) /\ IsAfter(Position(e, row[e].stamp), cursor) THEN row[e].stamp ELSE 0]
  /\ UNCHANGED <<vars, cache, cursor, behind>>

(* Mutant: the ids are read before the page: a row inserted in between is  *)
(* in the page, but not among them.                                        *)
MergedKnown(ids) ==
  [e \in Enquiry |-> IF e \notin ids \/ cache[e] = 0 THEN 0
                     ELSE IF page[e] # 0 THEN page[e] ELSE cache[e]]

Merged(ids) ==
  [e \in Enquiry |-> IF e \notin ids THEN 0 ELSE IF page[e] # 0 THEN page[e] ELSE cache[e]]

ReadIds ==
  /\ page # NoPage
  /\ cache' = Merged(Active)
  /\ Advances(page)
  /\ page' = NoPage
  /\ UNCHANGED <<vars, behind>>

(* The poll fails; the next one asks from the same cursor. *)
PollFails ==
  /\ page # NoPage
  /\ page' = NoPage
  /\ UNCHANGED <<vars, cache, cursor, behind>>

(* The worker of the extension restarts, or its session changes. *)
Reset ==
  /\ cache' = [e \in Enquiry |-> 0]
  /\ cursor' = <<0, 0>>
  /\ page' = NoPage
  /\ UNCHANGED <<vars, behind>>

(* What the board has read, or is about to have read, when a row changes. *)
Read == {cursor} \cup IF page = NoPage THEN {} ELSE Positions(page)

IsBehind(e, t) == \E p \in Read : ~IsAfter(Position(e, t), p)

EnquiryChanges ==
  LET changed == {e \in Enquiry : row'[e].stamp # row[e].stamp} IN
    /\ Next
    /\ behind' = (behind \ changed) \cup {e \in changed : IsBehind(e, row'[e].stamp)}
    /\ UNCHANGED <<cache, cursor, page>>

FeedNext == EnquiryChanges \/ FullLoad \/ ReadPage \/ ReadIds \/ PollFails \/ Reset

FeedSpec == FeedInit /\ [][FeedNext]_<<vars, feedVars>>

-----------------------------------------------------------------------------
(* The board misses nothing: it shows the latest version of every enquiry, *)
(* or will read it by the next poll, whatever is inserted and changed      *)
(* between the two reads and whichever polls fail; except for a version    *)
(* stamped, by a clock or a transaction that lags, behind what the board   *)
(* had read by then.  A full load leaves no such exception.                *)
BoardMissesNothing ==
  \A e \in Active \ behind :
    cache[e] = row[e].stamp \/ IsAfter(Position(e, row[e].stamp), cursor)
===============================================================================
