--------------------------- MODULE TrackedMirror ---------------------------
(***************************************************************************)
(* What a durable change queue promises about a projection: a mirror may   *)
(* lag its source, but every entity that lags is tracked as owed, and an   *)
(* entity stops being owed only while its mirror is exact.                 *)
(***************************************************************************)
EXTENDS Naturals

CONSTANTS
  Entities,   \* what is mirrored
  MaxVersion  \* bound: changes per entity

VARIABLES
  src,   \* version of each entity at the source
  exch,  \* version of each entity in the mirror
  owed   \* entities whose mirror may be out of date

mirrorVars == <<src, exch, owed>>

MirrorInit == /\ src = [e \in Entities |-> 0]
              /\ exch = [e \in Entities |-> 0]
              /\ owed = {}

(* The source moves on and the debt is recorded in the same step. *)
Change(e) == /\ src' = [src EXCEPT ![e] = @ + 1]
             /\ owed' = owed \cup {e}
             /\ UNCHANGED exch

(* The mirror is written, with an old version only while more is owed. *)
Write(e) == /\ \E v \in 0..MaxVersion : /\ exch' = [exch EXCEPT ![e] = v]
                                        /\ v = src[e] \/ e \in owed
            /\ UNCHANGED <<src, owed>>

(* Debts of exact entities are settled. *)
Discharge(S) == /\ S \subseteq owed
                /\ \A e \in S : exch[e] = src[e]
                /\ owed' = owed \ S
                /\ UNCHANGED <<src, exch>>

MirrorNext == \/ \E e \in Entities : Change(e) \/ Write(e)
              \/ \E S \in SUBSET Entities : Discharge(S)

Spec == MirrorInit /\ [][MirrorNext]_mirrorVars
=============================================================================
