----------------------------- MODULE TwinSlots -----------------------------
(***************************************************************************)
(* How displays without a serial number are told apart: assign_twin_slots  *)
(* (crates/duja-core/src/manager.rs) numbers the ids that occur more than  *)
(* once in an enumeration, select_slot_match (id.rs) finds the numbered    *)
(* display again in a list that carries the bare ids.                      *)
(*                                                                         *)
(* A resolved id is <<bare, slot>>: the bare id as a number in the order   *)
(* of the id strings, and Bare or 1 + the number after "-slot".  Ids sort  *)
(* as their strings do: bare before slotted, for the first ten slots.      *)
(***************************************************************************)
EXTENDS Integers, Sequences, FiniteSets

Bare == 0

Precedes(a, b) == a[1] < b[1] \/ (a[1] = b[1] /\ a[2] =< b[2])

\* The positions of a list of bare ids that show the same id, and how many of
\* them come before position i.
Twins(ids, i)  == {j \in DOMAIN ids : ids[j] = ids[i]}
Before(ids, i) == {j \in Twins(ids, i) : j < i}

\* Seeded bug: the first of several twins keeps the bare id, so that slots
\* count the others.
AssignTwinSlotsFromSecond(ids) ==
  [i \in DOMAIN ids |-> <<ids[i], Cardinality(Before(ids, i))>>]

AssignTwinSlots(ids) ==
  [i \in DOMAIN ids |->
     <<ids[i], IF Twins(ids, i) = {i} THEN Bare ELSE 1 + Cardinality(Before(ids, i))>>]

\* The positions select_slot_match may answer: at most one.  A bare request
\* takes the first entry that reads like it, a slotted one the n-th.
SelectSlotMatch(id, ids) ==
  {i \in DOMAIN ids :
     /\ ids[i] = id[1]
     /\ Cardinality(Before(ids, i)) = IF id[2] = Bare THEN 0 ELSE id[2] - 1}

=============================================================================
