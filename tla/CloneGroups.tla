---------------------------- MODULE CloneGroups ----------------------------
(***************************************************************************)
(* Mirrored displays as one control                                        *)
(* (crates/duja-app/src/bin_support/clone_group.rs).  A grouping is kept   *)
(* as what it is computed from: a function from the ids of an enumeration  *)
(* to the surface each draws from and whether it has working hardware.     *)
(***************************************************************************)
EXTENDS TwinSlots

CONSTANT NoSurface      \* device: None

\* group_clones: displays on one surface form a group, one without a surface
\* its own; the lowest id is the anchor.
Members(seen, id) ==
  IF seen[id].surface = NoSurface THEN {id}
  ELSE {m \in DOMAIN seen : seen[m].surface = seen[id].surface}

Lowest(ids) == CHOOSE a \in ids : \A b \in ids : Precedes(a, b)

AnchorOf(seen, id) == Lowest(Members(seen, id))
Anchors(seen)      == {AnchorOf(seen, id) : id \in DOMAIN seen}

GroupIsSoftware(seen, id) == \E m \in Members(seen, id) : seen[m].software

\* migrate_group_control: the controlled anchors a new anchor takes over from.
\* One surface has one anchor, so there is at most one.
Predecessors(old, new, controlled, anchor) ==
  {o \in Anchors(old) \intersect controlled :
     /\ o # anchor
     /\ old[o].surface = new[anchor].surface
     /\ old[o].surface # NoSurface}

\* Seeded bug: the ids that went away are pruned first.
MovedAfterPruning(old, new, controlled) ==
  {a \in Anchors(new) :
     Predecessors(old, new, controlled \intersect DOMAIN new, a) # {}}

\* The anchors that inherit a group's control and level.
Moved(old, new, controlled) ==
  {a \in Anchors(new) : Predecessors(old, new, controlled, a) # {}}

\* fan_out_hardware: an all-hardware group drives every member to the target,
\* a software-only one its hardware members to full brightness.
FanOut(seen, anchor, target) ==
  IF GroupIsSoftware(seen, anchor)
    THEN {[id |-> m, pct |-> 100] : m \in {n \in Members(seen, anchor) : ~seen[n].software}}
    ELSE {[id |-> m, pct |-> target] : m \in Members(seen, anchor)}

AllUnresponsive(seen, id, unresponsive) == Members(seen, id) \subseteq unresponsive

=============================================================================
