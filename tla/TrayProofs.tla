----------------------------- MODULE TrayProofs -----------------------------
(***************************************************************************)
(* The application state of the tray, for any monitors, surfaces, levels   *)
(* and bounds: twins are told apart, a dim follows its surface, surfaces   *)
(* are dimmed once, rows are greyed exactly, and overlays are what the     *)
(* sliders ask for.                                                        *)
(***************************************************************************)
EXTENDS TrayState, FiniteSetTheorems, WellFoundedInduction, TLAPS

-----------------------------------------------------------------------------
(* Twins. *)

LEMMA BeforeIsFinite ==
  ASSUME NEW ids, NEW n \in Nat, DOMAIN ids = 1 .. n, NEW i \in DOMAIN ids
  PROVE  /\ IsFiniteSet(Before(ids, i)) /\ Cardinality(Before(ids, i)) \in Nat
         /\ Cardinality(Before(ids, i)) =< i - 1
PROOF
<1>1. Before(ids, i) \in SUBSET (1 .. i - 1)
  BY DEF Before, Twins
<1>2. IsFiniteSet(1 .. i - 1) /\ Cardinality(1 .. i - 1) = i - 1
  BY FS_Interval
<1> QED
  BY <1>1, <1>2, FS_Subset, FS_CardinalityType

\* Of two twins the later one has more before it.
LEMMA LaterTwin ==
  ASSUME NEW ids, NEW n \in Nat, DOMAIN ids = 1 .. n,
         NEW i \in DOMAIN ids, NEW j \in DOMAIN ids, ids[i] = ids[j], i < j
  PROVE  Cardinality(Before(ids, i)) < Cardinality(Before(ids, j))
PROOF
<1>1. Before(ids, i) \union {i} \in SUBSET Before(ids, j) /\ i \notin Before(ids, i)
  BY DEF Before, Twins
<1>2. /\ IsFiniteSet(Before(ids, i)) /\ Cardinality(Before(ids, i)) \in Nat
      /\ IsFiniteSet(Before(ids, j)) /\ Cardinality(Before(ids, j)) \in Nat
  BY BeforeIsFinite
<1>3. Cardinality(Before(ids, i) \union {i}) = Cardinality(Before(ids, i)) + 1
  BY <1>1, <1>2, FS_AddElement
<1>4. Cardinality(Before(ids, i) \union {i}) =< Cardinality(Before(ids, j))
  BY <1>1, <1>2, FS_Subset
<1> QED
  BY <1>2, <1>3, <1>4

\* select_slot_match undoes assign_twin_slots, on every list.
LEMMA SlotFindsItsDisplay ==
  ASSUME NEW ids, NEW n \in Nat, DOMAIN ids = 1 .. n, NEW i \in DOMAIN ids
  PROVE  SelectSlotMatch(AssignTwinSlots(ids)[i], ids) = {i}
PROOF
<1> DEFINE id == AssignTwinSlots(ids)[i]
<1>1. /\ id[1] = ids[i]
      /\ id[2] = IF Twins(ids, i) = {i} THEN Bare ELSE 1 + Cardinality(Before(ids, i))
  BY DEF AssignTwinSlots
<1> HIDE DEF id
<1>2. \A j \in DOMAIN ids : Cardinality(Before(ids, j)) \in Nat
  BY BeforeIsFinite
<1>3. CASE Twins(ids, i) = {i}
  <2>1. Cardinality(Before(ids, i)) = 0
    <3>1. Before(ids, i) = {}
      BY <1>3 DEF Before
    <3> QED
      BY <3>1, FS_EmptySet
  <2>2. \A j \in DOMAIN ids : ids[j] = ids[i] => j = i
    BY <1>3 DEF Twins
  <2>3. id[2] = Bare /\ id[1] = ids[i]
    BY <1>1, <1>3
  <2>4. SelectSlotMatch(id, ids) =
          {j \in DOMAIN ids : ids[j] = ids[i] /\ Cardinality(Before(ids, j)) = 0}
    BY <2>3 DEF SelectSlotMatch
  <2>5. {j \in DOMAIN ids : ids[j] = ids[i] /\ Cardinality(Before(ids, j)) = 0} = {i}
    BY <2>1, <2>2
  <2> QED
    BY <2>4, <2>5 DEF id
<1>4. CASE Twins(ids, i) # {i}
  <2>1. id[2] # Bare /\ id[2] - 1 = Cardinality(Before(ids, i))
    BY <1>1, <1>2, <1>4 DEF Bare
  <2>2. \A j \in DOMAIN ids :
          ids[j] = ids[i] /\ Cardinality(Before(ids, j)) = Cardinality(Before(ids, i)) => j = i
    <3> SUFFICES ASSUME NEW j \in DOMAIN ids, ids[j] = ids[i], j # i,
                        Cardinality(Before(ids, j)) = Cardinality(Before(ids, i))
                 PROVE  FALSE
      OBVIOUS
    <3>1. i < j \/ j < i
      OBVIOUS
    <3> QED
      BY <1>2, <3>1, LaterTwin
  <2> QED
    BY <1>1, <2>1, <2>2 DEF SelectSlotMatch, id
<1> QED
  BY <1>3, <1>4

LEMMA EnumerationIsList ==
  ASSUME NEW map \in Enumerations
  PROVE  /\ \E n \in 0 .. MaxAttached :
              map \in [1 .. n -> [panel : Panels, surface : Surfaces \union {NoSurface}]]
         /\ \A i, j \in DOMAIN map : i < j => map[i].panel < map[j].panel
PROOF BY DEF Enumerations

\* The ids of an enumeration are among those the monitors may come to have.
LEMMA ResolvedIds ==
  ASSUME NEW map \in Enumerations
  PROVE  IdsOf[map] \subseteq Ids
PROOF
<1> DEFINE bare == BareIds(map)
<1>1. PICK n \in 0 .. MaxAttached :
        map \in [1 .. n -> [panel : Panels, surface : Surfaces \union {NoSurface}]]
  BY EnumerationIsList
<1>2. /\ DOMAIN bare = 1 .. n /\ n \in Nat /\ n =< MaxAttached
      /\ \A i \in 1 .. n : bare[i] = BareId[map[i].panel] /\ map[i].panel \in Panels
  BY <1>1, TrayAssumption DEF BareIds
<1>3. IdsOf[map] = {AssignTwinSlots(bare)[i] : i \in 1 .. n}
  BY <1>1 DEF IdsOf
<1>4. ASSUME NEW i \in 1 .. n
      PROVE  AssignTwinSlots(bare)[i] \in Ids
  <2>1. AssignTwinSlots(bare)[i] =
          <<bare[i], IF Twins(bare, i) = {i} THEN Bare ELSE 1 + Cardinality(Before(bare, i))>>
    BY <1>2 DEF AssignTwinSlots
  <2>2. CASE Twins(bare, i) = {i}
    BY <1>2, <2>1, <2>2 DEF Ids
  <2>3. CASE Twins(bare, i) # {i}
    <3>1. PICK j \in 1 .. n : j # i /\ bare[j] = bare[i]
      BY <1>2, <2>3 DEF Twins
    <3>2. map[i].panel # map[j].panel
      <4>1. map[i].panel \in Nat /\ map[j].panel \in Nat
        BY <1>2, TrayAssumption
      <4>2. i < j \/ j < i
        BY <3>1
      <4> QED
        BY <1>1, <4>1, <4>2, EnumerationIsList
    <3>3. 1 + Cardinality(Before(bare, i)) \in 1 .. MaxAttached
      <4>1. Cardinality(Before(bare, i)) \in Nat /\ Cardinality(Before(bare, i)) =< i - 1
        BY <1>2, BeforeIsFinite
      <4> QED
        BY <1>2, <4>1, TrayAssumption
    <3>4. map[i].panel \in {q \in Panels : \E r \in Panels \ {q} : BareId[r] = BareId[q]}
      BY <1>2, <3>1, <3>2
    <3> QED
      BY <1>2, <2>1, <2>3, <3>3, <3>4 DEF Ids
  <2> QED
    BY <2>2, <2>3
<1> QED
  BY <1>3, <1>4

LEMMA IdsArePairs == Ids \subseteq Nat \X Nat
PROOF BY TrayAssumption DEF Ids, Bare

-----------------------------------------------------------------------------
(* Anchors. *)

LEMMA LeastNumber ==
  ASSUME NEW S, S \subseteq Nat, S # {}
  PROVE  \E m \in S : \A n \in S : m =< n
PROOF
<1> DEFINE R == {p \in Nat \X Nat : p[1] < p[2]}
<1>1. IsWellFoundedOn(R, Nat)
  BY Zenon, NatLessThanWellFounded DEF OpToRel
<1>2. PICK m \in S : \A n \in S : ~ (<<n, m>> \in R)
  <2> HIDE DEF R
  <2> QED
    BY <1>1, WFMin
<1>3. ASSUME NEW n \in S PROVE m =< n
  <2>1. <<n, m>> \notin R
    BY <1>2
  <2>2. ~ (n < m)
    BY <2>1
  <2> QED
    BY <2>2
<1> QED
  BY <1>3

\* Ids that sort have a lowest one.
LEMMA LowestIsLeast ==
  ASSUME NEW S, S \subseteq Nat \X Nat, S # {}
  PROVE  Lowest(S) \in S /\ \A b \in S : Precedes(Lowest(S), b)
PROOF
<1>1. PICK m \in {a[1] : a \in S} : \A n \in {a[1] : a \in S} : m =< n
  <2>1. {a[1] : a \in S} \subseteq Nat /\ {a[1] : a \in S} # {}
    OBVIOUS
  <2> QED
    BY <2>1, LeastNumber
<1> DEFINE T == {a[2] : a \in {b \in S : b[1] = m}}
<1>2. PICK k \in T : \A n \in T : k =< n
  <2>1. T \subseteq Nat /\ T # {}
    BY <1>1
  <2> HIDE DEF T
  <2> QED
    BY <2>1, LeastNumber
<1>3. PICK a \in S : a[1] = m /\ a[2] = k
  BY <1>2
<1>4. \A b \in S : Precedes(a, b)
  BY <1>1, <1>2, <1>3 DEF Precedes
<1> QED
  BY <1>4 DEF Lowest

\* The members of a group agree on their group.
LEMMA MembersAgree ==
  ASSUME NEW groups, NEW id \in DOMAIN groups, NEW m \in Members(groups, id)
  PROVE  /\ m \in DOMAIN groups /\ groups[m].surface = groups[id].surface
         /\ Members(groups, m) = Members(groups, id)
PROOF BY DEF Members

LEMMA AnchorIsMember ==
  ASSUME NEW groups, DOMAIN groups \subseteq Ids, NEW id \in DOMAIN groups
  PROVE  AnchorOf(groups, id) \in Members(groups, id)
PROOF
<1>1. Members(groups, id) # {} /\ Members(groups, id) \subseteq Nat \X Nat
  BY IdsArePairs DEF Members
<1> QED
  BY <1>1, LowestIsLeast DEF AnchorOf

\* Members have one anchor, which is its own.
LEMMA AnchorsAgree ==
  ASSUME NEW groups, DOMAIN groups \subseteq Ids, NEW id \in DOMAIN groups,
         NEW m \in Members(groups, id)
  PROVE  AnchorOf(groups, m) = AnchorOf(groups, id)
PROOF BY MembersAgree DEF AnchorOf

LEMMA AnchorIsItsOwn ==
  ASSUME NEW groups, DOMAIN groups \subseteq Ids, NEW a \in Anchors(groups)
  PROVE  a \in DOMAIN groups /\ AnchorOf(groups, a) = a
PROOF
<1>1. PICK id \in DOMAIN groups : a = AnchorOf(groups, id)
  BY DEF Anchors
<1>2. a \in Members(groups, id)
  BY <1>1, AnchorIsMember
<1> QED
  BY <1>1, <1>2, MembersAgree, AnchorsAgree

\* A surface has one anchor.
LEMMA OneAnchor ==
  ASSUME NEW groups, DOMAIN groups \subseteq Ids,
         NEW a \in Anchors(groups), NEW b \in Anchors(groups),
         groups[a].surface = groups[b].surface, groups[a].surface # NoSurface
  PROVE  a = b
PROOF
<1>1. a \in DOMAIN groups /\ b \in DOMAIN groups /\ AnchorOf(groups, a) = a /\ AnchorOf(groups, b) = b
  BY AnchorIsItsOwn
<1>2. b \in Members(groups, a)
  BY <1>1 DEF Members
<1> QED
  BY <1>1, <1>2, AnchorsAgree

-----------------------------------------------------------------------------
(* What every reachable state keeps. *)

\* The ids the handlers work with are those the monitors may have.
IdsOK ==
  /\ bounds \in Enumerations
  /\ announced \in Seq(SUBSET Ids)
  /\ DOMAIN seen \subseteq Ids

\* What DisplaysChanged does, with the new grouping by its name.
LEMMA DisplaysChangedDoes ==
  ASSUME DisplaysChanged
  PROVE  /\ announced # <<>> /\ announced' = Tail(announced)
         /\ DOMAIN seen' = Head(announced)
         /\ \A id \in DOMAIN seen' : seen'[id].surface = SurfaceFor[bounds][id]
         /\ controlled' = (controlled \union Moved(seen, seen', controlled)) \intersect DOMAIN seen'
         /\ \A id \in Ids :
              /\ id \in Moved(seen, seen', controlled) =>
                   level'[id] = LevelOr(level,
                     CHOOSE o \in Predecessors(seen, seen', controlled, id) : TRUE, DefaultUserLevel)
              /\ id \in controlled' \ Moved(seen, seen', controlled) => level'[id] = level[id]
              /\ \/ id \in Moved(seen, seen', controlled) \/ level'[id] = level[id]
                 \/ \E reading \in Readings \union {DefaultUserLevel} :
                      level'[id] = AdoptPosition(reading, level[id], ConfigOf(seen', id))
         /\ level' = [id \in Ids |-> level'[id]]
         /\ unresponsive' \subseteq unresponsive
         /\ greyed' = {a \in Anchors(seen') : AllUnresponsive(seen', a, unresponsive')}
         /\ overlays' = Plan(seen', controlled', level')
         /\ bounds' = bounds /\ sent' = {}
PROOF
<1> DEFINE G(s)    == [id \in DOMAIN s |->
                         [surface |-> SurfaceFor[bounds][id], software |-> s[id].software]]
           Held(g)   == (controlled \union Moved(seen, g, controlled)) \intersect DOMAIN g
           L(s, g, held) == [id \in Ids |->
             IF id \in Moved(seen, g, controlled)
               THEN LevelOr(level,
                      CHOOSE o \in Predecessors(seen, g, controlled, id) : TRUE, DefaultUserLevel)
             ELSE IF id \in DOMAIN g \ held
               THEN AdoptPosition(s[id].reading, level[id], ConfigOf(g, id))
               ELSE level[id]]
<1>0. PICK snapshots \in Snapshots(Head(announced)) :
        /\ seen' = G(snapshots)
        /\ controlled' = Held(G(snapshots))
        /\ level' = L(snapshots, G(snapshots), Held(G(snapshots)))
        /\ greyed' = {a \in Anchors(G(snapshots)) : AllUnresponsive(G(snapshots), a, unresponsive')}
        /\ overlays' = Plan(G(snapshots), Held(G(snapshots)), level')
  BY Zenon DEF DisplaysChanged
<1>1. /\ seen' = G(snapshots)
      /\ controlled' = Held(seen')
      /\ level' = L(snapshots, seen', controlled')
      /\ greyed' = {a \in Anchors(seen') : AllUnresponsive(seen', a, unresponsive')}
      /\ overlays' = Plan(seen', controlled', level')
  <2> HIDE DEF G, Held, L
  <2> QED
    BY Zenon, <1>0
<1>2. announced # <<>> /\ announced' = Tail(announced) /\ bounds' = bounds /\ sent' = {}
  BY DEF DisplaysChanged
<1>3. /\ DOMAIN snapshots = Head(announced)
      /\ \A id \in DOMAIN snapshots : snapshots[id].reading \in Readings \union {DefaultUserLevel}
  BY DEF Snapshots
<1>4. /\ DOMAIN seen' = Head(announced)
      /\ \A id \in DOMAIN seen' : seen'[id].surface = SurfaceFor[bounds][id]
  BY <1>1, <1>3
<1>5. \A id \in Ids :
        /\ id \in Moved(seen, seen', controlled) =>
             level'[id] = LevelOr(level,
               CHOOSE o \in Predecessors(seen, seen', controlled, id) : TRUE, DefaultUserLevel)
        /\ id \in controlled' \ Moved(seen, seen', controlled) => level'[id] = level[id]
        /\ \/ id \in Moved(seen, seen', controlled) \/ level'[id] = level[id]
           \/ \E reading \in Readings \union {DefaultUserLevel} :
                level'[id] = AdoptPosition(reading, level[id], ConfigOf(seen', id))
  <2>1. DOMAIN seen' = DOMAIN snapshots
    BY <1>1
  <2> QED
    BY <1>1, <1>3, <2>1
<1>6. level' = [id \in Ids |-> level'[id]]
  BY <1>1
<1>7. unresponsive' \subseteq unresponsive
  BY DEF DisplaysChanged
<1> QED
  BY <1>1, <1>2, <1>4, <1>5, <1>6, <1>7

LEMMA IdsOKInit == Init => IdsOK
PROOF
<1> SUFFICES ASSUME Init PROVE IdsOK
  OBVIOUS
<1>1. bounds = <<>> /\ announced = <<>> /\ seen = <<>>
  BY DEF Init
<1>2. <<>> \in Enumerations
  <2>1. 0 \in 0 .. MaxAttached
    BY TrayAssumption
  <2>2. <<>> \in [1 .. 0 -> [panel : Panels, surface : Surfaces \union {NoSurface}]]
    OBVIOUS
  <2> QED
    BY <2>1, <2>2 DEF Enumerations
<1> QED
  BY <1>1, <1>2 DEF IdsOK

LEMMA IdsOKStep == IdsOK /\ [Next]_vars => IdsOK'
PROOF
<1> SUFFICES ASSUME IdsOK, [Next]_vars PROVE IdsOK'
  OBVIOUS
<1> USE DEF IdsOK
<1>1. CASE Enumerate
  BY <1>1 DEF Enumerate
<1>2. CASE Announce
  <2>1. IdsOf[bounds] \in SUBSET Ids
    BY ResolvedIds
  <2> QED
    BY <1>2, <2>1 DEF Announce
<1>3. CASE DisplaysChanged
  <2>1. /\ announced # <<>> /\ announced' = Tail(announced)
        /\ DOMAIN seen' = Head(announced) /\ bounds' = bounds
    BY <1>3, DisplaysChangedDoes
  <2>2. Head(announced) \in SUBSET Ids /\ Tail(announced) \in Seq(SUBSET Ids)
    BY <2>1
  <2> QED
    BY <2>1, <2>2
<1>4. ASSUME UNCHANGED <<bounds, announced, seen>> PROVE IdsOK'
  BY <1>4
<1>5. CASE SetUserLevel \/ Nudge(Step) \/ Nudge(-Step)
  BY <1>4, <1>5 DEF SetUserLevel, Nudge, SetUserLevels, engineVars
<1>6. CASE RestoreScreen \/ PlatformWake
  BY <1>4, <1>6 DEF RestoreScreen, PlatformWake, engineVars
<1>7. ASSUME NEW id, NEW responsive, MemberHealth(id, responsive) PROVE IdsOK'
  BY <1>4, <1>7 DEF MemberHealth, engineVars
<1>8. ASSUME NEW id, NEW hw, LevelRead(id, hw) PROVE IdsOK'
  BY <1>4, <1>8 DEF LevelRead, engineVars
<1>9. CASE UNCHANGED vars
  BY <1>4, <1>9 DEF vars, engineVars
<1> QED
  BY Zenon, <1>1, <1>2, <1>3, <1>5, <1>6, <1>7, <1>8, <1>9 DEF Next

\* Twins are told apart in every enumeration.
THEOREM TwinsAreToldApart == Spec => []TwinsStayApart
PROOF
<1>1. IdsOK => TwinsStayApart
  <2> SUFFICES ASSUME IdsOK, NEW i \in DOMAIN bounds
               PROVE  SelectSlotMatch(AssignTwinSlots(BareIds(bounds))[i], BareIds(bounds)) = {i}
    BY DEF TwinsStayApart
  <2>1. PICK n \in 0 .. MaxAttached : DOMAIN bounds = 1 .. n
    BY EnumerationIsList DEF IdsOK
  <2>2. DOMAIN BareIds(bounds) = 1 .. n /\ n \in Nat
    BY <2>1, TrayAssumption DEF BareIds
  <2> QED
    BY <2>1, <2>2, SlotFindsItsDisplay
<1> QED
  BY <1>1, IdsOKInit, IdsOKStep, PTL DEF Spec

-----------------------------------------------------------------------------
(* A dim follows its surface. *)

LEMMA DimFollows ==
  ASSUME IdsOK, IdsOK', DisplaysChanged,
         NEW old \in Anchors(seen) \intersect controlled, NEW new \in Anchors(seen'),
         seen[old].surface = seen'[new].surface,
         seen[old].surface = NoSurface => old = new
  PROVE  new \in controlled' /\ (level[old] # NoLevel => level'[new] = level[old])
PROOF
<1>1. /\ controlled' = (controlled \union Moved(seen, seen', controlled)) \intersect DOMAIN seen'
      /\ \A id \in Ids :
           /\ id \in Moved(seen, seen', controlled) =>
                level'[id] = LevelOr(level,
                  CHOOSE o \in Predecessors(seen, seen', controlled, id) : TRUE, DefaultUserLevel)
           /\ id \in controlled' \ Moved(seen, seen', controlled) => level'[id] = level[id]
  BY DisplaysChangedDoes
<1>2. /\ DOMAIN seen \subseteq Ids /\ DOMAIN seen' \subseteq Ids
      /\ new \in DOMAIN seen' /\ new \in Ids
  BY AnchorIsItsOwn DEF IdsOK
\* Whoever hands control to the new anchor is the old one.
<1>3. \A o \in Predecessors(seen, seen', controlled, new) : o = old /\ o # new
  BY <1>2, OneAnchor DEF Predecessors
<1>4. CASE old = new
  <2>1. new \notin Moved(seen, seen', controlled)
    BY <1>3, <1>4 DEF Moved
  <2> QED
    BY <1>1, <1>2, <1>4, <2>1
<1>5. CASE old # new
  <2>1. old \in Predecessors(seen, seen', controlled, new)
    BY <1>5 DEF Predecessors
  <2>2. new \in Moved(seen, seen', controlled)
    BY <2>1 DEF Moved
  <2>3. (CHOOSE o \in Predecessors(seen, seen', controlled, new) : TRUE) = old
    BY <1>3, <2>1
  <2> QED
    BY <1>1, <1>2, <2>2, <2>3 DEF LevelOr
<1> QED
  BY <1>4, <1>5

\* The dim of a surface is handed from anchor to anchor, never dropped.
THEOREM DimsFollowSurfaces == Spec => DimFollowsSurface
PROOF
<1>1. IdsOK /\ IdsOK' /\ [Next]_vars =>
        [DisplaysChanged =>
           \A old \in Anchors(seen) \intersect controlled, new \in Anchors(seen') :
             /\ seen[old].surface = seen'[new].surface
             /\ seen[old].surface = NoSurface => old = new
             => new \in controlled' /\ (level[old] # NoLevel => level'[new] = level[old])]_vars
  BY DimFollows
<1> QED
  BY <1>1, IdsOKInit, IdsOKStep, PTL DEF Spec, DimFollowsSurface

-----------------------------------------------------------------------------
(* Rows are greyed exactly. *)

LEMMA HealthStep ==
  ASSUME IdsOK, GreyedExactlyWhenAllDown, NEW id, NEW responsive, MemberHealth(id, responsive)
  PROVE  GreyedExactlyWhenAllDown'
PROOF
<1>1. seen' = seen
  BY DEF MemberHealth
<1>2. unresponsive' = IF responsive THEN unresponsive \ {id} ELSE unresponsive \union {id}
  BY DEF MemberHealth
<1>3. SUFFICES ASSUME NEW a \in Anchors(seen)
               PROVE  a \in greyed' <=> AllUnresponsive(seen, a, unresponsive')
  BY <1>1 DEF GreyedExactlyWhenAllDown
<1>4. a \in greyed <=> AllUnresponsive(seen, a, unresponsive)
  BY DEF GreyedExactlyWhenAllDown
<1>5. DOMAIN seen \subseteq Ids /\ a \in DOMAIN seen /\ AnchorOf(seen, a) = a
  BY AnchorIsItsOwn DEF IdsOK
\* Another group: neither its members nor its row are touched.
<1>6. ASSUME id \notin Members(seen, a)
      PROVE  AllUnresponsive(seen, a, unresponsive') <=> AllUnresponsive(seen, a, unresponsive)
  BY <1>2, <1>6 DEF AllUnresponsive
<1>7. CASE id \notin DOMAIN seen
  <2>1. greyed' = greyed /\ id \notin Members(seen, a)
    BY <1>5, <1>7 DEF MemberHealth, Members
  <2> QED
    BY <1>4, <1>6, <2>1
<1>8. CASE id \in DOMAIN seen
  <2>1. Route(id) = AnchorOf(seen, id)
    BY <1>8 DEF Route
  <2>2. greyed' = IF AllUnresponsive(seen, id, unresponsive') THEN greyed \union {Route(id)}
                  ELSE greyed \ {Route(id)}
    BY <1>8 DEF MemberHealth
  <2>3. CASE a = Route(id)
    <3>1. Members(seen, a) = Members(seen, id)
      BY <1>5, <1>8, <2>1, <2>3, AnchorIsMember, MembersAgree
    <3>2. AllUnresponsive(seen, a, unresponsive') <=> AllUnresponsive(seen, id, unresponsive')
      BY <3>1 DEF AllUnresponsive
    <3> QED
      BY <2>2, <2>3, <3>2
  <2>4. CASE a # Route(id)
    <3>1. id \notin Members(seen, a)
      BY <1>5, <2>1, <2>4, AnchorsAgree
    <3>2. a \in greyed' <=> a \in greyed
      BY <2>2, <2>4
    <3> QED
      BY <1>4, <1>6, <3>1, <3>2
  <2> QED
    BY <2>3, <2>4
<1> QED
  BY <1>7, <1>8

LEMMA GreyedStep == IdsOK /\ GreyedExactlyWhenAllDown /\ [Next]_vars => GreyedExactlyWhenAllDown'
PROOF
<1> SUFFICES ASSUME IdsOK, GreyedExactlyWhenAllDown, [Next]_vars
             PROVE  GreyedExactlyWhenAllDown'
  OBVIOUS
<1>1. ASSUME UNCHANGED <<seen, unresponsive, greyed>> PROVE GreyedExactlyWhenAllDown'
  BY <1>1 DEF GreyedExactlyWhenAllDown
<1>2. CASE Enumerate \/ Announce
  BY <1>1, <1>2 DEF Enumerate, Announce
<1>3. CASE SetUserLevel \/ Nudge(Step) \/ Nudge(-Step)
  BY <1>1, <1>3 DEF SetUserLevel, Nudge, SetUserLevels
<1>4. CASE RestoreScreen \/ PlatformWake
  BY <1>1, <1>4 DEF RestoreScreen, PlatformWake
<1>5. CASE DisplaysChanged
  BY <1>5, DisplaysChangedDoes DEF GreyedExactlyWhenAllDown
<1>6. ASSUME NEW id, NEW responsive, MemberHealth(id, responsive) PROVE GreyedExactlyWhenAllDown'
  BY <1>6, HealthStep
<1>7. ASSUME NEW id, NEW hw, LevelRead(id, hw) PROVE GreyedExactlyWhenAllDown'
  BY <1>1, <1>7 DEF LevelRead
<1>8. CASE UNCHANGED vars
  BY <1>1, <1>8 DEF vars
<1> QED
  BY Zenon, <1>2, <1>3, <1>4, <1>5, <1>6, <1>7, <1>8 DEF Next

\* The row of a group is greyed exactly when none of its members answers.
THEOREM RowsAreGreyedExactly == Spec => []GreyedExactlyWhenAllDown
PROOF
<1>1. Init => GreyedExactlyWhenAllDown
  BY DEF Init, GreyedExactlyWhenAllDown, Anchors
<1> QED
  BY <1>1, IdsOKInit, IdsOKStep, GreyedStep, PTL DEF Spec

-----------------------------------------------------------------------------
(* Overlays. *)

\* A plan holds an overlay for an anchor the user controls, of its depth.
LEMMA PlanFollowsSlider ==
  ASSUME NEW groups, NEW held, NEW levels, NEW o \in Plan(groups, held, levels)
  PROVE  /\ o.id \in Anchors(groups) \intersect held
         /\ o.surface = SurfaceFor[bounds][o.id] /\ o.surface # NoSurface
         /\ o.alpha = OverlayAlpha(LevelOr(levels, o.id, 100), ConfigOf(groups, o.id))
         /\ o.alpha > 0
         /\ o = [id |-> o.id, surface |-> o.surface, alpha |-> o.alpha]
PROOF BY DEF Plan

LEMMA OverlayStep == OverlayFollowsSlider /\ [Next]_vars => OverlayFollowsSlider'
PROOF
<1> SUFFICES ASSUME OverlayFollowsSlider, [Next]_vars PROVE OverlayFollowsSlider'
  OBVIOUS
<1>1. ASSUME UNCHANGED <<seen, level, controlled, overlays>> PROVE OverlayFollowsSlider'
  BY <1>1 DEF OverlayFollowsSlider
<1>2. ASSUME bounds' = bounds, overlays' = Plan(seen', controlled', level')
      PROVE  OverlayFollowsSlider'
  BY <1>2, PlanFollowsSlider DEF OverlayFollowsSlider
<1>3. CASE Enumerate \/ Announce
  BY <1>1, <1>3 DEF Enumerate, Announce
<1>4. ASSUME NEW wanted, SetUserLevels(wanted) PROVE OverlayFollowsSlider'
  <2>1. seen' = seen /\ bounds' = bounds /\ overlays' = Plan(seen, controlled', level')
    BY <1>4 DEF SetUserLevels, engineVars
  <2> QED
    BY <1>2, <2>1
<1>5. CASE SetUserLevel \/ Nudge(Step) \/ Nudge(-Step)
  BY Zenon, <1>4, <1>5 DEF SetUserLevel, Nudge
<1>6. CASE RestoreScreen
  BY <1>6 DEF RestoreScreen, OverlayFollowsSlider
<1>7. CASE PlatformWake
  <2>1. /\ seen' = seen /\ level' = level /\ controlled' = controlled /\ bounds' = bounds
        /\ overlays' = Plan(seen, controlled, level)
    BY <1>7 DEF PlatformWake, engineVars
  <2> QED
    BY <1>2, <2>1
<1>8. CASE DisplaysChanged
  BY <1>2, <1>8, DisplaysChangedDoes
<1>9. ASSUME NEW id, NEW responsive, MemberHealth(id, responsive) PROVE OverlayFollowsSlider'
  BY <1>1, <1>9 DEF MemberHealth
<1>10. ASSUME NEW id, NEW hw, LevelRead(id, hw) PROVE OverlayFollowsSlider'
  <2>1. /\ seen' = seen /\ controlled' = controlled /\ bounds' = bounds
        /\ overlays' = Plan(seen, controlled, level')
    BY <1>10 DEF LevelRead, engineVars
  <2> QED
    BY <1>2, <2>1
<1>11. CASE UNCHANGED vars
  BY <1>1, <1>11 DEF vars
<1> QED
  BY Zenon, <1>3, <1>5, <1>6, <1>7, <1>8, <1>9, <1>10, <1>11 DEF Next

\* What is on screen is what the sliders ask for.
THEOREM OverlaysFollowSliders == Spec => []OverlayFollowsSlider
PROOF
<1>1. Init => OverlayFollowsSlider
  BY DEF Init, OverlayFollowsSlider
<1> QED
  BY <1>1, OverlayStep, PTL DEF Spec

-----------------------------------------------------------------------------
(* Surfaces are dimmed once. *)

\* Where an overlay shows, the panel is at its floor.
LEMMA FloorUnderOverlay ==
  ASSUME NEW p \in Percent, OverlayAlpha(p, Hardware(Floor, MinPerceived)) > 0
  PROVE  HardwarePct(p, Hardware(Floor, MinPerceived)) = Floor
PROOF
<1> DEFINE cfg == Hardware(Floor, MinPerceived)
<1>1. cfg.software = FALSE /\ cfg.floor = Floor
  BY DEF Hardware
<1>2. Transition(cfg) \in Int
  BY TrayAssumption DEF Transition, Pos, Hardware, Percent
<1>3. 100 * p < Transition(cfg)
  <2> HIDE DEF cfg
  <2>1. ~ (100 * p >= Transition(cfg))
    BY <1>1 DEF OverlayAlpha, cfg
  <2> QED
    BY <1>2, <2>1 DEF Percent
<1> QED
  BY <1>1, <1>3 DEF HardwarePct

\* With a grouping that is that of the desktop, a plan dims a surface once.
LEMMA PlanDimsOnce ==
  ASSUME NEW groups, DOMAIN groups \subseteq Ids, NEW held, NEW levels,
         \A id \in DOMAIN groups : groups[id].surface = SurfaceFor[bounds][id],
         NEW o \in Plan(groups, held, levels), NEW other \in Plan(groups, held, levels),
         other.surface = o.surface
  PROVE  other = o
PROOF
<1>1. /\ o.id \in Anchors(groups) /\ other.id \in Anchors(groups)
      /\ o.surface = SurfaceFor[bounds][o.id] /\ o.surface # NoSurface
      /\ other.surface = SurfaceFor[bounds][other.id]
      /\ o.alpha = OverlayAlpha(LevelOr(levels, o.id, 100), ConfigOf(groups, o.id))
      /\ other.alpha = OverlayAlpha(LevelOr(levels, other.id, 100), ConfigOf(groups, other.id))
      /\ o = [id |-> o.id, surface |-> o.surface, alpha |-> o.alpha]
      /\ other = [id |-> other.id, surface |-> other.surface, alpha |-> other.alpha]
  BY PlanFollowsSlider
<1>2. o.id \in DOMAIN groups /\ other.id \in DOMAIN groups
  BY <1>1, AnchorIsItsOwn
<1>3. o.id = other.id
  BY <1>1, <1>2, OneAnchor
<1> QED
  BY Zenon, <1>1, <1>3

\* What a handler of user input wants is for anchors, or for ids in no group.
LEMMA WantedIsForAnchors ==
  ASSUME IdsOK, NEW id, NEW a, a = Route(id), a \in DOMAIN seen
  PROVE  a \in Anchors(seen)
PROOF
<1>1. CASE id \in DOMAIN seen
  BY <1>1 DEF Route, Anchors
<1>2. CASE id \notin DOMAIN seen
  BY <1>2 DEF Route
<1> QED
  BY <1>1, <1>2

\* A write under an overlay drives the panel to its floor or to full.
LEMMA WritesKeepToOverlay ==
  ASSUME IdsOK, Fresh, NEW wanted, SetUserLevels(wanted),
         \A a \in DOMAIN wanted : wanted[a] \in Percent /\ (a \in DOMAIN seen => a \in Anchors(seen)),
         NEW o \in overlays', NEW w \in sent', SurfaceFor[bounds][w.id] = o.surface
  PROVE  w.pct = IF GroupIsSoftware(seen, w.id) THEN 100 ELSE Floor
PROOF
<1>1. /\ overlays' = Plan(seen, controlled', level')
      /\ sent' = UNION {Writes(b, wanted[b]) : b \in DOMAIN wanted}
      /\ level' = [id \in Ids |-> IF id \in DOMAIN wanted THEN wanted[id] ELSE level[id]]
  BY DEF SetUserLevels
<1>2. PICK a \in DOMAIN wanted : w \in Writes(a, wanted[a])
  BY <1>1
<1>3. /\ a \in DOMAIN seen /\ a \in Anchors(seen) /\ wanted[a] \in Percent
      /\ w \in FanOut(seen, a, HardwarePct(wanted[a], ConfigOf(seen, a)))
  BY <1>2 DEF Writes
<1>4. /\ w.id \in Members(seen, a)
      /\ w.pct = IF GroupIsSoftware(seen, a) THEN 100
                 ELSE HardwarePct(wanted[a], ConfigOf(seen, a))
  BY <1>3 DEF FanOut
<1>5. w.id \in DOMAIN seen /\ GroupIsSoftware(seen, w.id) = GroupIsSoftware(seen, a)
  BY <1>3, <1>4, MembersAgree DEF GroupIsSoftware
<1>6. /\ o.id \in Anchors(seen) /\ o.surface = SurfaceFor[bounds][o.id] /\ o.surface # NoSurface
      /\ o.alpha = OverlayAlpha(LevelOr(level', o.id, 100), ConfigOf(seen, o.id)) /\ o.alpha > 0
  BY <1>1, PlanFollowsSlider
<1>7. a = o.id
  <2>1. DOMAIN seen \subseteq Ids /\ o.id \in DOMAIN seen
    BY <1>6, AnchorIsItsOwn DEF IdsOK
  <2>2. seen[a].surface = o.surface /\ seen[o.id].surface = o.surface
    BY <1>3, <1>4, <1>5, <1>6, <2>1, MembersAgree DEF Fresh
  <2> QED
    BY <1>3, <1>6, <2>1, <2>2, OneAnchor
<1>8. LevelOr(level', o.id, 100) = wanted[a]
  <2>1. a \in Ids
    BY <1>3 DEF IdsOK
  <2>2. \A p \in Percent : p # NoLevel
    BY DEF Percent, NoLevel
  <2> QED
    BY <1>1, <1>3, <1>7, <2>1, <2>2 DEF LevelOr
<1>9. CASE ~ GroupIsSoftware(seen, a)
  <2>1. ConfigOf(seen, a) = Hardware(Floor, MinPerceived)
    BY <1>9 DEF ConfigOf
  <2>2. HardwarePct(wanted[a], ConfigOf(seen, a)) = Floor
    BY <1>3, <1>6, <1>7, <1>8, <2>1, FloorUnderOverlay
  <2> QED
    BY <1>4, <1>5, <1>9, <2>2
<1> QED
  BY <1>4, <1>5, <1>9

LEMMA InputIsPercent ==
  /\ SetUserLevel => \E id, pct : pct \in Percent /\ SetUserLevels([a \in {Route(id)} |-> pct])
  /\ \A delta : Nudge(delta) =>
       \E wanted : /\ DOMAIN wanted = Anchors(seen)
                   /\ \A a \in DOMAIN wanted : wanted[a] \in Percent
                   /\ SetUserLevels(wanted)
PROOF
<1>1. SetUserLevel => \E id, pct : pct \in Percent /\ SetUserLevels([a \in {Route(id)} |-> pct])
  BY TrayAssumption DEF SetUserLevel
<1>2. ASSUME NEW delta, Nudge(delta)
      PROVE  \E wanted : /\ DOMAIN wanted = Anchors(seen)
                         /\ \A a \in DOMAIN wanted : wanted[a] \in Percent
                         /\ SetUserLevels(wanted)
  <2> DEFINE Clamped(n) == IF n < 0 THEN 0 ELSE IF n > 100 THEN 100 ELSE n
             wanted == [a \in Anchors(seen) |-> Clamped(LevelOr(level, a, 100) + delta)]
  <2>1. (\A a \in DOMAIN wanted : wanted[a] \in NudgedLevels) /\ SetUserLevels(wanted)
    BY <1>2 DEF Nudge
  <2>2. DOMAIN wanted = Anchors(seen)
    OBVIOUS
  <2> HIDE DEF wanted
  <2> QED
    BY <2>1, <2>2, TrayAssumption
<1> QED
  BY <1>1, <1>2

LEMMA DimOnceStep ==
  ASSUME IdsOK, IdsOK', Next, Fresh', overlays' # overlays \/ sent' # {},
         NEW o \in overlays'
  PROVE  /\ \A other \in overlays' : other.surface = o.surface => other = o
         /\ \A w \in sent' : SurfaceFor[bounds][w.id] = o.surface =>
              w.pct = IF GroupIsSoftware(seen, w.id) THEN 100 ELSE Floor
PROOF
<1> DEFINE Once == \A other \in overlays' : other.surface = o.surface => other = o
           Kept == \A w \in sent' : SurfaceFor[bounds][w.id] = o.surface =>
                     w.pct = IF GroupIsSoftware(seen, w.id) THEN 100 ELSE Floor
<1>1. ASSUME bounds' = bounds, overlays' = Plan(seen', controlled', level')
      PROVE  Once
  <2>1. DOMAIN seen' \subseteq Ids /\ \A id \in DOMAIN seen' : seen'[id].surface = SurfaceFor[bounds][id]
    BY <1>1 DEF IdsOK, Fresh
  <2> QED
    BY <1>1, <2>1, PlanDimsOnce
<1>2. ASSUME sent' = {} PROVE Kept
  BY <1>2
<1>3. ASSUME NEW wanted, SetUserLevels(wanted),
             \A a \in DOMAIN wanted : wanted[a] \in Percent /\ (a \in DOMAIN seen => a \in Anchors(seen))
      PROVE  Once /\ Kept
  <2>1. bounds' = bounds /\ seen' = seen /\ overlays' = Plan(seen, controlled', level')
    BY <1>3 DEF SetUserLevels, engineVars
  <2>2. Fresh
    BY <2>1 DEF Fresh
  <2>3. Kept
    BY <1>3, <2>1, <2>2, WritesKeepToOverlay
  <2> QED
    BY <1>1, <2>1, <2>3
<1>4. CASE SetUserLevel
  <2>1. PICK id, pct : pct \in Percent /\ SetUserLevels([a \in {Route(id)} |-> pct])
    BY <1>4, InputIsPercent
  <2> DEFINE wanted == [a \in {Route(id)} |-> pct]
  <2>2. \A a \in DOMAIN wanted : wanted[a] \in Percent /\ (a \in DOMAIN seen => a \in Anchors(seen))
    BY <2>1, WantedIsForAnchors
  <2> QED
    BY <1>3, <2>1, <2>2
<1>5. CASE Nudge(Step) \/ Nudge(-Step)
  <2>1. PICK wanted : /\ DOMAIN wanted = Anchors(seen)
                      /\ \A a \in DOMAIN wanted : wanted[a] \in Percent
                      /\ SetUserLevels(wanted)
    BY <1>5, InputIsPercent
  <2> QED
    BY <1>3, <2>1
<1>6. CASE Enumerate \/ Announce
  BY <1>6 DEF Enumerate, Announce
<1>7. CASE RestoreScreen
  BY <1>7 DEF RestoreScreen
<1>8. CASE PlatformWake
  <2>1. /\ seen' = seen /\ level' = level /\ controlled' = controlled /\ bounds' = bounds
        /\ overlays' = Plan(seen, controlled, level) /\ sent' = {}
    BY <1>8 DEF PlatformWake, engineVars
  <2> QED
    BY <1>1, <1>2, <2>1
<1>9. CASE DisplaysChanged
  BY <1>1, <1>2, <1>9, DisplaysChangedDoes
<1>10. ASSUME NEW id, NEW responsive, MemberHealth(id, responsive) PROVE Once /\ Kept
  BY <1>10 DEF MemberHealth
<1>11. ASSUME NEW id, NEW hw, LevelRead(id, hw) PROVE Once /\ Kept
  <2>1. /\ seen' = seen /\ controlled' = controlled /\ bounds' = bounds
        /\ overlays' = Plan(seen, controlled, level') /\ sent' = {}
    BY <1>11 DEF LevelRead, engineVars
  <2> QED
    BY <1>1, <1>2, <2>1
<1> HIDE DEF Once, Kept
<1> QED
  BY Zenon, <1>4, <1>5, <1>6, <1>7, <1>8, <1>9, <1>10, <1>11 DEF Next, Once, Kept

\* No surface is dimmed twice, by two overlays or by an overlay and a panel.
THEOREM SurfacesAreDimmedOnce == Spec => NoDoubleDim
PROOF
<1>1. IdsOK /\ IdsOK' /\ [Next]_vars =>
        [Fresh' /\ (overlays' # overlays \/ sent' # {}) =>
           \A o \in overlays' :
             /\ \A other \in overlays' : other.surface = o.surface => other = o
             /\ \A w \in sent' : SurfaceFor[bounds][w.id] = o.surface =>
                  w.pct = IF GroupIsSoftware(seen, w.id) THEN 100 ELSE Floor]_vars
  BY DimOnceStep
<1> QED
  BY <1>1, IdsOKInit, IdsOKStep, PTL DEF Spec, NoDoubleDim

-----------------------------------------------------------------------------
(* Type correctness. *)

LEMMA RoundClampRange ==
  ASSUME NEW n \in Int, NEW d \in Nat \ {0}, NEW lo \in Percent, NEW hi \in Percent, lo =< hi
  PROVE  RoundClamp(n, d, lo, hi) \in lo .. hi
PROOF
<1>1. (2 * n + d) \div (2 * d) \in Int
  OBVIOUS
<1> QED
  BY <1>1 DEF RoundClamp, Least, Most, Percent

LEMMA ConfigsAre ==
  ASSUME NEW groups, NEW id
  PROVE  ConfigOf(groups, id) \in {SoftwareOnly, Hardware(Floor, MinPerceived)}
PROOF BY DEF ConfigOf

LEMMA AlphaRange ==
  ASSUME NEW p \in Percent, NEW cfg \in {SoftwareOnly, Hardware(Floor, MinPerceived)}
  PROVE  OverlayAlpha(p, cfg) \in Int /\ OverlayAlpha(p, cfg) =< MaxAlpha
PROOF
<1> DEFINE full == IF cfg.software THEN 10000 ELSE Transition(cfg)
<1>1. full \in Int
  <2>1. CASE cfg = SoftwareOnly
    BY <2>1 DEF SoftwareOnly
  <2>2. CASE cfg = Hardware(Floor, MinPerceived)
    BY <2>2, TrayAssumption DEF Hardware, Transition, Pos, Percent
  <2> QED
    BY <2>1, <2>2
<1>2. OverlayAlpha(p, cfg) = IF 100 * p >= full THEN 0
                             ELSE Least(MaxAlpha, ((full - 100 * p) * 10000) \div full)
  BY DEF OverlayAlpha
<1> HIDE DEF full
<1>3. CASE 100 * p >= full
  BY <1>2, <1>3 DEF MaxAlpha
<1>4. CASE ~ (100 * p >= full)
  <2>1. full > 0 /\ full - 100 * p > 0
    BY <1>1, <1>4 DEF Percent
  <2> DEFINE n == (full - 100 * p) * 10000
  <2>2. n \in Nat
    BY <1>1, <2>1 DEF Percent
  <2> HIDE DEF n
  <2>3. n \div full \in Int
    BY <1>1, <2>1, <2>2
  <2>4. OverlayAlpha(p, cfg) = Least(MaxAlpha, n \div full)
    BY <1>2, <1>4 DEF n
  <2> QED
    BY <2>3, <2>4 DEF Least, MaxAlpha
<1> QED
  BY <1>3, <1>4

LEMMA HardwareRange ==
  ASSUME NEW p \in Percent
  PROVE  HardwarePct(p, Hardware(Floor, MinPerceived)) \in Percent
PROOF
<1> DEFINE cfg == Hardware(Floor, MinPerceived)
<1>1. cfg.software = FALSE /\ cfg.floor = Floor /\ cfg.min = MinPerceived
  BY DEF Hardware
<1>2. Floor \in Percent /\ MinPerceived \in 0 .. 95
  BY TrayAssumption
<1>3. RoundClamp((p - MinPerceived) * 100, 100 - MinPerceived, Floor, 100) \in Percent
  <2>1. /\ (p - MinPerceived) * 100 \in Int /\ 100 - MinPerceived \in Nat \ {0}
        /\ 100 \in Percent /\ Floor =< 100
    BY <1>2 DEF Percent
  <2>2. RoundClamp((p - MinPerceived) * 100, 100 - MinPerceived, Floor, 100) \in Floor .. 100
    BY <1>2, <2>1, RoundClampRange
  <2> QED
    BY <1>2, <2>2 DEF Percent
<1>4. 100 \in Percent
  BY DEF Percent
<1> HIDE DEF cfg
<1> QED
  BY <1>1, <1>2, <1>3, <1>4 DEF HardwarePct, cfg

LEMMA PositionRange ==
  ASSUME NEW hw \in Percent, NEW cfg \in {SoftwareOnly, Hardware(Floor, MinPerceived)}
  PROVE  ReverseMap(hw, cfg) \in Percent
PROOF
<1>1. CASE cfg.software
  BY <1>1 DEF ReverseMap
<1>2. CASE ~ cfg.software
  <2>1. cfg.min = MinPerceived
    <3>1. cfg # SoftwareOnly
      BY <1>2 DEF SoftwareOnly
    <3> QED
      BY <3>1 DEF Hardware
  <2>2. Pos(hw, MinPerceived) \in Int /\ 0 \in Percent /\ 100 \in Percent
    <3>1. MinPerceived \in Int /\ hw \in Int
      BY TrayAssumption DEF Percent
    <3> QED
      BY <3>1 DEF Pos, Percent
  <2>3. RoundClamp(Pos(hw, MinPerceived), 100, 0, 100) \in 0 .. 100
    <3>1. 100 \in Nat \ {0} /\ 0 =< 100
      OBVIOUS
    <3> QED
      BY <2>2, <3>1, RoundClampRange
  <2> QED
    BY <1>2, <2>1, <2>3 DEF ReverseMap, Percent
<1> QED
  BY <1>1, <1>2

LEMMA SurfaceRange ==
  ASSUME NEW map \in Enumerations, NEW id \in Ids
  PROVE  SurfaceFor[map][id] \in Surfaces \union {NoSurface}
PROOF
<1> DEFINE found == SelectSlotMatch(id, BareIds(map))
<1>1. SurfaceFor[map][id] = IF found = {} THEN NoSurface ELSE map[CHOOSE i \in found : TRUE].surface
  BY DEF SurfaceFor
<1>2. PICK n \in 0 .. MaxAttached :
        map \in [1 .. n -> [panel : Panels, surface : Surfaces \union {NoSurface}]]
  BY EnumerationIsList
<1>3. found \subseteq 1 .. n
  BY <1>2 DEF SelectSlotMatch, BareIds
<1> HIDE DEF found
<1> QED
  BY <1>1, <1>2, <1>3

LEMMA AnchorsAreIds ==
  ASSUME NEW groups, DOMAIN groups \subseteq Ids
  PROVE  Anchors(groups) \subseteq Ids
PROOF BY AnchorIsItsOwn

LevelsOK == level \in [Ids -> Percent \union {NoLevel}]

HeldOK == controlled \subseteq Ids /\ unresponsive \subseteq Ids /\ greyed \subseteq Ids

QueueOK == due \in BOOLEAN /\ Len(announced) =< MaxAnnounced

OverlaysOK == overlays \subseteq [id : Ids, surface : Surfaces, alpha : 1 .. MaxAlpha]

SentOK == sent \subseteq [id : Ids, pct : Percent]

LEMMA PlanRange ==
  ASSUME IdsOK, NEW groups, DOMAIN groups \subseteq Ids, NEW held,
         NEW levels \in [Ids -> Percent \union {NoLevel}]
  PROVE  Plan(groups, held, levels) \subseteq [id : Ids, surface : Surfaces, alpha : 1 .. MaxAlpha]
PROOF
<1> SUFFICES ASSUME NEW o \in Plan(groups, held, levels)
             PROVE  o \in [id : Ids, surface : Surfaces, alpha : 1 .. MaxAlpha]
  OBVIOUS
<1>1. /\ o.id \in Anchors(groups)
      /\ o.surface = SurfaceFor[bounds][o.id] /\ o.surface # NoSurface
      /\ o.alpha = OverlayAlpha(LevelOr(levels, o.id, 100), ConfigOf(groups, o.id))
      /\ o.alpha > 0
      /\ o = [id |-> o.id, surface |-> o.surface, alpha |-> o.alpha]
  BY PlanFollowsSlider
<1>2. o.id \in Ids
  BY <1>1, AnchorsAreIds
<1>3. o.surface \in Surfaces
  BY <1>1, <1>2, SurfaceRange DEF IdsOK
<1>4. LevelOr(levels, o.id, 100) \in Percent
  BY <1>2 DEF LevelOr, Percent
<1>5. o.alpha \in 1 .. MaxAlpha
  <2>1. ConfigOf(groups, o.id) \in {SoftwareOnly, Hardware(Floor, MinPerceived)}
    BY ConfigsAre
  <2>2. o.alpha \in Int /\ o.alpha =< MaxAlpha
    BY <1>1, <1>4, <2>1, AlphaRange
  <2>3. \A n \in Int : n =< MaxAlpha /\ n > 0 => n \in 1 .. MaxAlpha
    BY DEF MaxAlpha
  <2>4. o.alpha > 0
    BY <1>1
  <2> QED
    BY Zenon, <2>2, <2>3, <2>4
<1> QED
  BY <1>1, <1>2, <1>3, <1>5

\* What is sent when every wanted level is a percentage.
LEMMA WritesRange ==
  ASSUME IdsOK, NEW a, NEW pct \in Percent
  PROVE  Writes(a, pct) \subseteq [id : Ids, pct : Percent]
PROOF
<1> SUFFICES ASSUME NEW w \in Writes(a, pct) PROVE w \in [id : Ids, pct : Percent]
  OBVIOUS
<1>1. a \in DOMAIN seen /\ w \in FanOut(seen, a, HardwarePct(pct, ConfigOf(seen, a)))
  BY DEF Writes
<1>2. /\ w.id \in Members(seen, a) /\ w = [id |-> w.id, pct |-> w.pct]
      /\ w.pct = IF GroupIsSoftware(seen, a) THEN 100
                 ELSE HardwarePct(pct, ConfigOf(seen, a))
  BY <1>1 DEF FanOut
<1>3. w.id \in Ids
  BY <1>1, <1>2, MembersAgree DEF IdsOK
<1>4. w.pct \in Percent
  <2>1. CASE GroupIsSoftware(seen, a)
    BY <1>2, <2>1 DEF Percent
  <2>2. CASE ~ GroupIsSoftware(seen, a)
    BY <1>2, <2>2, HardwareRange DEF ConfigOf
  <2> QED
    BY <2>1, <2>2
<1> QED
  BY <1>2, <1>3, <1>4

TypesOK == LevelsOK /\ HeldOK /\ QueueOK /\ OverlaysOK /\ SentOK

LEMMA UserLevelsTypes ==
  ASSUME IdsOK, TypesOK, NEW wanted, SetUserLevels(wanted),
         DOMAIN wanted \subseteq Ids, \A a \in DOMAIN wanted : wanted[a] \in Percent
  PROVE  TypesOK'
PROOF
<1>1. LevelsOK'
  BY DEF SetUserLevels, TypesOK, LevelsOK
<1>2. HeldOK' /\ QueueOK'
  BY DEF SetUserLevels, TypesOK, HeldOK, QueueOK, engineVars
<1>3. OverlaysOK'
  <2>1. overlays' = Plan(seen, controlled', level')
    BY DEF SetUserLevels
  <2> QED
    BY <1>1, <2>1, PlanRange DEF IdsOK, LevelsOK, OverlaysOK
<1>4. SentOK'
  <2>1. sent' = UNION {Writes(a, wanted[a]) : a \in DOMAIN wanted}
    BY DEF SetUserLevels
  <2> QED
    BY <2>1, WritesRange DEF SentOK
<1> QED
  BY <1>1, <1>2, <1>3, <1>4 DEF TypesOK

LEMMA DisplaysChangedTypes ==
  ASSUME IdsOK, IdsOK', TypesOK, DisplaysChanged
  PROVE  TypesOK'
PROOF
<1>1. /\ announced # <<>> /\ announced' = Tail(announced) /\ due' = due
      /\ controlled' \subseteq DOMAIN seen'
      /\ level' = [id \in Ids |-> level'[id]]
      /\ \A id \in Ids :
           /\ id \in Moved(seen, seen', controlled) =>
                level'[id] = LevelOr(level,
                  CHOOSE o \in Predecessors(seen, seen', controlled, id) : TRUE, DefaultUserLevel)
           /\ \/ id \in Moved(seen, seen', controlled) \/ level'[id] = level[id]
              \/ \E reading \in Readings \union {DefaultUserLevel} :
                   level'[id] = AdoptPosition(reading, level[id], ConfigOf(seen', id))
      /\ unresponsive' \subseteq unresponsive
      /\ greyed' \subseteq Anchors(seen')
      /\ overlays' = Plan(seen', controlled', level') /\ sent' = {}
  <2>1. due' = due
    BY DEF DisplaysChanged
  <2> QED
    BY <2>1, DisplaysChangedDoes
<1>2. DOMAIN seen' \subseteq Ids
  BY DEF IdsOK
<1>3. LevelsOK'
  <2> SUFFICES ASSUME NEW id \in Ids PROVE level'[id] \in Percent \union {NoLevel}
    BY <1>1 DEF LevelsOK
  <2>1. level[id] \in Percent \union {NoLevel}
    BY DEF TypesOK, LevelsOK
  <2>2. CASE id \in Moved(seen, seen', controlled)
    <3> DEFINE o == CHOOSE o \in Predecessors(seen, seen', controlled, id) : TRUE
    <3>1. o \in Ids
      <4>1. o \in Predecessors(seen, seen', controlled, id)
        BY <2>2 DEF Moved
      <4> QED
        BY <4>1, AnchorsAreIds DEF Predecessors, IdsOK
    <3>2. level'[id] = LevelOr(level, o, DefaultUserLevel)
      BY <1>1, <2>2
    <3> HIDE DEF o
    <3> QED
      BY <3>1, <3>2 DEF LevelOr, DefaultUserLevel, TypesOK, LevelsOK, Percent
  <2>3. ASSUME NEW reading \in Readings \union {DefaultUserLevel},
               level'[id] = AdoptPosition(reading, level[id], ConfigOf(seen', id))
        PROVE  level'[id] \in Percent \union {NoLevel}
    <3>1. reading \in Percent
      BY TrayAssumption DEF DefaultUserLevel, Percent
    <3>2. ReverseMap(reading, ConfigOf(seen', id)) \in Percent
      BY <3>1, PositionRange, ConfigsAre
    <3> QED
      BY <2>1, <2>3, <3>2 DEF AdoptPosition
  <2> QED
    BY <1>1, <2>1, <2>2, <2>3
<1>4. HeldOK'
  BY <1>1, <1>2, AnchorsAreIds DEF TypesOK, HeldOK
<1>5. QueueOK'
  <2>1. announced \in Seq(SUBSET Ids) /\ announced # <<>> /\ MaxAnnounced \in Nat
    BY <1>1, TrayAssumption DEF IdsOK
  <2>2. Len(Tail(announced)) = Len(announced) - 1 /\ Len(announced) \in Nat
    BY <2>1
  <2>3. Len(announced) =< MaxAnnounced /\ due \in BOOLEAN
    BY DEF TypesOK, QueueOK
  <2>4. Len(Tail(announced)) =< MaxAnnounced
    BY <2>1, <2>2, <2>3
  <2> QED
    BY <1>1, <2>3, <2>4 DEF QueueOK
<1>6. OverlaysOK'
  BY <1>1, <1>2, <1>3, PlanRange DEF LevelsOK, OverlaysOK
<1>7. SentOK'
  BY <1>1 DEF SentOK
<1> QED
  BY <1>3, <1>4, <1>5, <1>6, <1>7 DEF TypesOK

\* What the user touches is a display the tray or the engine knows.
LEMMA InputIsForIds ==
  ASSUME IdsOK
  PROVE  /\ SetUserLevel => \E wanted : /\ DOMAIN wanted \subseteq Ids
                                        /\ \A a \in DOMAIN wanted : wanted[a] \in Percent
                                        /\ SetUserLevels(wanted)
         /\ Anchors(seen) \subseteq Ids
         /\ IdsOf[bounds] \subseteq Ids
         /\ \A id \in Ids : Route(id) \in Ids
PROOF
<1>1. Anchors(seen) \subseteq Ids /\ IdsOf[bounds] \subseteq Ids
  BY AnchorsAreIds, ResolvedIds DEF IdsOK
<1>2. ASSUME NEW id \in Ids PROVE Route(id) \in Ids
  BY <1>1, <1>2 DEF Route, Anchors
<1>3. ASSUME SetUserLevel
      PROVE  \E wanted : /\ DOMAIN wanted \subseteq Ids
                         /\ \A a \in DOMAIN wanted : wanted[a] \in Percent
                         /\ SetUserLevels(wanted)
  <2>1. PICK id \in DOMAIN seen \union IdsOf[bounds], pct \in UserLevels :
          SetUserLevels([a \in {Route(id)} |-> pct])
    BY <1>3 DEF SetUserLevel
  <2> DEFINE wanted == [a \in {Route(id)} |-> pct]
  <2>2. DOMAIN wanted \subseteq Ids
    BY <1>1, <1>2 DEF IdsOK
  <2>3. \A a \in DOMAIN wanted : wanted[a] \in Percent
    BY TrayAssumption
  <2> HIDE DEF wanted
  <2>4. SetUserLevels(wanted)
    BY <2>1 DEF wanted
  <2> QED
    BY <2>2, <2>3, <2>4
<1> QED
  BY <1>1, <1>2, <1>3

LEMMA TypesOKStep == IdsOK /\ IdsOK' /\ TypesOK /\ [Next]_vars => TypesOK'
PROOF
<1> SUFFICES ASSUME IdsOK, IdsOK', TypesOK, [Next]_vars PROVE TypesOK'
  OBVIOUS
<1>1. LevelsOK /\ HeldOK /\ QueueOK /\ OverlaysOK /\ SentOK
  BY DEF TypesOK
<1>2. ASSUME UNCHANGED <<level, controlled, unresponsive, greyed, overlays>>, sent' = {}, QueueOK'
      PROVE  TypesOK'
  BY <1>1, <1>2 DEF TypesOK, LevelsOK, HeldOK, OverlaysOK, SentOK
<1>3. CASE Enumerate
  BY <1>1, <1>2, <1>3 DEF Enumerate, QueueOK
<1>4. CASE Announce
  <2>1. QueueOK'
    <3>1. announced \in Seq(SUBSET Ids) /\ IdsOf[bounds] \in SUBSET Ids /\ MaxAnnounced \in Nat
      BY InputIsForIds, TrayAssumption DEF IdsOK
    <3>2. Len(Append(announced, IdsOf[bounds])) = Len(announced) + 1 /\ Len(announced) \in Nat
      BY <3>1
    <3>3. /\ Len(announced) < MaxAnnounced /\ due' = FALSE
          /\ announced' = Append(announced, IdsOf[bounds])
      BY <1>4 DEF Announce
    <3>4. Len(announced') =< MaxAnnounced
      BY <3>1, <3>2, <3>3
    <3> QED
      BY <3>3, <3>4 DEF QueueOK
  <2> QED
    BY <1>2, <1>4, <2>1 DEF Announce
<1>5. CASE SetUserLevel
  BY <1>5, InputIsForIds, UserLevelsTypes
<1>6. CASE Nudge(Step) \/ Nudge(-Step)
  <2>1. PICK wanted : /\ DOMAIN wanted = Anchors(seen)
                      /\ \A a \in DOMAIN wanted : wanted[a] \in Percent
                      /\ SetUserLevels(wanted)
    BY <1>6, InputIsPercent
  <2> QED
    BY <2>1, InputIsForIds, UserLevelsTypes
<1>7. ASSUME UNCHANGED <<due, announced, controlled, unresponsive, greyed>>, sent' = {},
             LevelsOK', OverlaysOK'
      PROVE  TypesOK'
  BY <1>1, <1>7 DEF TypesOK, HeldOK, QueueOK, SentOK
<1>8. CASE RestoreScreen
  BY <1>1, <1>7, <1>8 DEF RestoreScreen, engineVars, LevelsOK, OverlaysOK
<1>9. CASE PlatformWake
  <2>1. OverlaysOK'
    <3>1. overlays' = Plan(seen, controlled, level)
      BY <1>9 DEF PlatformWake
    <3> QED
      BY <1>1, <3>1, PlanRange DEF IdsOK, LevelsOK, OverlaysOK
  <2> QED
    BY <1>1, <1>7, <1>9, <2>1 DEF PlatformWake, engineVars, LevelsOK
<1>10. CASE DisplaysChanged
  BY <1>10, DisplaysChangedTypes
<1>11. ASSUME NEW id \in IdsOf[bounds], NEW responsive, MemberHealth(id, responsive) PROVE TypesOK'
  <2>1. id \in Ids /\ Route(id) \in Ids
    BY InputIsForIds
  <2>2. HeldOK'
    BY <1>1, <1>11, <2>1 DEF MemberHealth, HeldOK
  <2>3. UNCHANGED <<due, announced, level, overlays>> /\ sent' = {}
    BY <1>11 DEF MemberHealth, engineVars
  <2> QED
    BY <1>1, <2>2, <2>3 DEF TypesOK, LevelsOK, QueueOK, OverlaysOK, SentOK
<1>12. ASSUME NEW id \in IdsOf[bounds], NEW hw \in Readings, LevelRead(id, hw) PROVE TypesOK'
  <2>1. LevelsOK'
    <3>1. level' = [level EXCEPT ![Route(id)] = ReverseMap(hw, ConfigOf(seen, Route(id)))]
      BY <1>12 DEF LevelRead
    <3>2. ConfigOf(seen, Route(id)) \in {SoftwareOnly, Hardware(Floor, MinPerceived)}
      BY ConfigsAre
    <3>3. ReverseMap(hw, ConfigOf(seen, Route(id))) \in Percent
      BY <3>2, PositionRange, TrayAssumption
    <3> QED
      BY <1>1, <3>1, <3>3 DEF LevelsOK
  <2>2. OverlaysOK'
    <3>1. overlays' = Plan(seen, controlled, level')
      BY <1>12 DEF LevelRead
    <3> QED
      BY <2>1, <3>1, PlanRange DEF IdsOK, LevelsOK, OverlaysOK
  <2> QED
    BY <1>7, <1>12, <2>1, <2>2 DEF LevelRead, engineVars
<1>13. CASE UNCHANGED vars
  BY <1>1, <1>13 DEF vars, engineVars, TypesOK, LevelsOK, HeldOK, QueueOK, OverlaysOK, SentOK
<1> QED
  BY Zenon, <1>3, <1>4, <1>5, <1>6, <1>8, <1>9, <1>10, <1>11, <1>12, <1>13 DEF Next

\* Every variable keeps its type.
THEOREM TrayTypeCorrect == Spec => []TrayTypeOK
PROOF
<1>1. Init => TypesOK
  <2> SUFFICES ASSUME Init PROVE TypesOK
    OBVIOUS
  <2>1. LevelsOK
    BY TrayAssumption DEF Init, LevelsOK
  <2>2. HeldOK /\ OverlaysOK /\ SentOK
    BY DEF Init, HeldOK, OverlaysOK, SentOK
  <2>3. QueueOK
    <3>1. due = FALSE /\ announced = <<>> /\ MaxAnnounced \in Nat
      BY TrayAssumption DEF Init
    <3>2. due \in BOOLEAN
      BY <3>1
    <3>3. Len(announced) =< MaxAnnounced
      BY <3>1
    <3> QED
      BY <3>2, <3>3 DEF QueueOK
  <2> QED
    BY <2>1, <2>2, <2>3 DEF TypesOK
<1>2. IdsOK /\ TypesOK => TrayTypeOK
  BY DEF IdsOK, TypesOK, LevelsOK, HeldOK, QueueOK, OverlaysOK, SentOK, TrayTypeOK
<1> QED
  BY <1>1, <1>2, IdsOKInit, IdsOKStep, TypesOKStep, PTL DEF Spec

=============================================================================
